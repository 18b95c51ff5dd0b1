-------------------------- MODULE AttemptProjection --------------------------
(***************************************************************************)
(* The projection of the attempt authority (app/services/attempts.py).     *)
(*                                                                         *)
(* `rows` is one lesson's lesson_attempts table: immutable rows in id      *)
(* order, the AUTOINCREMENT id of a row being its index.  The app projects *)
(* it into the bundle's attempts.jsonl (`file`), which the learner's shell *)
(* can reach, and seals the last state it published in a private sidecar   *)
(* (`sidecar`).  A server process owes a projection of each row it         *)
(* commits; the per-lesson flock (`holder`) excludes other projectors, not *)
(* the shell.                                                              *)
(*                                                                         *)
(* A line is the pair (created_at, attempt_id) that orders it; every other *)
(* field is carried along unchanged.  A seal (dev, ino, size, mtime_ns,    *)
(* ctime_ns, one link) is one value, a stamp, which every change of the    *)
(* file renews, as it does the nanosecond ctime: a change takes a stamp    *)
(* nobody remembers.                                                       *)
(***************************************************************************)
EXTENDS Integers, Sequences

CONSTANTS
    Procs,        \* server processes; each serializes itself on the bundle lock
    NoProc,       \* no process holds the flock
    Line,         \* what a row may show: a created_at of a wall clock, which may
                  \* step back, and a uuid, ordered as its text is
    Stamps,       \* seals the filesystem can hand out
    MaxEdits,     \* bound: changes made to the bundle by others than the app
    MaxFaults     \* bound: process crashes and database restores

ASSUME ProjectionAssumption ==
    /\ NoProc \notin Procs
    /\ Line \subseteq [at : Nat, att : Nat \ {0}]
    /\ Stamps \subseteq Nat \ {0}
    /\ MaxEdits \in Nat
    /\ MaxFaults \in Nat

VARIABLES
    rows,       \* the authority
    minted,     \* attempt ids ever generated: a uuid is never generated twice
    file,       \* attempts.jsonl: [there, stamp, lines]
    sidecar,    \* the durable cursor and seal, or NoState
    holder,     \* the process holding the flock
    owed,       \* owed[p]: id of the row p committed and has yet to project, 0 if none
    job,        \* job[p]: where p is in its projection and what it has read
    answer,     \* what a call answered in the last step, "none" if none returned
    edits,      \* bundle edits so far
    faults,     \* crashes and restores so far
    tampered    \* history: the file was edited inside an append's unsealed window

vars == <<rows, minted, file, sidecar, holder, owed, job, answer, edits, faults, tampered>>

Foreign == [at |-> 0, att |-> 0]        \* a torn line, or one the app never wrote
NoState == [cursor |-> -1, cursorAtt |-> 0, tail |-> Foreign, seal |-> 0]

\* The §6.1 order: ascending created_at, ties by attempt_id.
Before(a, b) == a.at < b.at \/ (a.at = b.at /\ a.att < b.att)

\* s is the complete and ordered projection of the first n rows of r.
ProjectionOf(r, s, n) ==
    /\ \A i \in DOMAIN s : \E k \in 1..n : s[i] = r[k]
    /\ \A k \in 1..n : \E i \in DOMAIN s : s[i] = r[k]
    /\ \A i, j \in DOMAIN s : i < j => Before(s[i], s[j])
IsProjectionOf(s, n) == ProjectionOf(rows, s, n)

\* _read_state: a sidecar that is there and is well formed.
Readable(st) == st.cursor >= 0

\* _seal_matches on the public name.
SealMatches(st) == file.stamp = st.seal

\* _cursor_matches_authority: both anchors still name rows of this database.
CursorMatchesAuthority(st) ==
    IF st.cursor = 0
    THEN rows = << >>
    ELSE /\ st.cursor \in DOMAIN rows
         /\ rows[st.cursor].att = st.cursorAtt
         /\ \E i \in DOMAIN rows : rows[i] = st.tail

IdleJob == [pc |-> "idle", st |-> NoState, named |-> FALSE, size |-> 0, seal |-> 0,
            lines |-> << >>]

Init ==
    /\ rows = << >>
    /\ minted = {}
    /\ file = [there |-> FALSE, stamp |-> 0, lines |-> << >>]
    /\ sidecar = NoState
    /\ holder = NoProc
    /\ owed = [p \in Procs |-> 0]
    /\ job = [p \in Procs |-> IdleJob]
    /\ answer = "none"
    /\ edits = 0
    /\ faults = 0
    /\ tampered = FALSE
-----------------------------------------------------------------------------
Idle(p) == owed[p] = 0 /\ job[p].pc = "idle"
At(p, pc) == job[p].pc = pc

environment == <<rows, minted, edits, faults>>
disk == <<file, tampered>>

\* A seal nobody remembers: what a changed file now shows.
Held ==
    {file.stamp, sidecar.seal}
      \union {job[p].seal : p \in Procs} \union {job[p].st.seal : p \in Procs}
Fresh(s) == s \in Stamps \ Held /\ \A r \in Stamps \ Held : s <= r

\* No open descriptor is what the public name shows any more.
Orphaned(j) == [p \in Procs |-> [j[p] EXCEPT !.named = FALSE]]

Silent == answer' = "none"

Goto(p, pc) ==
    /\ job' = [job EXCEPT ![p] = IF pc = "rebuild" THEN [IdleJob EXCEPT !.pc = pc]
                                 ELSE [@ EXCEPT !.pc = pc]]
    /\ Silent
    /\ UNCHANGED <<holder, owed>>

Return_WrongField(p, result) ==
    /\ job' = [job EXCEPT ![p] = IdleJob]
    /\ owed' = [owed EXCEPT ![p] = 0]
    /\ answer' = "recorded"
    /\ holder' = NoProc

\* The call returns: `projected` or `pending`, the flock released by the
\* context manager on every path.
Return(p, result) ==
    /\ job' = [job EXCEPT ![p] = IdleJob]
    /\ owed' = [owed EXCEPT ![p] = 0]
    /\ answer' = result
    /\ holder' = NoProc

\* record_attempt's transaction: created_at and the uuid are taken before the
\* write lock, so rows of two processes may commit against their clock order.
Record(p, l) ==
    /\ Idle(p)
    /\ l.att \notin minted
    /\ rows' = Append(rows, l)
    /\ minted' = minted \union {l.att}
    /\ owed' = [owed EXCEPT ![p] = Len(rows) + 1]
    /\ Silent
    /\ UNCHANGED <<sidecar, holder, job, edits, faults, disk>>

\* LOCK_EX|LOCK_NB fails, or the filesystem refuses the lock file.
LockRefused(p) ==
    /\ owed[p] # 0 /\ job[p].pc = "idle"
    /\ owed' = [owed EXCEPT ![p] = 0]
    /\ answer' = "pending"
    /\ UNCHANGED <<environment, sidecar, holder, job, disk>>

LockFree_Blind == TRUE
LockFree == holder = NoProc

\* _project_attempt: take the flock.
Lock(p) ==
    /\ owed[p] # 0 /\ job[p].pc = "idle"
    /\ LockFree
    /\ holder' = p
    /\ job' = [job EXCEPT ![p].pc = "inspect"]
    /\ Silent
    /\ UNCHANGED <<environment, sidecar, owed, disk>>

\* reconcile_projection: take the flock and rebuild whatever is there.
Reconcile(p) ==
    /\ Idle(p)
    /\ LockFree
    /\ holder' = p
    /\ job' = [job EXCEPT ![p].pc = "rebuild"]
    /\ Silent
    /\ UNCHANGED <<environment, sidecar, owed, disk>>

\* _read_state and _projection_matches_state.
Inspect(p) ==
    /\ At(p, "inspect")
    /\ IF Readable(sidecar) /\ SealMatches(sidecar)
       THEN /\ job' = [job EXCEPT ![p] = [@ EXCEPT !.pc = "anchor", !.st = sidecar]]
            /\ Silent
            /\ UNCHANGED <<holder, owed>>
       ELSE Goto(p, "rebuild")
    /\ UNCHANGED <<environment, sidecar, disk>>

Anchor(p) ==
    /\ At(p, "anchor")
    /\ Goto(p, IF CursorMatchesAuthority(job[p].st) THEN "select" ELSE "rebuild")
    /\ UNCHANGED <<environment, sidecar, disk>>

\* The candidate is the strict sort successor of everything projected.
Successor_AnyOrder(st, row) == TRUE
Successor(st, row) == st.cursor = 0 \/ Before(st.tail, row)

\* The rows beyond the cursor (the code looks at two at most).
Unseen_SkipsOne(st) == Len(rows) - st.cursor - 1
Unseen(st) == Len(rows) - st.cursor

\* No unseen row is success, one may be appended, two or a row sorting before
\* the tail mean a rebuild.
Select(p) ==
    /\ At(p, "select")
    /\ LET st == job[p].st IN
       IF Unseen(st) <= 0
       THEN Return(p, "projected")
       ELSE Goto(p, IF Unseen(st) = 1 /\ Successor(st, rows[st.cursor + 1])
                    THEN "open" ELSE "rebuild")
    /\ UNCHANGED <<environment, sidecar, disk>>

\* Open for append and take the descriptor's stat before writing.
Open(p) ==
    /\ At(p, "open")
    /\ IF SealMatches(job[p].st)
       THEN /\ job' = [job EXCEPT ![p] = [@ EXCEPT !.pc = "write", !.named = file.there,
                                                   !.size = Len(file.lines)]]
            /\ Silent
            /\ UNCHANGED <<holder, owed>>
       ELSE Goto(p, "rebuild")
    /\ UNCHANGED <<environment, sidecar, disk>>

\* O_APPEND of the rendered line.  A short write or a crash may leave it torn;
\* a descriptor whose file was replaced writes to the orphaned inode.
Write(p) ==
    /\ At(p, "write")
    /\ \E line \in {rows[job[p].st.cursor + 1], Foreign} :
         /\ IF job[p].named
            THEN \E s \in Stamps :
                   /\ Fresh(s)
                   /\ file' = [file EXCEPT !.stamp = s, !.lines = Append(@, line)]
            ELSE file' = file
         /\ Goto(p, IF line = Foreign THEN "rebuild" ELSE "stat")
    /\ UNCHANGED <<environment, sidecar, tampered>>

\* The stat _write_all returns: same file, grown by exactly the line.
GrewByOne(p) == job[p].named /\ Len(file.lines) = job[p].size + 1

Stat(p) ==
    /\ At(p, "stat")
    /\ IF GrewByOne(p)
       THEN /\ job' = [job EXCEPT ![p] = [@ EXCEPT !.pc = "verify", !.seal = file.stamp]]
            /\ Silent
            /\ UNCHANGED <<holder, owed>>
       ELSE Goto(p, "rebuild")
    /\ UNCHANGED <<environment, sidecar, disk>>

\* fsync, the second stat, the readback of the one line and the name's stat:
\* all three looks compare with the seal of Stat, so the last one decides.
StillSealed(p) == file.stamp = job[p].seal

Verify(p) ==
    /\ At(p, "verify")
    /\ Goto(p, IF /\ StillSealed(p)
                  /\ file.lines[job[p].size + 1] = rows[job[p].st.cursor + 1]
               THEN "publish" ELSE "rebuild")
    /\ UNCHANGED <<environment, sidecar, disk>>

AppendedState(p) ==
    LET n == job[p].st.cursor + 1 IN
    [cursor |-> n, cursorAtt |-> rows[n].att, tail |-> rows[n], seal |-> job[p].seal]

\* _write_state: atomic replace, then fsync of the directory.  It may fail
\* before the replace, or after it with the new sidecar in place.
Publish(p) ==
    /\ At(p, "publish")
    /\ \/ sidecar' = AppendedState(p) /\ Return(p, "projected")
       \/ sidecar' = AppendedState(p) /\ Goto(p, "rebuild")
       \/ sidecar' = sidecar /\ Goto(p, "rebuild")
    /\ UNCHANGED <<environment, disk>>

\* The cursor a rebuild will publish: the highest id, and the last line.
RenderedState(s) ==
    IF rows = << >>
    THEN [cursor |-> 0, cursorAtt |-> 0, tail |-> Foreign, seal |-> 0]
    ELSE [cursor |-> Len(rows), cursorAtt |-> rows[Len(rows)].att,
          tail |-> s[Len(rows)], seal |-> 0]

\* _rebuild_projection renders one read snapshot, in order, to a private temp.
Render(p) ==
    /\ At(p, "rebuild")
    /\ \E s \in [1..Len(rows) -> {rows[i] : i \in 1..Len(rows)}] :
         /\ IsProjectionOf(s, Len(rows))
         /\ job' = [job EXCEPT ![p] = [@ EXCEPT !.pc = "replace", !.lines = s,
                                                !.st = RenderedState(s)]]
    /\ Silent
    /\ UNCHANGED <<environment, sidecar, holder, owed, disk>>

Replace(p) ==
    /\ At(p, "replace")
    /\ \E s \in Stamps :
         /\ Fresh(s)
         /\ file' = [there |-> TRUE, stamp |-> s, lines |-> job[p].lines]
         /\ job' = [Orphaned(job) EXCEPT ![p] = [@ EXCEPT !.pc = "recheck", !.seal = s]]
    /\ tampered' = FALSE
    /\ Silent
    /\ UNCHANGED <<environment, sidecar, holder, owed>>

\* The post-replace stats of the descriptor, the directory and the name.
Recheck(p) ==
    /\ At(p, "recheck")
    /\ IF StillSealed(p) THEN Goto(p, "republish") ELSE Return(p, "pending")
    /\ UNCHANGED <<environment, sidecar, disk>>

Republish(p) ==
    /\ At(p, "republish")
    /\ \/ sidecar' = [job[p].st EXCEPT !.seal = job[p].seal] /\ Return(p, "projected")
       \/ sidecar' = [job[p].st EXCEPT !.seal = job[p].seal] /\ Return(p, "pending")
       \/ sidecar' = sidecar /\ Return(p, "pending")
    /\ UNCHANGED <<environment, disk>>

\* An OSError or sqlite3.Error outside the append's own handler: reported
\* pending, whatever was already done stays done.
Fail(p) ==
    /\ job[p].pc \in {"inspect", "anchor", "select", "rebuild", "replace", "recheck"}
    /\ Return(p, "pending")
    /\ UNCHANGED <<environment, sidecar, disk>>

\* An OSError of the append (open, fsync, read, close) falls back to a rebuild.
AppendFails(p) ==
    /\ job[p].pc \in {"open", "write", "stat", "verify"}
    /\ Goto(p, "rebuild")
    /\ UNCHANGED <<environment, sidecar, disk>>
-----------------------------------------------------------------------------
(* The environment. *)

\* A process dies: the kernel drops its flock, its call never answers.
Crash(p) ==
    /\ ~Idle(p)
    /\ faults < MaxFaults
    /\ faults' = faults + 1
    /\ owed' = [owed EXCEPT ![p] = 0]
    /\ job' = [job EXCEPT ![p] = IdleJob]
    /\ holder' = IF holder = p THEN NoProc ELSE holder
    /\ Silent
    /\ UNCHANGED <<rows, minted, sidecar, edits, disk>>

\* The database is put back to an earlier backup while no server runs; the
\* data directory's sidecar and the bundle are not part of it.
RestoreDatabase(n) ==
    /\ \A p \in Procs : Idle(p)
    /\ faults < MaxFaults
    /\ n < Len(rows)
    /\ faults' = faults + 1
    /\ rows' = SubSeq(rows, 1, n)
    /\ Silent
    /\ UNCHANGED <<minted, sidecar, holder, owed, job, edits, disk>>

InAppendWindow == \E p \in Procs : job[p].pc \in {"write", "stat"} /\ job[p].named

\* Someone edits attempts.jsonl in place: bytes overwritten, cut or added.
EditInPlace(s) ==
    /\ edits < MaxEdits
    /\ file.there
    /\ edits' = edits + 1
    /\ \E new \in Stamps : Fresh(new) /\ file' = [file EXCEPT !.stamp = new, !.lines = s]
    /\ tampered' = (tampered \/ InAppendWindow)
    /\ Silent
    /\ UNCHANGED <<rows, minted, sidecar, holder, owed, job, faults>>

\* Someone replaces the name by another file, or removes it.
EditName(there, s) ==
    /\ edits < MaxEdits
    /\ edits' = edits + 1
    /\ \E new \in Stamps :
         Fresh(new) /\ file' = [there |-> there, stamp |-> new, lines |-> s]
    /\ job' = Orphaned(job)
    /\ tampered' = FALSE
    /\ Silent
    /\ UNCHANGED <<rows, minted, sidecar, holder, owed, faults>>

\* The private sidecar is lost or unreadable.
LoseSidecar ==
    /\ edits < MaxEdits
    /\ Readable(sidecar)
    /\ edits' = edits + 1
    /\ sidecar' = NoState
    /\ Silent
    /\ UNCHANGED <<rows, minted, holder, owed, job, faults, disk>>

\* What an edit leaves behind: the end cut off, something added, a line spoilt.
EditedLines ==
    {SubSeq(file.lines, 1, Len(file.lines) - 1), Append(file.lines, Foreign)}
      \union {[file.lines EXCEPT ![i] = Foreign] : i \in DOMAIN file.lines}

Environment ==
    \/ \E p \in Procs : Crash(p)
    \/ \E n \in 0..Len(rows) : RestoreDatabase(n)
    \/ \E s \in EditedLines : EditInPlace(s)
    \/ \E s \in EditedLines : EditName(TRUE, s)
    \/ EditName(FALSE, << >>)
    \/ LoseSidecar

Projector(p) ==
    \/ LockRefused(p) \/ Lock(p) \/ Reconcile(p)
    \/ Inspect(p) \/ Anchor(p) \/ Select(p)
    \/ Open(p) \/ Write(p) \/ Stat(p) \/ Verify(p) \/ Publish(p)
    \/ Render(p) \/ Replace(p) \/ Recheck(p) \/ Republish(p)
    \/ Fail(p) \/ AppendFails(p)

Next ==
    \/ \E p \in Procs, l \in Line : Record(p, l)
    \/ \E p \in Procs : Projector(p)
    \/ Environment

Spec == Init /\ [][Next]_vars
-----------------------------------------------------------------------------
(* Properties. *)

State == [cursor : Int, cursorAtt : Nat, tail : [at : Nat, att : Nat], seal : Nat]

Job == [pc : {"idle", "inspect", "anchor", "select", "open", "write", "stat", "verify",
              "publish", "rebuild", "replace", "recheck", "republish"},
        st : State, named : BOOLEAN, size : Nat, seal : Nat, lines : Seq(Line)]

DatabaseType == rows \in Seq(Line) /\ minted \subseteq Nat \ {0}

FilesType ==
    /\ file \in [there : BOOLEAN, stamp : Nat, lines : Seq(Line \union {Foreign})]
    /\ sidecar \in State
    /\ tampered \in BOOLEAN

CallsType ==
    /\ holder \in Procs \union {NoProc}
    /\ owed \in [Procs -> Nat]
    /\ job \in [Procs -> Job]
    /\ answer \in {"none", "projected", "pending"}

CountersType == edits \in 0..MaxEdits /\ faults \in 0..MaxFaults

\* Every variable holds a value of its kind.
TypeOK == DatabaseType /\ FilesType /\ CallsType /\ CountersType

\* What the fast path may trust: a sidecar whose seal fits the file and whose
\* anchors fit the database.
Trusted(st) == Readable(st) /\ SealMatches(st) /\ CursorMatchesAuthority(st)

\* attempts.py promises that a crash, a restore or a rewrite of the bundle
\* leaves a missing or mismatched sidecar: whenever the fast path would trust
\* the sidecar, the file is exactly the ordered projection of the rows up to
\* the cursor.  The one exception is the documented one: an edit in place
\* while an append is between its two stats.
TrustedIsFaithful ==
    Trusted(sidecar) /\ ~tampered => IsProjectionOf(file.lines, sidecar.cursor)

\* The API's "projected": the published cursor covers the caller's own row.
\* (The process reports it in the step that clears what it owed.)
ProjectedCoversOwnRow ==
    [][\A p \in Procs :
         (owed[p] # 0 /\ owed'[p] = 0 /\ answer' = "projected")
           => (sidecar'.cursor >= owed[p] \/ job[p].st.cursor >= owed[p])]_vars

\* A stale rebuild never wins: while the sidecar's anchors hold in this
\* database, the cursor a projector publishes is not behind the one it replaces.
CursorNeverFallsBack ==
    [][(Readable(sidecar) /\ CursorMatchesAuthority(sidecar) /\ Readable(sidecar'))
         => sidecar'.cursor >= sidecar.cursor]_vars
=============================================================================
