--------------------------- MODULE PlannerProofs ----------------------------
(***************************************************************************)
(* The planner's properties for every value of its constants: the journal  *)
(* of entries, the restore of an export, the windows of the calendar, the  *)
(* drags on the task board, the starts of a database of any age, and the   *)
(* types of them all.  Each rests on an invariant of its own service;      *)
(* PlannerNext moves one service at a time and leaves the tables of the    *)
(* others alone.                                                           *)
(***************************************************************************)
EXTENDS MCPlanner, FiniteSetTheorems, TLAPS

(* Retrospective entries. *)

Row == [precision : Precisions, text : Texts,
        start : Instants \union {None}, end : Instants \union {None},
        updated : Stamps, archived : Stamps]

Kinds == {"created", "updated", "archived", "unarchived"}
Snapshot == [kind : Kinds, id : Nat, row : Row]

\* The rows and events have their types, and every event and every handler
\* names an entry that exists: entries are never deleted.
Shape ==
    /\ rows \in Seq(Row) /\ journal \in Seq(Snapshot) /\ clock \in Nat
    /\ \A i \in DOMAIN journal : journal[i].id \in DOMAIN rows
    /\ \A c \in calls : /\ c.id \in DOMAIN rows /\ c.ts \in Nat
                        /\ c.op = "update" => c.entry \in Row

IInv == Shape /\ RetroHonest
-----------------------------------------------------------------------------
(* One more entry event. *)

\* A transaction that leaves one row as its event says, archives only an entry
\* that is not archived and revives only one that is.
Journaled(kind, id, row) ==
    /\ kind \in Kinds /\ row \in Row
    /\ journal' = Append(journal, Event(kind, id, row))
    /\ rows' \in Seq(Row) /\ id \in DOMAIN rows' /\ rows'[id] = row
    /\ DOMAIN rows \subseteq DOMAIN rows' /\ DOMAIN rows' \subseteq DOMAIN rows \union {id}
    /\ \A k \in DOMAIN rows \ {id} : rows'[k] = rows[k]
    /\ kind = "archived" => id \in DOMAIN rows /\ rows[id].archived = None
    /\ kind = "unarchived" => id \in DOMAIN rows /\ rows[id].archived # None

LEMMA JournalGrows ==
  ASSUME Shape, NEW kind, NEW id, NEW row, Journaled(kind, id, row)
  PROVE  /\ journal' \in Seq(Snapshot)
         /\ DOMAIN journal' = 1..(Len(journal) + 1) /\ DOMAIN journal = 1..Len(journal)
         /\ Len(journal) \in Nat
         /\ \A i \in DOMAIN journal : journal'[i] = journal[i]
         /\ journal'[Len(journal) + 1] = [kind |-> kind, id |-> id, row |-> row]
         /\ \A i \in DOMAIN journal' : journal'[i].id \in DOMAIN rows'
<1> DEFINE e == [kind |-> kind, id |-> id, row |-> row]
<1>1. id \in Nat
  BY DEF Journaled
<1>2. e \in Snapshot /\ journal' = Append(journal, e)
  BY <1>1 DEF Journaled, Snapshot, Event
<1>3. journal \in Seq(Snapshot)
  BY DEF Shape
<1> HIDE DEF e
<1>4. /\ journal' \in Seq(Snapshot) /\ Len(journal) \in Nat
      /\ DOMAIN journal' = 1..(Len(journal) + 1) /\ DOMAIN journal = 1..Len(journal)
      /\ \A i \in 1..Len(journal) : journal'[i] = journal[i]
      /\ journal'[Len(journal) + 1] = e
  BY <1>2, <1>3
<1>5. e.id = id
  BY DEF e
<1>6. \A i \in DOMAIN journal' : journal'[i].id \in DOMAIN rows'
  <2> TAKE i \in DOMAIN journal'
  <2>1. CASE i = Len(journal) + 1
    BY <2>1, <1>4, <1>5 DEF Journaled
  <2>2. CASE i \in 1..Len(journal)
    BY <2>2, <1>4 DEF Journaled, Shape
  <2> QED
    BY <2>1, <2>2, <1>4
<1> QED
  BY <1>4, <1>6 DEF e

\* The same, for the last event.
LEMMA GrownAtTheEnd ==
  ASSUME Shape, NEW kind, NEW id, NEW row, Journaled(kind, id, row)
  PROVE  LET n == Len(journal) + 1
         IN  /\ n \in Nat /\ DOMAIN journal' = 1..n /\ DOMAIN journal = 1..(n - 1) /\ n \in DOMAIN journal'
             /\ \A i \in DOMAIN journal : journal'[i] = journal[i] /\ i \in DOMAIN journal' /\ i < n
             /\ journal'[n].id = id /\ journal'[n].row = row /\ journal'[n].kind = kind
<1>1. /\ Len(journal) \in Nat
      /\ DOMAIN journal' = 1..(Len(journal) + 1) /\ DOMAIN journal = 1..Len(journal)
      /\ \A i \in DOMAIN journal : journal'[i] = journal[i]
  BY JournalGrows
<1>2. journal'[Len(journal) + 1] = [kind |-> kind, id |-> id, row |-> row]
  BY JournalGrows
<1>3. PICK n : n = Len(journal) + 1
  OBVIOUS
<1>4. n \in Nat /\ DOMAIN journal' = 1..n /\ DOMAIN journal = 1..(n - 1) /\ n \in DOMAIN journal'
  BY <1>1, <1>3
<1>5. \A i \in DOMAIN journal : i \in DOMAIN journal' /\ i < n
  BY <1>4
<1>6. PICK e : e = journal'[n]
  OBVIOUS
<1>7. e = [kind |-> kind, id |-> id, row |-> row]
  BY <1>2, <1>3, <1>6
<1>8. e.id = id /\ e.row = row /\ e.kind = kind
  BY <1>7
<1> QED
  BY <1>1, <1>3, <1>4, <1>5, <1>6, <1>8

LEMMA LatestKept ==
  ASSUME Shape, LatestSnapshotIsRow, NEW kind, NEW id, NEW row, Journaled(kind, id, row)
  PROVE  LatestSnapshotIsRow'
<1> DEFINE n == Len(journal) + 1
<1>1. /\ n \in Nat /\ DOMAIN journal' = 1..n /\ DOMAIN journal = 1..(n - 1) /\ n \in DOMAIN journal'
      /\ \A i \in DOMAIN journal : journal'[i] = journal[i] /\ i \in DOMAIN journal' /\ i < n
      /\ journal'[n].id = id /\ journal'[n].row = row
  BY GrownAtTheEnd
<1> HIDE DEF n
<1>2. ASSUME NEW i \in DOMAIN journal',
             \A j \in DOMAIN journal' : j > i => journal'[j].id # journal'[i].id
      PROVE  journal'[i].row = rows'[journal'[i].id]
  <2>1. CASE i = n
    BY <2>1, <1>1 DEF Journaled
  <2>2. CASE i \in DOMAIN journal
    <3>1. journal[i].id # id
      BY <1>1, <1>2, <2>2
    <3>2. \A j \in DOMAIN journal : j > i => journal[j].id # journal[i].id
      BY <1>1, <1>2, <2>2
    <3>3. journal[i].row = rows[journal[i].id] /\ journal[i].id \in DOMAIN rows
      BY <2>2, <3>2 DEF LatestSnapshotIsRow, Newest, Shape
    <3> QED
      BY <1>1, <2>2, <3>1, <3>3 DEF Journaled
  <2> QED
    BY <1>1, <2>1, <2>2
<1>3. ASSUME NEW k \in DOMAIN rows'
      PROVE  \E i \in DOMAIN journal' : journal'[i].id = k
  <2>1. CASE k = id
    BY <2>1, <1>1
  <2>2. CASE k \in DOMAIN rows
    <3>1. PICK i \in DOMAIN journal : journal[i].id = k
      BY <2>2 DEF LatestSnapshotIsRow
    <3> QED
      BY <1>1, <3>1
  <2> QED
    BY <2>1, <2>2 DEF Journaled
<1> QED
  BY <1>2, <1>3 DEF LatestSnapshotIsRow, Newest

LEMMA AlternationKept ==
  ASSUME Shape, RetroHonest, NEW kind, NEW id, NEW row, Journaled(kind, id, row)
  PROVE  ArchivingAlternates'
<1> DEFINE n == Len(journal) + 1
<1>1. /\ n \in Nat /\ DOMAIN journal' = 1..n /\ DOMAIN journal = 1..(n - 1)
      /\ \A i \in DOMAIN journal : journal'[i] = journal[i] /\ i \in DOMAIN journal' /\ i < n
      /\ journal'[n].id = id /\ journal'[n].kind = kind
  BY GrownAtTheEnd
<1> HIDE DEF n
<1> SUFFICES ASSUME NEW i \in DOMAIN journal', NEW j \in DOMAIN journal',
                    i < j, journal'[i].id = journal'[j].id,
                    \A k \in DOMAIN journal' : k > i /\ k < j => journal'[k].id # journal'[i].id
             PROVE  /\ journal'[j].kind = "archived" => journal'[i].row.archived = None
                    /\ journal'[j].kind = "unarchived" => journal'[i].row.archived # None
  BY DEF ArchivingAlternates, Follows
<1>2. i \in DOMAIN journal
  BY <1>1
<1>3. CASE j \in DOMAIN journal
  <2>1. Follows(i, j)
    BY <1>1, <1>2, <1>3 DEF Follows
  <2> QED
    BY <1>1, <1>2, <1>3, <2>1 DEF RetroHonest, ArchivingAlternates
<1>4. CASE j = n
  <2>1. \A k \in DOMAIN journal : k > i => journal[k].id # journal[i].id
    BY <1>1, <1>2, <1>4
  <2>2. journal[i].row = rows[journal[i].id] /\ journal[i].id = id
    BY <1>1, <1>2, <1>4, <2>1 DEF RetroHonest, LatestSnapshotIsRow, Newest
  <2> QED
    BY <1>1, <1>2, <1>4, <2>2 DEF Journaled
<1> QED
  BY <1>1, <1>3, <1>4
-----------------------------------------------------------------------------
(* The steps. *)

\* A handler that has its entry and timestamp finds them again when it commits.
LEMMA ShapeOfHandlers ==
  ASSUME Shape, rows' \in Seq(Row), DOMAIN rows \subseteq DOMAIN rows', clock' \in Nat,
         calls' \subseteq calls, journal' \in Seq(Snapshot),
         \A i \in DOMAIN journal' : journal'[i].id \in DOMAIN rows'
  PROVE  Shape'
  BY DEF Shape

LEMMA StepJournaled ==
  ASSUME IInv, NEW kind, NEW id, NEW row, Journaled(kind, id, row), calls' \subseteq calls, clock' = clock
  PROVE  IInv'
<1>1. Shape /\ RetroHonest
  BY DEF IInv
<1>2. Shape'
  BY <1>1, JournalGrows, ShapeOfHandlers DEF Shape, Journaled
<1>3. LatestSnapshotIsRow'
  BY <1>1, LatestKept DEF RetroHonest
<1>4. ArchivingAlternates'
  BY <1>1, AlternationKept
<1> QED
  BY <1>2, <1>3, <1>4 DEF IInv, RetroHonest

LEMMA EntryIsRow ==
  ASSUME NEW p \in Periods, NEW precision \in Precisions, NEW text \in Texts
  PROVE  Entry(p, precision, text) \in Row
  BY DEF Entry, Row, Periods, Stamps

LEMMA StepCreate ==
  ASSUME IInv, NEW e \in Row, CreateEntry(e)
  PROVE  IInv'
<1>1. rows \in Seq(Row) /\ rows' = Append(rows, e) /\ Len(rows) \in Nat
  BY DEF IInv, Shape, CreateEntry
<1>2. /\ rows' \in Seq(Row) /\ DOMAIN rows = 1..Len(rows) /\ DOMAIN rows' = 1..(Len(rows) + 1)
      /\ rows'[Len(rows) + 1] = e /\ \A k \in 1..Len(rows) : rows'[k] = rows[k]
  BY <1>1
<1>3. /\ Len(rows) + 1 \in DOMAIN rows' /\ DOMAIN rows \subseteq DOMAIN rows'
      /\ DOMAIN rows' \subseteq DOMAIN rows \union {Len(rows) + 1}
  BY <1>1, <1>2
<1>4. journal' = Append(journal, Event("created", Len(rows) + 1, e))
  BY DEF CreateEntry
<1>5. "created" \in Kinds /\ "created" # "archived" /\ "created" # "unarchived"
  BY DEF Kinds
<1>6. \A k \in DOMAIN rows \ {Len(rows) + 1} : rows'[k] = rows[k]
  BY <1>2
<1>7. Journaled("created", Len(rows) + 1, e)
  BY <1>2, <1>3, <1>4, <1>5, <1>6 DEF Journaled
<1> QED
  BY <1>7, StepJournaled DEF CreateEntry

LEMMA StepWrite ==
  ASSUME IInv, NEW c \in calls, NEW kind \in {"updated", "archived", "unarchived"}, NEW row \in Row,
         Write(c, kind, row),
         kind = "archived" => rows[c.id].archived = None,
         kind = "unarchived" => rows[c.id].archived # None
  PROVE  IInv'
<1>1. rows \in Seq(Row) /\ c.id \in DOMAIN rows
  BY DEF IInv, Shape
<1>2. rows' = [rows EXCEPT ![c.id] = row] /\ journal' = Append(journal, Event(kind, c.id, row))
  BY DEF Write
<1>3. rows' \in Seq(Row) /\ DOMAIN rows' = DOMAIN rows /\ rows'[c.id] = row
      /\ \A k \in DOMAIN rows \ {c.id} : rows'[k] = rows[k]
  BY <1>1, <1>2
<1>4. kind \in Kinds
  BY DEF Kinds
<1>5. /\ DOMAIN rows \subseteq DOMAIN rows' /\ DOMAIN rows' \subseteq DOMAIN rows \union {c.id}
      /\ c.id \in DOMAIN rows'
  BY <1>1, <1>3
<1>6. Journaled(kind, c.id, row)
  BY <1>1, <1>2, <1>3, <1>4, <1>5 DEF Journaled
<1> QED
  BY <1>6, StepJournaled DEF Write

LEMMA StepNoOp ==
  ASSUME IInv, NEW c, NoOp(c)
  PROVE  IInv'
<1>1. Shape'
  BY DEF IInv, Shape, NoOp
<1> QED
  BY <1>1 DEF IInv, NoOp, RetroHonest, LatestSnapshotIsRow, Newest, ArchivingAlternates, Follows

LEMMA StepHandler ==
  ASSUME IInv, NEW c \in calls, UpdateEntry(c) \/ ArchiveEntry(c) \/ UnarchiveEntry(c)
  PROVE  IInv'
<1>1. rows \in Seq(Row) /\ c.id \in DOMAIN rows /\ rows[c.id] \in Row /\ c.ts \in Stamps
  BY DEF IInv, Shape, Stamps
<1>2. CASE UpdateEntry(c)
  <2>1. c.entry \in Row
    BY <1>2 DEF IInv, Shape, UpdateEntry
  <2>2. [c.entry EXCEPT !.updated = c.ts, !.archived = rows[c.id].archived] \in Row
    BY <1>1, <2>1 DEF Row
  <2> QED
    BY <1>2, <2>2, StepWrite DEF UpdateEntry
<1>3. CASE ArchiveEntry(c)
  <2>1. [rows[c.id] EXCEPT !.archived = c.ts] \in Row
    BY <1>1 DEF Row
  <2> QED
    BY <1>3, <2>1, StepWrite, StepNoOp DEF ArchiveEntry
<1>4. CASE UnarchiveEntry(c)
  <2>1. [rows[c.id] EXCEPT !.archived = None] \in Row
    BY <1>1 DEF Row, Stamps
  <2> QED
    BY <1>4, <2>1, StepWrite, StepNoOp DEF UnarchiveEntry
<1> QED
  BY <1>2, <1>3, <1>4

LEMMA StepBegin ==
  ASSUME IInv, NEW by, NEW op, NEW id \in DOMAIN rows, NEW e, Begin(by, op, id, e), op = "update" => e \in Row
  PROVE  IInv'
<1>1. UNCHANGED <<rows, journal, clock>>
      /\ calls' = calls \union {[by |-> by, op |-> op, id |-> id, entry |-> e, ts |-> clock]}
  BY DEF Begin
<1>2. Shape'
  BY <1>1 DEF IInv, Shape
<1> QED
  BY <1>1, <1>2 DEF IInv, RetroHonest, LatestSnapshotIsRow, Newest, ArchivingAlternates, Follows

LEMMA StepKeeps == IInv /\ [Next]_vars => IInv'
<1> SUFFICES ASSUME IInv, [Next]_vars PROVE IInv'
  OBVIOUS
<1>1. CASE Tick \/ UNCHANGED vars
  <2>1. UNCHANGED <<rows, journal, calls>> /\ clock' \in Nat
    BY <1>1 DEF Tick, vars, IInv, Shape
  <2>2. Shape'
    BY <2>1 DEF IInv, Shape
  <2> QED
    BY <2>1, <2>2 DEF IInv, RetroHonest, LatestSnapshotIsRow, Newest, ArchivingAlternates, Follows
<1>2. CASE PostRetroCreate
  BY <1>2, EntryIsRow, StepCreate DEF PostRetroCreate
<1>3. CASE \E by \in 1..MaxCalls : PostRetroEdit(by)
  BY <1>3, EntryIsRow, StepBegin DEF PostRetroEdit
<1>4. CASE \E by \in 1..MaxCalls : PostRetroArchive(by) \/ PostRetroUnarchive(by)
  BY <1>4, StepBegin DEF PostRetroArchive, PostRetroUnarchive
<1>5. CASE \E c \in calls : UpdateEntry(c) \/ ArchiveEntry(c) \/ UnarchiveEntry(c)
  BY <1>5, StepHandler
<1> QED
  BY <1>1, <1>2, <1>3, <1>4, <1>5 DEF Next
-----------------------------------------------------------------------------
(* The theorem. *)

\* retro.py: the newest snapshot of an entry is its row, and an entry is
\* archived only from a snapshot that is not and revived only from one that is,
\* however the handlers interleave.
THEOREM JournalFollowed == Spec => []RetroHonest
<1>1. Init => IInv
  BY DEF Init, IInv, Shape, RetroHonest, LatestSnapshotIsRow, ArchivingAlternates
<1>2. IInv => RetroHonest
  BY DEF IInv
<1> QED
  BY <1>1, <1>2, StepKeeps, PTL DEF Spec
-----------------------------------------------------------------------------
(* Habits and their journal *)

Habit == [title : Words, attrs : H!Attrs, active : BOOLEAN]

\* A handler at work on habits: what it read has the shape its operation reads.
HandlerHonest(call) ==
    /\ "q" \in DOMAIN call /\ "seen" \in DOMAIN call /\ "op" \in DOMAIN call.q
    /\ call.q.op = "update" => /\ call.q.attrs \in H!Attrs \union {None}
                               /\ call.seen \in H!Attrs /\ call.q.title \in Words
    /\ call.q.op = "reactivate" => call.seen \in Words

Tables ==
    /\ \A id \in DOMAIN items : items[id] \in Habit
    /\ \A k \in DOMAIN checks : k = <<k[1], k[2]>> /\ k[2] \in DOMAIN items
    /\ \A call \in taps : HandlerHonest(call)

\* What a restore has to come to.
Rebuilt == [ok |-> TRUE, items |-> items, notes |-> notes,
            checks |-> [k \in DOMAIN checks |-> [status |-> checks[k].status, note |-> checks[k].note]]]

\* r is the restore of journal l, record by record.
Runs(r, l) == r = [n \in 0..Len(l) |-> IF n = 0 THEN H!Nothing ELSE H!Replay(r[n - 1], l[n])]

\* The restore is defined, and every restore ends with the tables.
Replays ==
    /\ log \in Seq({log[i] : i \in DOMAIN log})
    /\ ~missed => /\ \E r : Runs(r, log)
                  /\ \A r : Runs(r, log) => r[Len(log)] = Rebuilt

HInv == Tables /\ Replays

LEMMA Defined == H!Replayed = CHOOSE r : Runs(r, log)
  BY DEF H!Replayed, Runs

LEMMA Ends ==
  ASSUME Replays, ~missed
  PROVE  H!Restored = Rebuilt
<1>1. \E r : Runs(r, log)
  BY DEF Replays
<1>2. Runs(H!Replayed, log)
  BY <1>1, Defined
<1> QED
  BY <1>2 DEF Replays, H!Restored

\* One more record.
LEMMA Grows ==
  ASSUME Replays, NEW e, log' = Append(log, e), ~missed, H!Replay(Rebuilt, e) = Rebuilt'
  PROVE  Replays'
<1>1. PICK n \in Nat : /\ n = Len(log) /\ Len(log') = n + 1 /\ DOMAIN log = 1..n /\ DOMAIN log' = 1..n+1
                       /\ log'[n + 1] = e /\ \A i \in 1..n : log'[i] = log[i]
  BY DEF Replays
<1>2. log' \in Seq({log'[i] : i \in DOMAIN log'})
  BY <1>1 DEF Replays
<1>3. \E r : Runs(r, log')
  <2>1. PICK r : Runs(r, log)
    BY DEF Replays
  <2>2. PICK q : q = [i \in 0..n+1 |-> IF i = n + 1 THEN H!Replay(r[n], e) ELSE r[i]]
    OBVIOUS
  <2>3. r = [i \in 0..n |-> IF i = 0 THEN H!Nothing ELSE H!Replay(r[i - 1], log[i])]
    BY <1>1, <2>1 DEF Runs
  <2>4. ASSUME NEW i \in 0..n+1 PROVE q[i] = IF i = 0 THEN H!Nothing ELSE H!Replay(q[i - 1], log'[i])
    <3>1. CASE i = n + 1
      BY <1>1, <2>2, <3>1
    <3>2. CASE i = 0
      BY <1>1, <2>2, <2>3, <3>2
    <3>3. CASE i \in 1..n
      <4>1. q[i] = r[i] /\ q[i - 1] = r[i - 1] /\ log'[i] = log[i]
        BY <1>1, <2>2, <3>3
      <4>2. r[i] = H!Replay(r[i - 1], log[i])
        BY <2>3, <3>3
      <4> QED
        BY <3>3, <4>1, <4>2
    <3>4. i = 0 \/ i \in 1..n \/ i = n + 1
      OBVIOUS
    <3> QED
      BY <3>1, <3>2, <3>3, <3>4
  <2>5. q = [i \in 0..n+1 |-> IF i = 0 THEN H!Nothing ELSE H!Replay(q[i - 1], log'[i])]
    BY <2>2, <2>4
  <2> QED
    BY <1>1, <2>5 DEF Runs
<1>4. ASSUME NEW r, Runs(r, log') PROVE r[Len(log')] = Rebuilt'
  <2>1. r = [i \in 0..n+1 |-> IF i = 0 THEN H!Nothing ELSE H!Replay(r[i - 1], log'[i])]
    BY <1>1, <1>4 DEF Runs
  <2>2. PICK q : q = [i \in 0..n |-> r[i]]
    OBVIOUS
  <2>3. ASSUME NEW i \in 0..n PROVE q[i] = IF i = 0 THEN H!Nothing ELSE H!Replay(q[i - 1], log[i])
    <3>1. CASE i = 0
      BY <1>1, <2>1, <2>2, <3>1
    <3>2. CASE i \in 1..n
      <4>1. q[i] = r[i] /\ q[i - 1] = r[i - 1] /\ log'[i] = log[i]
        BY <1>1, <2>2, <3>2
      <4>0. i \in 0..n+1 /\ i # 0
        BY <3>2
      <4>2. r[i] = H!Replay(r[i - 1], log'[i])
        BY <2>1, <4>0
      <4> QED
        BY <3>2, <4>1, <4>2
    <3> QED
      BY <3>1, <3>2
  <2>4. q = [i \in 0..n |-> IF i = 0 THEN H!Nothing ELSE H!Replay(q[i - 1], log[i])]
    BY <2>2, <2>3
  <2>5. q[n] = Rebuilt /\ q[n] = r[n]
    BY <1>1, <2>2, <2>4 DEF Replays, Runs
  <2>6. r[n + 1] = H!Replay(r[n], e)
    BY <1>1, <2>1
  <2> QED
    BY <1>1, <2>5, <2>6
<1> QED
  BY <1>2, <1>3, <1>4 DEF Replays

\* A commit, and the record it appends: either it is not the row it had read, or the record replays to the tables.
LEMMA Commits ==
  ASSUME Replays, NEW e, log' = Append(log, e), ~missed' => ~missed /\ H!Replay(Rebuilt, e) = Rebuilt'
  PROVE  Replays'
<1>1. CASE missed'
  BY <1>1 DEF Replays
<1>2. CASE ~missed'
  BY <1>2, Grows
<1> QED
  BY <1>1, <1>2

LEMMA Rests ==
  ASSUME Replays, UNCHANGED <<log, items, checks, notes, missed>>
  PROVE  Replays'
<1>1. Rebuilt' = Rebuilt
  BY DEF Rebuilt
<1> QED
  BY <1>1 DEF Replays, Runs

\* A step that leaves the check-ins alone.
LEMMA Refilled ==
  ASSUME NEW i, NEW n, NEW c, NEW h
  PROVE  /\ [[ok |-> TRUE, items |-> h, notes |-> n, checks |-> c] EXCEPT !.items = i]
              = [ok |-> TRUE, items |-> i, notes |-> n, checks |-> c]
         /\ [[ok |-> TRUE, items |-> i, notes |-> h, checks |-> c] EXCEPT !.notes = n]
              = [ok |-> TRUE, items |-> i, notes |-> n, checks |-> c]
<1> DEFINE F == {"ok", "items", "notes", "checks"}
           a == [[ok |-> TRUE, items |-> h, notes |-> n, checks |-> c] EXCEPT !.items = i]
           b == [[ok |-> TRUE, items |-> i, notes |-> h, checks |-> c] EXCEPT !.notes = n]
           r == [ok |-> TRUE, items |-> i, notes |-> n, checks |-> c]
<1>1. a = [f \in F |-> a[f]] /\ a.ok = TRUE /\ a.items = i /\ a.notes = n /\ a.checks = c
  OBVIOUS
<1>2. b = [f \in F |-> b[f]] /\ b.ok = TRUE /\ b.items = i /\ b.notes = n /\ b.checks = c
  OBVIOUS
<1>3. r = [f \in F |-> r[f]] /\ r.ok = TRUE /\ r.items = i /\ r.notes = n /\ r.checks = c
  OBVIOUS
<1> HIDE DEF a, b, r
<1>4. \A f \in F : a[f] = r[f] /\ b[f] = r[f]
  BY <1>1, <1>2, <1>3
<1>5. a = r
  BY <1>1, <1>3, <1>4
<1>6. b = r
  BY <1>2, <1>3, <1>4
<1> QED
  BY <1>5, <1>6 DEF a, b, r

LEMMA Aside ==
  ASSUME UNCHANGED checks
  PROVE  \E shorn : /\ Rebuilt = [ok |-> TRUE, items |-> items, notes |-> notes, checks |-> shorn]
                    /\ Rebuilt' = [ok |-> TRUE, items |-> items', notes |-> notes', checks |-> shorn]
<1>1. PICK shorn : shorn = [k \in DOMAIN checks |-> [status |-> checks[k].status, note |-> checks[k].note]]
  OBVIOUS
<1>2. Rebuilt = [ok |-> TRUE, items |-> items, notes |-> notes, checks |-> shorn]
  BY <1>1 DEF Rebuilt
<1>3. Rebuilt' = [ok |-> TRUE, items |-> items', notes |-> notes', checks |-> shorn]
  BY <1>1 DEF Rebuilt
<1> QED
  BY <1>2, <1>3

\* A new habit, from the form or the seed.
LEMMA CreateReplays ==
  ASSUME Attributed, Tables, NEW title, NEW attrs \in H!Attrs, NEW told \in {attrs, None}, told = None => attrs = "plain",
         items' = H!Put(items, nextId, [title |-> title, attrs |-> attrs, active |-> TRUE]),
         UNCHANGED <<checks, notes>>
  PROVE  H!Replay(Rebuilt, H!Created(nextId, title, told)) = Rebuilt'
<1> DEFINE e == H!Created(nextId, title, told)
<1>1. H!Kept(e, "plain") = attrs
  BY DEF H!Kept, H!Sparse, H!Created, H!Attrs, Attributed
<1>2. PICK shorn : /\ Rebuilt = [ok |-> TRUE, items |-> items, notes |-> notes, checks |-> shorn]
                   /\ Rebuilt' = [ok |-> TRUE, items |-> items', notes |-> notes, checks |-> shorn]
  BY Aside
<1>3. e.type = "created" /\ e.id = nextId /\ e.title = title
  BY DEF H!Created
<1> DEFINE with == H!Put(items, nextId, [title |-> title, attrs |-> attrs, active |-> TRUE])
<1> HIDE DEF e
<1>4. H!Replay(Rebuilt, e) = [[ok |-> TRUE, items |-> items, notes |-> notes, checks |-> shorn] EXCEPT !.items = with]
  BY <1>1, <1>2, <1>3 DEF H!Replay, H!ReplayRoutine
<1> QED
  BY <1>2, <1>4, Refilled DEF e

LEMMA UpdateReplays ==
  ASSUME Attributed, Tables, NEW call \in taps, H!UpdateItem(call)
  PROVE  \E e : log' = Append(log, e) /\ (~missed' => ~missed /\ H!Replay(Rebuilt, e) = Rebuilt')
<1> DEFINE id == call.q.id
           attrs == IF call.q.attrs = None THEN call.seen ELSE call.q.attrs
           e == H!Updated(id, call.q.title, attrs)
<1>1. log' = Append(log, e)
  BY DEF H!UpdateItem, H!Journal
<1>2. ASSUME ~missed' PROVE ~missed /\ H!Replay(Rebuilt, e) = Rebuilt'
  <2>1. ~missed /\ id \in DOMAIN items
    BY <1>2 DEF H!UpdateItem
  <2>2. attrs \in H!Attrs /\ attrs # None /\ call.q.title \in Words
    BY DEF Tables, HandlerHonest, H!UpdateItem, H!Attrs, Attributed
  <2>3. e.type = "updated" /\ e.id = id /\ e.title = call.q.title /\ e.attrs = attrs
    BY DEF H!Updated
  <2>4. H!Kept(e, items[id].attrs) = attrs /\ ~H!Sparse(e)
    BY <2>2, <2>3 DEF H!Kept, H!Sparse
  <2>5. items' = [items EXCEPT ![id] = [title |-> call.q.title, attrs |-> attrs, active |-> items[id].active]]
    BY <2>1 DEF H!UpdateItem
  <2>6. PICK shorn : /\ Rebuilt = [ok |-> TRUE, items |-> items, notes |-> notes, checks |-> shorn]
                     /\ Rebuilt' = [ok |-> TRUE, items |-> items', notes |-> notes, checks |-> shorn]
    BY Aside DEF H!UpdateItem
  <2>7. items[id].active \in BOOLEAN
    BY <2>1 DEF Tables, Habit
  <2> HIDE DEF e, attrs, id
  <2>8. H!Replay(Rebuilt, e) = Rebuilt'
    BY <2>1, <2>3, <2>4, <2>5, <2>6, <2>7 DEF H!Replay, H!ReplayRoutine
  <2> QED
    BY <2>1, <2>8
<1> QED
  BY <1>1, <1>2

LEMMA DeactivateReplays ==
  ASSUME Tables, NEW call \in taps, H!DeactivateItem(call)
  PROVE  \E e : log' = Append(log, e) /\ (~missed' => ~missed /\ H!Replay(Rebuilt, e) = Rebuilt')
<1> DEFINE e == [type |-> "deactivated", id |-> call.q.id]
<1>1. log' = Append(log, e)
  BY DEF H!DeactivateItem, H!Journal
<1>2. ASSUME ~missed' PROVE ~missed /\ H!Replay(Rebuilt, e) = Rebuilt'
  <2>1. ~missed /\ call.q.id \in DOMAIN items
    BY <1>2 DEF H!DeactivateItem
  <2>2. PICK shorn : /\ Rebuilt = [ok |-> TRUE, items |-> items, notes |-> notes, checks |-> shorn]
                     /\ Rebuilt' = [ok |-> TRUE, items |-> items', notes |-> notes, checks |-> shorn]
    BY Aside DEF H!DeactivateItem
  <2>3. items' = [items EXCEPT ![call.q.id].active = FALSE]
    BY <2>1 DEF H!DeactivateItem, H!SetActive
  <2> QED
    BY <2>1, <2>2, <2>3 DEF H!Replay, H!ReplayRoutine
<1> QED
  BY <1>1, <1>2

LEMMA ReactivateReplays ==
  ASSUME Attributed, Tables, NEW call \in taps, H!ReactivateItem(call)
  PROVE  \E e : log' = Append(log, e) /\ (~missed' => ~missed /\ H!Replay(Rebuilt, e) = Rebuilt')
<1> DEFINE id == call.q.id
           e == H!Updated(id, call.seen, None)
<1>1. log' = Append(log, e)
  BY DEF H!ReactivateItem, H!Journal
<1>2. ASSUME ~missed' PROVE ~missed /\ H!Replay(Rebuilt, e) = Rebuilt'
  <2>1. ~missed /\ id \in DOMAIN items /\ items[id].title = call.seen
    BY <1>2 DEF H!ReactivateItem
  <2>2. e.type = "updated" /\ e.id = id /\ e.title = call.seen /\ e.attrs = None
    BY DEF H!Updated
  <2>3. H!Kept(e, items[id].attrs) = items[id].attrs /\ H!Sparse(e)
    BY <2>2 DEF H!Kept, H!Sparse
  <2>4. items' = [items EXCEPT ![id] = [title |-> call.seen, attrs |-> items[id].attrs, active |-> TRUE]]
    <3> HIDE DEF e, id
    <3>1. items' = [items EXCEPT ![id].active = TRUE]
      BY <2>1 DEF H!ReactivateItem, H!SetActive, id
    <3>2. items[id] \in Habit
      BY <2>1 DEF Tables
    <3>3. ASSUME NEW h \in Habit
          PROVE  [h EXCEPT !.active = TRUE] = [title |-> h.title, attrs |-> h.attrs, active |-> TRUE]
      <4> DEFINE a == [h EXCEPT !.active = TRUE]
                 b == [title |-> h.title, attrs |-> h.attrs, active |-> TRUE]
      <4>1. a = [f \in {"title", "attrs", "active"} |-> a[f]]
            /\ a.title = h.title /\ a.attrs = h.attrs /\ a.active = TRUE
        BY DEF Habit
      <4>2. b = [f \in {"title", "attrs", "active"} |-> b[f]]
            /\ b.title = h.title /\ b.attrs = h.attrs /\ b.active = TRUE
        OBVIOUS
      <4> HIDE DEF a, b
      <4>3. a = b
        BY <4>1, <4>2
      <4> QED
        BY <4>3 DEF a, b
    <3> QED
      BY <2>1, <3>1, <3>2, <3>3
  <2>5. PICK shorn : /\ Rebuilt = [ok |-> TRUE, items |-> items, notes |-> notes, checks |-> shorn]
                     /\ Rebuilt' = [ok |-> TRUE, items |-> items', notes |-> notes, checks |-> shorn]
    BY Aside DEF H!ReactivateItem
  <2> HIDE DEF e, id
  <2>6. H!Replay(Rebuilt, e) = Rebuilt'
    BY <2>1, <2>2, <2>3, <2>4, <2>5 DEF H!Replay, H!ReplayRoutine
  <2> QED
    BY <2>1, <2>6
<1> QED
  BY <1>1, <1>2

LEMMA DeleteReplays ==
  ASSUME Tables, NEW call \in taps, H!DeleteItem(call)
  PROVE  \E e : log' = Append(log, e) /\ (~missed' => ~missed /\ H!Replay(Rebuilt, e) = Rebuilt')
<1> DEFINE e == [type |-> "deleted", id |-> call.q.id]
<1>1. log' = Append(log, e)
  BY DEF H!DeleteItem, H!Journal
<1>2. ASSUME ~missed' PROVE ~missed /\ H!Replay(Rebuilt, e) = Rebuilt'
  <2>1. ~missed /\ call.q.id \in DOMAIN items
    BY <1>2 DEF H!DeleteItem
  <2>2. PICK shorn : shorn = [k \in DOMAIN checks |-> [status |-> checks[k].status, note |-> checks[k].note]]
    OBVIOUS
  <2>3. H!ChecksOf(shorn, call.q.id) = H!ChecksOf(checks, call.q.id)
    BY <2>2 DEF H!ChecksOf
  <2>4. H!Drop(shorn, H!ChecksOf(shorn, call.q.id)) =
          [k \in DOMAIN checks' |-> [status |-> checks'[k].status, note |-> checks'[k].note]]
    BY <2>2, <2>3 DEF H!DeleteItem, H!Drop
  <2>5. Rebuilt = [ok |-> TRUE, items |-> items, notes |-> notes, checks |-> shorn]
    BY <2>2 DEF Rebuilt
  <2>6. Rebuilt' = [ok |-> TRUE, items |-> H!Drop(items, {call.q.id}), notes |-> notes,
                    checks |-> H!Drop(shorn, H!ChecksOf(shorn, call.q.id))]
    BY <2>4 DEF Rebuilt, H!DeleteItem
  <2> QED
    BY <2>1, <2>5, <2>6 DEF H!Replay, H!ReplayRoutine
<1> QED
  BY <1>1, <1>2

LEMMA ClearReplays ==
  ASSUME Tables, NEW call \in taps, H!ClearCheckin(call)
  PROVE  \E e : log' = Append(log, e) /\ (~missed' => ~missed /\ H!Replay(Rebuilt, e) = Rebuilt')
<1> DEFINE key == <<call.q.day, call.q.id>>
           e == [type |-> "cleared", day |-> call.q.day, id |-> call.q.id]
<1>1. log' = Append(log, e)
  BY DEF H!ClearCheckin, H!Journal
<1>2. ASSUME ~missed' PROVE ~missed /\ H!Replay(Rebuilt, e) = Rebuilt'
  <2>1. ~missed /\ H!Own(call)
    BY <1>2 DEF H!ClearCheckin
  <2>2. key \in DOMAIN checks
    BY <2>1 DEF H!Own, H!CheckRow
  <2>3. PICK shorn : shorn = [k \in DOMAIN checks |-> [status |-> checks[k].status, note |-> checks[k].note]]
    OBVIOUS
  <2>4. H!Drop(shorn, {key}) = [k \in DOMAIN checks' |-> [status |-> checks'[k].status, note |-> checks'[k].note]]
    BY <2>1, <2>3 DEF H!ClearCheckin, H!Drop
  <2>5. Rebuilt = [ok |-> TRUE, items |-> items, notes |-> notes, checks |-> shorn]
    BY <2>3 DEF Rebuilt
  <2>6. Rebuilt' = [ok |-> TRUE, items |-> items, notes |-> notes, checks |-> H!Drop(shorn, {key})]
    BY <2>4 DEF Rebuilt, H!ClearCheckin
  <2> QED
    BY <2>1, <2>2, <2>3, <2>5, <2>6 DEF H!Replay, H!ReplayCheckin
<1> QED
  BY <1>1, <1>2

LEMMA UpsertReplays ==
  ASSUME Tables, Replays, NEW call \in taps, H!UpsertCheckin(call)
  PROVE  \/ UNCHANGED <<log, items, checks, notes, missed>>
         \/ \E e : log' = Append(log, e) /\ (~missed' => ~missed /\ H!Replay(Rebuilt, e) = Rebuilt')
<1> DEFINE key == <<call.q.day, call.q.id>>
           given(v, was) == IF v # None THEN v ELSE IF call.seen = None THEN None ELSE was
           status == given(call.q.status, call.seen.status)
           note == given(call.q.note, call.seen.note)
           row == IF call.seen = None THEN Len(log) + 1 ELSE call.seen.row
           fails == (call.seen = None) /\ (key \in DOMAIN checks \/ call.q.id \notin DOMAIN items)
           e == [type |-> "upserted", day |-> call.q.day, id |-> call.q.id, status |-> status, note |-> note]
<1>1. CASE fails
  BY <1>1 DEF H!UpsertCheckin
<1>2. CASE ~fails
  <2>1. /\ checks' = IF call.seen = None \/ H!Own(call)
                     THEN H!Put(checks, key, [status |-> status, note |-> note, row |-> row]) ELSE checks
        /\ log' = Append(log, e)
        /\ missed' = (missed \/ (call.seen # None /\ ~H!Own(call)))
        /\ UNCHANGED <<items, notes>>
    BY <1>2 DEF H!UpsertCheckin, H!Journal
  <2>2. ASSUME ~missed' PROVE ~missed /\ H!Replay(Rebuilt, e) = Rebuilt'
    <3>1. ~missed /\ (call.seen = None \/ H!Own(call))
      BY <2>1, <2>2
    <3>2. call.q.id \in DOMAIN items
      <4>1. CASE call.seen = None
        BY <1>2, <4>1
      <4>2. CASE H!Own(call)
        <5>1. key \in DOMAIN checks
          BY <4>2 DEF H!Own, H!CheckRow
        <5> QED
          BY <5>1 DEF Tables
      <4> QED
        BY <3>1, <4>1, <4>2
    <3> HIDE DEF given, status, note, row, fails
    <3>3. checks' = H!Put(checks, key, [status |-> status, note |-> note, row |-> row])
      BY <2>1, <3>1
    <3>4. PICK shorn : shorn = [k \in DOMAIN checks |-> [status |-> checks[k].status, note |-> checks[k].note]]
      OBVIOUS
    <3>5. H!Put(shorn, key, [status |-> status, note |-> note]) =
            [k \in DOMAIN checks' |-> [status |-> checks'[k].status, note |-> checks'[k].note]]
      BY <3>3, <3>4 DEF H!Put
    <3>6. Rebuilt = [ok |-> TRUE, items |-> items, notes |-> notes, checks |-> shorn]
      BY <3>4 DEF Rebuilt
    <3>7. Rebuilt' = [ok |-> TRUE, items |-> items, notes |-> notes,
                      checks |-> H!Put(shorn, key, [status |-> status, note |-> note])]
      BY <2>1, <3>5 DEF Rebuilt
    <3> QED
      BY <3>1, <3>2, <3>6, <3>7 DEF H!Replay, H!ReplayCheckin
  <2> QED
    BY <2>1, <2>2
<1> QED
  BY <1>1, <1>2

LEMMA NoteReplays ==
  ASSUME Tables, NEW call \in taps, H!UpsertDailyNote(call)
  PROVE  \/ UNCHANGED <<log, items, checks, notes, missed>>
         \/ \E e : log' = Append(log, e) /\ (~missed' => ~missed /\ H!Replay(Rebuilt, e) = Rebuilt')
<1> DEFINE e == [type |-> "noted", day |-> call.q.day, text |-> call.q.text]
<1>1. CASE ~call.seen /\ call.q.day \in DOMAIN notes
  BY <1>1 DEF H!UpsertDailyNote
<1>2. CASE ~(~call.seen /\ call.q.day \in DOMAIN notes)
  <2>1. /\ notes' = H!Put(notes, call.q.day, call.q.text) /\ log' = Append(log, e)
        /\ UNCHANGED <<items, checks, missed>>
    BY <1>2 DEF H!UpsertDailyNote, H!Journal
  <2>2. PICK shorn : /\ Rebuilt = [ok |-> TRUE, items |-> items, notes |-> notes, checks |-> shorn]
                     /\ Rebuilt' = [ok |-> TRUE, items |-> items, notes |-> notes', checks |-> shorn]
    BY <2>1, Aside
  <2>3. H!Replay(Rebuilt, e) = [[ok |-> TRUE, items |-> items, notes |-> notes, checks |-> shorn]
                                    EXCEPT !.notes = H!Put(notes, call.q.day, call.q.text)]
    BY <2>1, <2>2 DEF H!Replay, H!ReplayNote
  <2> QED
    BY <2>1, <2>2, <2>3, Refilled
<1> QED
  BY <1>1, <1>2

LEMMA HabitsStart ==
  ASSUME H!Init
  PROVE  HInv
<1>1. PICK e : e = <<>> /\ DOMAIN e = {} /\ e = [k \in {} |-> k]
  OBVIOUS
<1>2. Tables
  BY DEF H!Init, Tables
<1>3. [k \in DOMAIN checks |-> [status |-> checks[k].status, note |-> checks[k].note]] = <<>>
  BY <1>1 DEF H!Init
<1>4. Rebuilt = H!Nothing
  BY <1>3 DEF H!Init, Rebuilt, H!Nothing
<1>5. Len(log) = 0 /\ log \in Seq({log[i] : i \in DOMAIN log})
  BY DEF H!Init
<1>6. \E r : Runs(r, log)
  <2>1. PICK r : r = [n \in 0..0 |-> H!Nothing]
    OBVIOUS
  <2>2. r = [n \in 0..0 |-> IF n = 0 THEN H!Nothing ELSE H!Replay(r[n - 1], log[n])]
    BY <2>1
  <2> QED
    BY <1>5, <2>2 DEF Runs
<1>7. ASSUME NEW r, Runs(r, log) PROVE r[Len(log)] = Rebuilt
  BY <1>4, <1>5, <1>7 DEF Runs
<1> QED
  BY <1>2, <1>5, <1>6, <1>7 DEF HInv, Replays

LEMMA TablesStep ==
  ASSUME Tables, [H!Next]_(H!vars)
  PROVE  Tables'
<1>1. ASSUME NEW q \in H!HabitEdits \union H!ItemEdits \union H!HabitRetirements \union H!ItemRetirements
                         \union H!Checkins \union H!DailyNotes, H!Begin(q)
      PROVE  Tables'
  <2> DEFINE new == [by |-> H!Min(H!Threads), q |-> q, seen |-> H!Read(q)]
  <2>1. taps' = taps \union {new} /\ UNCHANGED <<items, checks>>
    BY <1>1 DEF H!Begin
  <2>2. HandlerHonest(new)
    <3>1. new.q = q /\ new.seen = H!Read(q) /\ "op" \in DOMAIN q
      BY DEF H!HabitEdits, H!ItemEdits, H!HabitRetirements, H!ItemRetirements, H!Checkins, H!DailyNotes
    <3>2. q.op # "note" => q.id \in DOMAIN items
      BY <1>1 DEF H!Begin
    <3>3. ASSUME q.op = "update" PROVE q.attrs \in H!Attrs \union {None} /\ H!Read(q) \in H!Attrs /\ q.title \in Words
      <4>1. q \in H!HabitEdits \union H!ItemEdits
        BY <3>3 DEF H!HabitRetirements, H!ItemRetirements, H!Checkins, H!DailyNotes
      <4>2. H!Read(q) = items[q.id].attrs
        BY <3>3 DEF H!Read
      <4> QED
        BY <3>2, <3>3, <4>1, <4>2 DEF H!HabitEdits, H!ItemEdits, Tables, Habit
    <3>4. ASSUME q.op = "reactivate" PROVE H!Read(q) \in Words
      <4>1. H!Read(q) = items[q.id].title
        BY <3>4 DEF H!Read
      <4> QED
        BY <3>2, <3>4, <4>1 DEF Tables, Habit
    <3> HIDE DEF new
    <3>5. "q" \in DOMAIN new /\ "seen" \in DOMAIN new
      BY DEF new
    <3> QED
      BY <3>1, <3>3, <3>4, <3>5 DEF HandlerHonest
  <2> QED
    BY <2>1, <2>2 DEF Tables
<1>2. ASSUME NEW call \in taps, H!Decide(call) PROVE Tables'
  <2>1. UNCHANGED <<items, checks>>
    BY <1>2 DEF H!Decide
  <2>2. \A other \in taps' : HandlerHonest(other)
    <3>1. PICK clears, gone, seen :
             taps' = (taps \ {call}) \union
               (IF gone THEN {}
                ELSE {[call EXCEPT !.q = [call.q EXCEPT !.op = IF clears THEN "clear" ELSE "set"], !.seen = seen]})
      <4>1. PICK clears \in BOOLEAN : clears = (call.seen # None /\ call.seen.status = call.q.status)
        OBVIOUS
      <4> DEFINE q == [call.q EXCEPT !.op = IF clears THEN "clear" ELSE "set"]
      <4>2. PICK gone \in BOOLEAN : gone = (q.id \notin DOMAIN items \/ (clears /\ H!CheckRow(q) = None))
        OBVIOUS
      <4>3. taps' = (taps \ {call}) \union (IF gone THEN {} ELSE {[call EXCEPT !.q = q, !.seen = H!CheckRow(q)]})
        BY <1>2, <4>1, <4>2 DEF H!Decide
      <4> QED
        BY <4>3
    <3>2. PICK q : q = [call.q EXCEPT !.op = IF clears THEN "clear" ELSE "set"]
      OBVIOUS
    <3>3. PICK then : then = [call EXCEPT !.q = q, !.seen = seen]
      OBVIOUS
    <3>4. HandlerHonest(call)
      BY DEF Tables
    <3>5. "op" \in DOMAIN q /\ q.op \in {"clear", "set"}
      BY <3>2, <3>4 DEF HandlerHonest
    <3>6. "q" \in DOMAIN then /\ "seen" \in DOMAIN then /\ then.q = q
      BY <3>3, <3>4 DEF HandlerHonest
    <3>7. HandlerHonest(then)
      BY <3>5, <3>6 DEF HandlerHonest
    <3> QED
      BY <3>1, <3>2, <3>3, <3>7 DEF Tables
  <2> QED
    BY <2>1, <2>2 DEF Tables
<1>3. ASSUME NEW title \in Words, NEW attrs \in H!Attrs, H!Create(title, attrs) PROVE Tables'
  BY <1>3 DEF H!Create, H!Put, Tables, Habit, HandlerHonest
<1>4. CASE H!Restart
  <2>1. taps' = {} /\ UNCHANGED checks
    BY <1>4 DEF H!Restart
  <2>2. UNCHANGED items \/ \E title \in Words :
            items' = H!Put(items, nextId, [title |-> title, attrs |-> "plain", active |-> TRUE])
    BY <1>4 DEF H!Restart
  <2>3. CASE UNCHANGED items
    BY <2>1, <2>3 DEF Tables
  <2>4. ASSUME NEW title \in Words, items' = H!Put(items, nextId, [title |-> title, attrs |-> "plain", active |-> TRUE])
        PROVE  Tables'
    BY <2>1, <2>4 DEF H!Put, Tables, Habit, H!Attrs
  <2> QED
    BY <2>2, <2>3, <2>4
<1>5. ASSUME NEW call \in taps, H!Commit(call) PROVE Tables'
  <2>1. taps' = taps \ {call}
    BY <1>5 DEF H!Commit
  <2>2. CASE H!UpdateItem(call)
    <3>1. HandlerHonest(call)
      BY DEF Tables
    <3>2. (IF call.q.attrs = None THEN call.seen ELSE call.q.attrs) \in H!Attrs /\ call.q.title \in Words
      BY <2>2, <3>1 DEF H!UpdateItem, HandlerHonest
    <3>3. \A id \in DOMAIN items' : id \in DOMAIN items /\ items'[id] \in Habit
      BY <2>2, <3>2 DEF H!UpdateItem, Tables, Habit
    <3>4. DOMAIN items' = DOMAIN items /\ UNCHANGED checks
      BY <2>2 DEF H!UpdateItem
    <3> QED
      BY <2>1, <3>3, <3>4 DEF Tables, HandlerHonest
  <2>3. ASSUME NEW on \in BOOLEAN, H!SetActive(call.q.id, on), UNCHANGED checks PROVE Tables'
    <3>1. \A id \in DOMAIN items' : items'[id] \in Habit
      BY <2>3 DEF H!SetActive, Tables, Habit
    <3>2. DOMAIN items' = DOMAIN items
      BY <2>3 DEF H!SetActive
    <3> QED
      BY <2>1, <2>3, <3>1, <3>2 DEF Tables, HandlerHonest
  <2>4. CASE H!DeactivateItem(call) \/ H!ReactivateItem(call)
    BY <2>3, <2>4 DEF H!DeactivateItem, H!ReactivateItem
  <2>5. CASE H!DeleteItem(call)
    BY <2>1, <2>5 DEF H!DeleteItem, H!Drop, H!ChecksOf, Tables, HandlerHonest
  <2>6. CASE H!UpsertCheckin(call)
    <3>1. UNCHANGED items
      BY <2>6 DEF H!UpsertCheckin
    <3>2. ASSUME NEW k, k \in DOMAIN checks' PROVE k \in DOMAIN checks \/ (k = <<k[1], k[2]>> /\ k[2] \in DOMAIN items)
      <4>1. CASE UNCHANGED checks
        BY <3>2, <4>1
      <4>2. CASE ~UNCHANGED checks
        <5>1. PICK v : checks' = H!Put(checks, <<call.q.day, call.q.id>>, v)
          BY <2>6, <4>2 DEF H!UpsertCheckin
        <5>2. CASE call.seen = None
          <6>1. call.q.id \in DOMAIN items
            BY <2>6, <4>2, <5>2 DEF H!UpsertCheckin
          <6> QED
            BY <3>2, <5>1, <6>1 DEF H!Put
        <5>3. CASE H!Own(call)
          <6>1. <<call.q.day, call.q.id>> \in DOMAIN checks
            BY <5>3 DEF H!Own, H!CheckRow
          <6> QED
            BY <3>2, <5>1, <6>1 DEF H!Put
        <5> QED
          BY <2>6, <4>2, <5>2, <5>3 DEF H!UpsertCheckin
      <4> QED
        BY <4>1, <4>2
    <3> QED
      BY <2>1, <3>1, <3>2 DEF Tables, HandlerHonest
  <2>7. CASE H!ClearCheckin(call)
    BY <2>1, <2>7 DEF H!ClearCheckin, H!Drop, Tables, HandlerHonest
  <2>8. CASE H!UpsertDailyNote(call)
    BY <2>1, <2>8 DEF H!UpsertDailyNote, Tables, HandlerHonest
  <2> QED
    BY <1>5, <2>2, <2>4, <2>5, <2>6, <2>7, <2>8 DEF H!Commit
<1>6. CASE UNCHANGED H!vars
  BY <1>6 DEF H!vars, Tables, HandlerHonest
<1> QED
  BY <1>1, <1>2, <1>3, <1>4, <1>5, <1>6 DEF H!Next, H!PostHabitCreate, H!PostItemCreate, H!Attrs

LEMMA ReplaysStep ==
  ASSUME Attributed, Tables, Replays, [H!Next]_(H!vars)
  PROVE  Replays'
<1>1. ASSUME NEW title, NEW attrs \in H!Attrs, H!Create(title, attrs) PROVE Replays'
  <2>1. H!Replay(Rebuilt, H!Created(nextId, title, attrs)) = Rebuilt'
    BY <1>1, CreateReplays, attrs # None DEF H!Create, H!Attrs, Attributed
  <2> QED
    BY <1>1, <2>1, Commits DEF H!Create, H!Journal
<1>2. CASE H!Restart
  <2>1. CASE UNCHANGED <<items, log>>
    BY <1>2, <2>1, Rests DEF H!Restart
  <2>2. ASSUME NEW title, items' = H!Put(items, nextId, [title |-> title, attrs |-> "plain", active |-> TRUE]),
               H!Journal(H!Created(nextId, title, None))
        PROVE  Replays'
    <3>1. H!Replay(Rebuilt, H!Created(nextId, title, None)) = Rebuilt'
      BY <1>2, <2>2, CreateReplays DEF H!Restart, H!Attrs
    <3> QED
      BY <1>2, <2>2, <3>1, Commits DEF H!Restart, H!Journal
  <2> QED
    BY <1>2, <2>1, <2>2 DEF H!Restart
<1>3. ASSUME NEW call \in taps, H!Commit(call) PROVE Replays'
  BY <1>3, Commits, Rests, UpdateReplays, DeactivateReplays, ReactivateReplays, DeleteReplays,
     UpsertReplays, ClearReplays, NoteReplays DEF H!Commit
<1>4. CASE UNCHANGED <<log, items, checks, notes, missed>>
  BY <1>4, Rests
<1> QED
  BY <1>1, <1>2, <1>3, <1>4 DEF H!Next, H!PostHabitCreate, H!PostItemCreate, H!Begin, H!Decide, H!vars, H!Attrs

LEMMA FromJournal ==
  ASSUME HInv
  PROVE  H!LedgerReplays
<1> SUFFICES ASSUME ~missed
             PROVE  H!Restored = [ok |-> TRUE, items |-> items, notes |-> notes,
                                  checks |-> [k \in DOMAIN checks |-> [status |-> checks[k].status, note |-> checks[k].note]]]
  BY DEF H!LedgerReplays
<1>1. H!Restored = Rebuilt
  BY Ends DEF HInv
<1> QED
  BY <1>1 DEF Rebuilt

\* The steps of the planner that are steps of its habits.
LEMMA HabitsMove ==
  ASSUME [PlannerNext]_<<scene, ledger, board, calendar, vars, schema, views, pages>>
  PROVE  [H!Next]_(H!vars)
  BY DEF PlannerNext, ledger, H!vars

\* verify_restore.py, journal.py: whatever habits, check-ins, renames and notes
\* came before, the exported journal replays, record by record, to the tables
\* it came from, so a restore of it loses nothing and invents nothing.
THEOREM ExportReplays == PlannerSpec => []LedgerReplays
<1>0. Attributed
  BY PlannerConstants
<1> USE <1>0
<1>1. PlannerInit => HInv
  BY HabitsStart DEF PlannerInit
<1>2. HInv /\ [PlannerNext]_<<scene, ledger, board, calendar, vars, schema, views, pages>> => HInv'
  BY HabitsMove, TablesStep, ReplaysStep DEF HInv
<1>3. HInv => LedgerReplays
  BY FromJournal DEF LedgerReplays
<1> QED
  BY <1>1, <1>2, <1>3, PTL DEF PlannerSpec
-----------------------------------------------------------------------------
(* Arithmetic of the calendar *)

LEMMA Scaled ==
  ASSUME NEW a \in Int, NEW b \in Int, NEW w \in Nat \ {0}, a < b
  PROVE  w * a + w <= w * b
<1>1. b - a - 1 \in Nat
  OBVIOUS
<1>2. w * (b - a - 1) >= 0
  BY <1>1
<1>3. w * (b - a - 1) = w * b - w * a - w
  OBVIOUS
<1> QED
  BY <1>2, <1>3

LEMMA Divides ==
  ASSUME NEW n \in Int, NEW w \in Nat \ {0}
  PROVE  /\ n = w * (n \div w) + (n % w) /\ n \div w \in Int /\ n % w \in 0..(w - 1)
  OBVIOUS

LEMMA Unique ==
  ASSUME NEW a \in Int, NEW b \in Int, NEW w \in Nat \ {0}, NEW i \in 0..(w - 1), NEW j \in 0..(w - 1),
         w * a + i = w * b + j
  PROVE  a = b /\ i = j
<1>1. CASE a < b
  BY <1>1, Scaled
<1>2. CASE b < a
  BY <1>2, Scaled
<1>3. CASE a = b
  BY <1>3
<1> QED
  BY <1>1, <1>2, <1>3

\* What is a multiple is one by a factor no greater than itself.
LEMMA Multiple ==
  ASSUME NEW n \in Nat, NEW w \in Nat \ {0}
  PROVE  n % w = 0 <=> \E k \in 0..n : n = k * w
<1>1. ASSUME n % w = 0 PROVE \E k \in 0..n : n = k * w
  <2>1. n = w * (n \div w) /\ n \div w \in Int
    BY <1>1, Divides
  <2>2. n \div w \in Nat /\ n \div w <= n
    <3>1. PICK k \in Int : k = n \div w /\ n = w * k
      BY <2>1
    <3>2. k >= 0
      <4>1. CASE k < 0
        <5>1. w * k + w <= w * 0
          BY <4>1, Scaled
        <5> QED
          BY <3>1, <5>1
      <4> QED
        BY <4>1
    <3>3. w * k >= k
      <4>1. (w - 1) * k >= 0
        BY <3>2
      <4> QED
        BY <4>1
    <3> QED
      BY <3>1, <3>2, <3>3
  <2>3. PICK k \in 0..n : k = n \div w /\ n = w * k
    BY <2>1, <2>2
  <2> QED
    BY <2>3
<1>2. ASSUME NEW k \in 0..n, n = k * w PROVE n % w = 0
  <2>1. PICK q \in Int, r \in 0..(w - 1) : r = n % w /\ n = w * q + r
    <3>1. n \in Int
      OBVIOUS
    <3> HIDE <1>2
    <3> QED
      BY <3>1, Divides
  <2>2. w * q + r = w * k + 0 /\ k \in Int /\ 0 \in 0..(w - 1)
    BY <1>2, <2>1
  <2>3. r = 0
    BY <2>2, Unique
  <2> QED
    BY <2>1, <2>3
<1> QED
  BY <1>1, <1>2

\* A day is so many weeks and a weekday after day 0.
LEMMA Weeks ==
  ASSUME Calendrical, NEW d \in Nat
  PROVE  \E p \in Int : /\ C!Weekday(d) \in 0..(Week - 1) /\ C!Monday(d) = Week * p
                        /\ d = Week * p + C!Weekday(d)
<1>1. Week \in Nat \ {0} /\ d \in Int
  BY DEF Calendrical
<1>2. PICK p \in Int : p = d \div Week /\ d = Week * p + (d % Week) /\ d % Week \in 0..(Week - 1)
  BY <1>1, Divides
<1>3. C!Weekday(d) = d % Week
  BY DEF C!Weekday
<1>4. C!Monday(d) = Week * p
  BY <1>1, <1>2, <1>3 DEF C!Monday
<1> QED
  BY <1>2, <1>3, <1>4

\* Whole weeks between two Mondays.
LEMMA WeeksBetween ==
  ASSUME Calendrical, NEW p \in Int, NEW q \in Int
  PROVE  (Week * p - Week * q) \div Week = p - q
<1>1. Week \in Nat \ {0} /\ p - q \in Int
  BY DEF Calendrical
<1>2. PICK n \in Int : n = Week * p - Week * q /\ n = Week * (p - q)
  BY <1>1
<1>3. PICK k \in Int, r \in 0..(Week - 1) : k = n \div Week /\ n = Week * k + r
  BY <1>1, Divides
<1>4. Week * k + r = Week * (p - q) + 0 /\ 0 \in 0..(Week - 1)
  BY <1>1, <1>2, <1>3
<1>5. k = p - q
  BY <1>1, <1>4, Unique
<1> QED
  BY <1>2, <1>3, <1>5

\* A rule in force.
Ruled(r) ==
    /\ r.freq \in {"once", "daily", "weekly"} /\ r.start \in 0..LastDay
    /\ r.end \in (0..LastDay) \union {None} /\ r.every \in Intervals /\ r.mask \subseteq 0..(Week - 1)

\* The engine's test of a day is that the rule names it.
LEMMA TestIsNamed ==
  ASSUME Calendrical, NEW r, Ruled(r), NEW d \in 0..LastDay, d >= r.start
  PROVE  d \in C!Named(r) <=>
           CASE r.freq = "once" -> d = r.start
             [] r.freq = "daily" -> (d - r.start) % r.every = 0
             [] r.freq = "weekly" -> /\ C!Weekday(d) \in r.mask
                                     /\ ((C!Monday(d) - C!Monday(r.start)) \div Week) % r.every = 0
<1> PICK s \in Nat : s = r.start /\ s <= LastDay /\ s <= d
  BY DEF Ruled, Calendrical
<1> PICK e \in Nat \ {0} : e = r.every
  BY DEF Ruled, Calendrical
<1>0. LastDay \in Nat /\ Week \in Nat \ {0} /\ d \in Nat
  BY DEF Calendrical
<1>1. CASE r.freq = "once"
  BY <1>1 DEF C!Named
<1>2. CASE r.freq = "daily"
  <2>1. d \in C!Named(r) <=> \E k \in 0..LastDay : d = s + k * e
    BY <1>2 DEF C!Named
  <2>2. PICK n \in Nat : n = d - s /\ n <= LastDay
    BY <1>0
  <2>3. n % e = 0 <=> \E k \in 0..n : n = k * e
    BY Multiple
  <2>4. ASSUME NEW k \in 0..LastDay, d = s + k * e PROVE k \in 0..n /\ n = k * e
    <3>1. n = k * e
      BY <1>0, <2>2, <2>4
    <3>2. k * (e - 1) >= 0
      OBVIOUS
    <3>3. k <= k * e
      BY <3>2
    <3> QED
      BY <3>1, <3>3
  <2>5. ASSUME NEW k \in 0..n, n = k * e PROVE k \in 0..LastDay /\ d = s + k * e
    BY <1>0, <2>2, <2>5
  <2>6. d \in C!Named(r) <=> n % e = 0
    BY <2>1, <2>3, <2>4, <2>5
  <2> QED
    BY <1>2, <2>2, <2>6
<1>3. CASE r.freq = "weekly"
  <2>1. PICK p \in Int, i \in 0..(Week - 1) : C!Weekday(d) = i /\ C!Monday(d) = Week * p /\ d = Week * p + i
    BY <1>0, Weeks
  <2>2. PICK q \in Int, j \in 0..(Week - 1) : C!Weekday(s) = j /\ C!Monday(s) = Week * q /\ s = Week * q + j
    BY <1>0, Weeks
  <2>3. d \in C!Named(r) <=> \E k \in 0..LastDay, w \in r.mask : d = Week * q + k * e * Week + w
    BY <1>3, <2>2 DEF C!Named
  <2>4. (C!Monday(d) - C!Monday(s)) \div Week = p - q
    BY <2>1, <2>2, WeeksBetween
  <2>5. p - q \in Nat /\ p - q <= LastDay
    <3>1. p >= q
      <4>1. CASE p < q
        <5>1. Week * p + Week <= Week * q
          BY <1>0, <4>1, Scaled
        <5> QED
          BY <1>0, <2>1, <2>2, <5>1
      <4> QED
        BY <4>1
    <3>2. p >= 0
      <4>1. CASE p < 0
        <5>1. Week * p + Week <= Week * 0
          BY <1>0, <4>1, Scaled
        <5> QED
          BY <1>0, <2>1, <5>1
      <4> QED
        BY <4>1
    <3>3. q >= 0
      <4>1. CASE q < 0
        <5>1. Week * q + Week <= Week * 0
          BY <1>0, <4>1, Scaled
        <5> QED
          BY <1>0, <2>2, <5>1
      <4> QED
        BY <4>1
    <3>4. p <= Week * p
      <4>1. (Week - 1) * p >= 0
        BY <1>0, <3>2
      <4> QED
        BY <1>0, <4>1
    <3> QED
      BY <1>0, <2>1, <3>1, <3>3, <3>4
  <2>6. PICK n \in Nat : n = p - q /\ n <= LastDay
    BY <2>5
  <2>7. n % e = 0 <=> \E k \in 0..n : n = k * e
    BY Multiple
  <2>8. ASSUME NEW k \in 0..LastDay, NEW w \in r.mask, d = Week * q + k * e * Week + w
        PROVE  w = i /\ k \in 0..n /\ n = k * e
    <3>1. w \in 0..(Week - 1)
      BY DEF Ruled
    <3>2. PICK m \in Int : m = q + k * e
      OBVIOUS
    <3>3. Week * m = Week * q + k * e * Week
      BY <1>0, <3>2
    <3>4. Week * p + i = Week * m + w
      BY <2>1, <2>8, <3>3
    <3>5. p = m /\ i = w
      BY <1>0, <3>1, <3>4, Unique
    <3>6. n = k * e
      BY <2>6, <3>2, <3>5
    <3>7. k * (e - 1) >= 0
      OBVIOUS
    <3>8. k <= k * e
      BY <3>7
    <3> QED
      BY <3>5, <3>6, <3>8
  <2>9. ASSUME NEW k \in 0..n, n = k * e, i \in r.mask
        PROVE  k \in 0..LastDay /\ d = Week * q + k * e * Week + i
    <3>1. Week * p = Week * q + Week * n
      BY <1>0, <2>6
    <3>2. Week * n = k * e * Week
      BY <1>0, <2>9
    <3> QED
      BY <1>0, <2>1, <2>6, <3>1, <3>2
  <2>10. d \in C!Named(r) <=> i \in r.mask /\ n % e = 0
    BY <2>3, <2>7, <2>8, <2>9
  <2> QED
    BY <1>3, <2>1, <2>4, <2>6, <2>10
<1> QED
  BY <1>1, <1>2, <1>3 DEF Ruled

Planned == [freq : {"once", "daily", "weekly"}, start : 0..LastDay, end : (0..LastDay) \union {None},
            every : Intervals, mask : SUBSET (0..(Week - 1)), exdates : SUBSET Int, archived : BOOLEAN]

\* Every row is under a rule, and the exdates are the days the journal says are skipped.
CInv ==
    /\ series \in Seq(Planned)
    /\ \A call \in skips : call.id \in DOMAIN series /\ call.day \in 0..LastDay /\ call.row \in Planned
    /\ \A o \in skipped : o[1] \in DOMAIN series
    /\ ~clobbered => \A id \in DOMAIN series, d \in 0..LastDay : <<id, d>> \in skipped <=> d \in series[id].exdates

\* The engine's answer for a day, in terms of the days named.
LEMMA OccursIsNamed ==
  ASSUME Calendrical, NEW r \in Planned, NEW d \in 0..LastDay
  PROVE  C!Occurs(r, d) <=> /\ d \in C!Named(r) /\ d >= r.start /\ (r.end # None => d <= r.end)
                            /\ d \notin r.exdates
<1>1. Ruled(r)
  BY DEF Ruled, Planned
<1>2. CASE d >= r.start
  <2>1. d \in C!Named(r) <=>
           CASE r.freq = "once" -> d = r.start
             [] r.freq = "daily" -> (d - r.start) % r.every = 0
             [] r.freq = "weekly" -> /\ C!Weekday(d) \in r.mask
                                     /\ ((C!Monday(d) - C!Monday(r.start)) \div Week) % r.every = 0
    BY <1>1, <1>2, TestIsNamed
  <2> QED
    BY <1>2, <2>1 DEF C!Occurs
<1>3. CASE ~(d >= r.start)
  BY <1>3 DEF C!Occurs
<1> QED
  BY <1>2, <1>3

LEMMA WindowHonest ==
  ASSUME Calendrical, CInv
  PROVE  C!SeriesHonest
<1> SUFFICES ASSUME ~clobbered, NEW from \in C!Days, NEW to \in from..LastDay
             PROVE  C!Window(from, to) =
                        {o \in (DOMAIN series) \X (from..to) :
                            /\ ~series[o[1]].archived /\ o[2] \in C!Named(series[o[1]])
                            /\ o[2] >= series[o[1]].start
                            /\ (series[o[1]].end # None => o[2] <= series[o[1]].end)
                            /\ o \notin skipped}
  BY DEF C!SeriesHonest
<1> DEFINE rows0 == {id \in DOMAIN series : /\ ~series[id].archived /\ series[id].start <= to
                                            /\ series[id].end # None => series[id].end >= from}
<1>1. \A o : o \in C!Window(from, to) <=> o \in rows0 \X (from..to) /\ C!Occurs(series[o[1]], o[2])
  BY DEF C!Window
<1>2. from \in Nat /\ to \in Nat /\ LastDay \in Nat /\ from <= to /\ to <= LastDay
  BY DEF C!Days, Calendrical
<1>3. ASSUME NEW id \in DOMAIN series, NEW d \in from..to
      PROVE  /\ series[id] \in Planned /\ d \in 0..LastDay
             /\ C!Occurs(series[id], d) <=> /\ d \in C!Named(series[id]) /\ d >= series[id].start
                                            /\ (series[id].end # None => d <= series[id].end)
                                            /\ <<id, d>> \notin skipped
  <2>1. series[id] \in Planned /\ d \in 0..LastDay
    BY <1>2 DEF CInv
  <2> QED
    BY <2>1, OccursIsNamed DEF CInv
<1>4. ASSUME NEW id \in DOMAIN series, NEW d \in from..to, ~series[id].archived,
             d >= series[id].start, series[id].end # None => d <= series[id].end
      PROVE  id \in rows0
  <2>1. series[id] \in Planned
    BY <1>3
  <2>2. series[id].start \in Int /\ (series[id].end # None => series[id].end \in Int)
    BY <2>1 DEF Planned
  <2> QED
    BY <1>2, <1>4, <2>2
<1> HIDE DEF rows0
<1>5. ASSUME NEW o
      PROVE  o \in C!Window(from, to) <=>
               /\ o \in (DOMAIN series) \X (from..to) /\ ~series[o[1]].archived
               /\ o[2] \in C!Named(series[o[1]]) /\ o[2] >= series[o[1]].start
               /\ (series[o[1]].end # None => o[2] <= series[o[1]].end) /\ o \notin skipped
  <2>1. ASSUME o \in C!Window(from, to)
        PROVE  /\ o \in (DOMAIN series) \X (from..to) /\ ~series[o[1]].archived
               /\ o[2] \in C!Named(series[o[1]]) /\ o[2] >= series[o[1]].start
               /\ (series[o[1]].end # None => o[2] <= series[o[1]].end) /\ o \notin skipped
    <3>1. o \in rows0 \X (from..to) /\ C!Occurs(series[o[1]], o[2])
      BY <1>1, <2>1
    <3>2. o = <<o[1], o[2]>> /\ o[1] \in rows0 /\ o[2] \in from..to
      BY <3>1
    <3>3. o[1] \in DOMAIN series /\ ~series[o[1]].archived
      BY <3>2 DEF rows0
    <3> QED
      BY <1>3, <3>1, <3>2, <3>3
  <2>2. ASSUME o \in (DOMAIN series) \X (from..to), ~series[o[1]].archived,
               o[2] \in C!Named(series[o[1]]), o[2] >= series[o[1]].start,
               series[o[1]].end # None => o[2] <= series[o[1]].end, o \notin skipped
        PROVE  o \in C!Window(from, to)
    <3>1. o = <<o[1], o[2]>> /\ o[1] \in DOMAIN series /\ o[2] \in from..to
      BY <2>2
    <3>2. o[1] \in rows0
      BY <1>4, <2>2, <3>1
    <3>3. C!Occurs(series[o[1]], o[2])
      BY <1>3, <2>2, <3>1
    <3> QED
      BY <1>1, <3>1, <3>2, <3>3
  <2> QED
    BY <2>1, <2>2
<1> QED
  BY <1>1, <1>5

LEMMA CalendarStep ==
  ASSUME Calendrical, CInv, [C!Next]_(C!vars)
  PROVE  CInv'
<1>1. ASSUME NEW op, NEW id \in DOMAIN series, NEW d \in C!Days, C!Start(op, id, d) PROVE CInv'
  <2>1. series[id] \in Planned
    BY DEF CInv
  <2>2. PICK new : new.id = id /\ new.day = d /\ new.row = series[id] /\ skips' = skips \union {new}
    BY <1>1 DEF C!Start, C!Read
  <2>3. UNCHANGED <<series, skipped, clobbered>>
    BY <1>1 DEF C!Start
  <2> QED
    BY <2>1, <2>2, <2>3 DEF CInv, C!Days
<1>2. ASSUME NEW r \in C!Rules, C!CreateEvent(r) PROVE CInv'
  <2>1. PICK row : row = C!Row(r, {}, FALSE)
    OBVIOUS
  <2>2. row \in Planned /\ row.exdates = {}
    BY <2>1 DEF C!Row, C!Rules, C!Days, Planned
  <2>3. series' = Append(series, row) /\ UNCHANGED <<skips, skipped, clobbered>>
    BY <1>2, <2>1 DEF C!CreateEvent
  <2>4. /\ series' \in Seq(Planned) /\ DOMAIN series' = DOMAIN series \union {Len(series) + 1}
        /\ \A i \in DOMAIN series : series'[i] = series[i]
        /\ series'[Len(series) + 1] = row /\ Len(series) + 1 \notin DOMAIN series
    BY <2>2, <2>3 DEF CInv
  <2>5. ASSUME ~clobbered, NEW id \in DOMAIN series', NEW d \in 0..LastDay
        PROVE  <<id, d>> \in skipped <=> d \in series'[id].exdates
    BY <2>2, <2>4, <2>5 DEF CInv
  <2> QED
    BY <2>3, <2>4, <2>5 DEF CInv
\* A row replaced by one with the same exdates.
<1>3. ASSUME NEW id \in DOMAIN series, NEW row \in Planned, row.exdates = series[id].exdates,
             series' = [series EXCEPT ![id] = row], UNCHANGED <<skipped, clobbered>>, skips' \subseteq skips
      PROVE  CInv'
  <2>1. series' \in Seq(Planned) /\ DOMAIN series' = DOMAIN series
    BY <1>3 DEF CInv
  <2>2. \A i \in DOMAIN series : series'[i].exdates = series[i].exdates
    BY <1>3 DEF CInv
  <2> QED
    BY <1>3, <2>1, <2>2 DEF CInv
<1>4. ASSUME NEW id \in DOMAIN series, NEW r \in C!Rules, C!UpdateEvent(id, r) PROVE CInv'
  <2>1. PICK row : row = C!Row(r, series[id].exdates, series[id].archived)
    OBVIOUS
  <2>2. series[id] \in Planned
    BY DEF CInv
  <2>3. row \in Planned /\ row.exdates = series[id].exdates
    BY <2>1, <2>2 DEF C!Row, C!Rules, C!Days, Planned
  <2>4. series' = [series EXCEPT ![id] = row] /\ UNCHANGED <<skips, skipped, clobbered>>
    BY <1>4, <2>1 DEF C!UpdateEvent
  <2> QED
    BY <1>3, <2>3, <2>4
<1>5. ASSUME NEW id \in DOMAIN series, C!ArchiveEvent(id) PROVE CInv'
  <2>1. PICK row : row = [series[id] EXCEPT !.archived = TRUE]
    OBVIOUS
  <2>2. series[id] \in Planned
    BY DEF CInv
  <2>3. row \in Planned /\ row.exdates = series[id].exdates
    BY <2>1, <2>2 DEF Planned
  <2>4. series' = [series EXCEPT ![id] = row] /\ UNCHANGED <<skips, skipped, clobbered>>
    BY <1>5, <2>1 DEF C!ArchiveEvent
  <2> QED
    BY <1>3, <2>3, <2>4
<1>6. ASSUME NEW call \in skips, C!MoveEvent(call), skips' = skips \ {call} PROVE CInv'
  <2>1. call.id \in DOMAIN series /\ call.row \in Planned /\ call.day \in 0..LastDay /\ series[call.id] \in Planned
    BY DEF CInv
  <2>2. CASE UNCHANGED series
    BY <1>6, <2>2 DEF CInv, C!MoveEvent
  <2>3. CASE ~UNCHANGED series
    <3>1. PICK r : r = [call.row EXCEPT !.start = call.day]
      OBVIOUS
    <3>2. PICK row : row = C!Row(r, series[call.id].exdates, series[call.id].archived)
      OBVIOUS
    <3>3. row \in Planned /\ row.exdates = series[call.id].exdates
      <4>1. r \in Planned
        BY <2>1, <3>1 DEF Planned
      <4> QED
        BY <2>1, <3>2, <4>1 DEF C!Row, Planned
    <3>4. series' = [series EXCEPT ![call.id] = row] /\ UNCHANGED <<skipped, clobbered>>
      BY <1>6, <2>3, <3>1, <3>2 DEF C!MoveEvent
    <3> QED
      BY <1>3, <1>6, <2>1, <3>3, <3>4
  <2> QED
    BY <2>2, <2>3
\* What a skip and a restore write.
<1>7. ASSUME NEW call \in skips, NEW ex \in SUBSET Int, C!WriteExdates(call, ex), skips' = skips \ {call}
      PROVE  /\ series' \in Seq(Planned) /\ DOMAIN series' = DOMAIN series
             /\ \A i \in DOMAIN series \ {call.id} : series'[i].exdates = series[i].exdates
             /\ series'[call.id].exdates = ex
             /\ ~clobbered' => ~clobbered /\ series[call.id].exdates = call.row.exdates
             /\ call.id \in DOMAIN series /\ call.day \in 0..LastDay /\ call.row.exdates \subseteq Int
             /\ \A other \in skips' : other.id \in DOMAIN series /\ other.day \in 0..LastDay /\ other.row \in Planned
  <2>1. call.id \in DOMAIN series /\ call.row \in Planned /\ call.day \in 0..LastDay /\ series[call.id] \in Planned
    BY DEF CInv
  <2>2. PICK row : row = [series[call.id] EXCEPT !.exdates = ex]
    OBVIOUS
  <2>3. row \in Planned /\ row.exdates = ex
    BY <2>1, <2>2 DEF Planned
  <2>4. series' = [series EXCEPT ![call.id] = row]
    BY <1>7, <2>2 DEF C!WriteExdates
  <2>5. series' \in Seq(Planned) /\ DOMAIN series' = DOMAIN series
    BY <2>1, <2>3, <2>4 DEF CInv
  <2>6. series'[call.id] = row /\ \A i \in DOMAIN series \ {call.id} : series'[i] = series[i]
    BY <2>1, <2>4 DEF CInv
  <2>7. ~clobbered' => ~clobbered /\ series[call.id].exdates = call.row.exdates
    BY <1>7 DEF C!WriteExdates
  <2>8. call.row.exdates \subseteq Int
    BY <2>1 DEF Planned
  <2> QED
    BY <1>7, <2>1, <2>3, <2>5, <2>6, <2>7, <2>8 DEF CInv
<1>8. ASSUME NEW call \in skips, C!SkipOccurrence(call), skips' = skips \ {call} PROVE CInv'
  <2> DEFINE ex == call.row.exdates \union {call.day}
  <2>1. C!WriteExdates(call, ex) /\ skipped' = skipped \union {<<call.id, call.day>>}
    BY <1>8 DEF C!SkipOccurrence
  <2>2. ex \in SUBSET Int
    BY DEF CInv, Planned
  <2> HIDE DEF ex
  <2>3. /\ series' \in Seq(Planned) /\ DOMAIN series' = DOMAIN series
        /\ \A i \in DOMAIN series \ {call.id} : series'[i].exdates = series[i].exdates
        /\ series'[call.id].exdates = ex
        /\ ~clobbered' => ~clobbered /\ series[call.id].exdates = call.row.exdates
        /\ call.id \in DOMAIN series /\ call.day \in 0..LastDay /\ call.row.exdates \subseteq Int
        /\ \A other \in skips' : other.id \in DOMAIN series /\ other.day \in 0..LastDay /\ other.row \in Planned
    BY <1>7, <1>8, <2>1, <2>2
  <2>4. ASSUME ~clobbered', NEW id \in DOMAIN series, NEW d \in 0..LastDay
        PROVE  <<id, d>> \in skipped' <=> d \in series'[id].exdates
    BY <2>1, <2>3, <2>4 DEF CInv, ex
  <2> QED
    BY <2>1, <2>3, <2>4 DEF CInv
<1>9. ASSUME NEW call \in skips, C!UnskipOccurrence(call), skips' = skips \ {call} PROVE CInv'
  <2> DEFINE ex == call.row.exdates \ {call.day}
  <2>1. C!WriteExdates(call, ex) /\ skipped' = skipped \ {<<call.id, call.day>>}
    BY <1>9 DEF C!UnskipOccurrence
  <2>2. ex \in SUBSET Int
    BY DEF CInv, Planned
  <2> HIDE DEF ex
  <2>3. /\ series' \in Seq(Planned) /\ DOMAIN series' = DOMAIN series
        /\ \A i \in DOMAIN series \ {call.id} : series'[i].exdates = series[i].exdates
        /\ series'[call.id].exdates = ex
        /\ ~clobbered' => ~clobbered /\ series[call.id].exdates = call.row.exdates
        /\ call.id \in DOMAIN series /\ call.day \in 0..LastDay /\ call.row.exdates \subseteq Int
        /\ \A other \in skips' : other.id \in DOMAIN series /\ other.day \in 0..LastDay /\ other.row \in Planned
    BY <1>7, <1>9, <2>1, <2>2
  <2>4. ASSUME ~clobbered', NEW id \in DOMAIN series, NEW d \in 0..LastDay
        PROVE  <<id, d>> \in skipped' <=> d \in series'[id].exdates
    BY <2>1, <2>3, <2>4 DEF CInv, ex
  <2> QED
    BY <2>1, <2>3, <2>4 DEF CInv
<1>10. CASE UNCHANGED C!vars
  BY <1>10 DEF CInv, C!vars
<1>11. ASSUME NEW call \in skips, C!Reread(call) PROVE CInv'
  <2>1. PICK new : /\ new.id = call.id /\ new.day = call.day /\ new.row = series[call.id]
                   /\ skips' = (skips \ {call}) \union {new}
    BY <1>11 DEF C!Reread, C!Read
  <2>2. UNCHANGED <<series, skipped, clobbered>>
    BY <1>11 DEF C!Reread
  <2>3. new.id \in DOMAIN series /\ new.day \in 0..LastDay /\ new.row \in Planned
    BY <2>1 DEF CInv
  <2> QED
    BY <2>1, <2>2, <2>3 DEF CInv
<1> QED
  BY <1>1, <1>2, <1>4, <1>5, <1>6, <1>8, <1>9, <1>10, <1>11
     DEF C!Next, C!PostEventCreate, C!PostEventUpdate, C!PostEventArchive, C!PostEventMove, C!PostEventSkip,
         C!PostEventUnskip, C!MoveStart, C!SkipStart, C!UnskipStart, C!Commit

LEMMA CalendarMoves ==
  ASSUME [PlannerNext]_<<scene, ledger, board, calendar, vars, schema, views, pages>>
  PROVE  [C!Next]_(C!vars)
  BY DEF PlannerNext, calendar, C!vars

\* services/calendar.py: a window of the calendar shows, of every series that is
\* not archived, exactly the days its rule names and no journal line has skipped,
\* after any order of edits, skips and restores.
THEOREM WindowsShowTheSeries == PlannerSpec => []SeriesHonest
<1>0. Calendrical
  BY PlannerConstants
<1> USE <1>0
<1>1. PlannerInit => CInv
  BY DEF PlannerInit, C!Init, CInv
<1>2. CInv /\ [PlannerNext]_<<scene, ledger, board, calendar, vars, schema, views, pages>> => CInv'
  BY CalendarMoves, CalendarStep
<1>3. CInv => SeriesHonest
  BY WindowHonest DEF SeriesHonest
<1> QED
  BY <1>1, <1>2, <1>3, PTL DEF PlannerSpec
-----------------------------------------------------------------------------
(* Tasks *)

TaskRow == [list : Nat, prio : Priorities \union {0}, order : Int, open : BOOLEAN, kind : {"task", "countdown"}]

\* What a handler at work on tasks holds.
DragHonest(call) ==
    /\ call.op = "create" =>
            call.list \in Nat /\ call.prio \in Priorities /\ call.kind \in {"task", "countdown"} /\ call.order \in Int
    /\ call.op \in {"move", "respace", "respaced"} =>
            /\ call.task \in DOMAIN tasks /\ call.prio \in Priorities
            /\ {call.above, call.below} \subseteq DOMAIN tasks \union {None}
            /\ call.task \notin {call.above, call.below} /\ (call.above = call.below => call.above = None)
            /\ {"op", "rows"} \subseteq DOMAIN call
    /\ call.op = "move" => call.lo \subseteq Int /\ call.hi \subseteq Int /\ ~T!Starved(call.lo, call.hi)
    /\ call.op = "respaced" => \A t \in DOMAIN call.rows : call.rows[t] \in Nat
    /\ call.op = "toggle" => call.task \in DOMAIN tasks /\ call.open \in BOOLEAN

TInv ==
    /\ tasks \in Seq(TaskRow) /\ lists \in Seq(BOOLEAN)
    /\ \A call \in drags : DragHonest(call)

\* A finite set of orders has a greatest one.
LEMMA Rows ==
  ASSUME TInv
  PROVE  \A i \in DOMAIN tasks : i \in Nat /\ tasks[i] \in TaskRow /\ tasks[i].order \in Int
<1>1. \A i \in DOMAIN tasks : i \in Nat /\ tasks[i] \in TaskRow
  BY DEF TInv
<1>2. \A row \in TaskRow : row.order \in Int
  BY DEF TaskRow
<1> QED
  BY <1>1, <1>2

LEMMA SameCardinality == \A U : T!Cardinality(U) = Cardinality(U)
  BY Zenon DEF T!Cardinality, Cardinality

LEMMA HasMax ==
  ASSUME NEW O \in SUBSET Int, O # {}, IsFiniteSet(O)
  PROVE  T!Max(O) \in O
<1> DEFINE Up(m) == {n \in O : n > m}
           Ups == {Up(m) : m \in O}
<1>1. IsWellFoundedOn(StrictSubsetOrdering(O), SUBSET O)
  BY FS_StrictSubsetOrderingWellFounded, FS_FiniteSubsetsOfFinite
<1>2. Ups \subseteq SUBSET O /\ Ups # {}
  OBVIOUS
<1>3. PICK U \in Ups : \A V \in Ups : <<V, U>> \notin StrictSubsetOrdering(O)
  BY <1>1, <1>2, WFMin
<1>4. PICK m \in O : U = Up(m)
  BY <1>3
<1>5. ASSUME NEW n \in O, n > m PROVE FALSE
  <2>0. \A k \in O : k > n => k > m
    BY <1>5
  <2>1. Up(n) \subseteq Up(m)
    BY <2>0
  <2>4. n \in Up(m) /\ n \notin Up(n)
    BY <1>5
  <2>5. Up(n) \in Ups
    OBVIOUS
  <2> HIDE DEF Up, Ups
  <2>2. Up(n) \in SUBSET O /\ Up(m) \in SUBSET O
    BY DEF Up
  <2>3. <<Up(n), Up(m)>> \in StrictSubsetOrdering(O)
    BY <2>1, <2>2, <2>4 DEF StrictSubsetOrdering
  <2> QED
    BY <1>3, <1>4, <2>5, <2>3
<1>6. \A n \in O : m >= n
  BY <1>5
<1> QED
  BY <1>6 DEF T!Max

LEMMA NextOrderTyped ==
  ASSUME Boardly, TInv, NEW l
  PROVE  T!NextOrder(l) \in Int
<1> DEFINE U == {u \in DOMAIN tasks : tasks[u].list = l}
           O == {tasks[t].order : t \in U}
<1>1. PICK n \in Nat : DOMAIN tasks = 1..n
  BY DEF TInv
<1>2. IsFiniteSet(U)
  BY <1>1, FS_Interval, FS_Subset
<1>3. O \subseteq Int
  BY Rows
<1>4. IsFiniteSet(O)
  <2>1. PICK f : f = [t \in U |-> tasks[t].order]
    OBVIOUS
  <2>2. f \in Surjection(U, O)
    BY <2>1 DEF Surjection
  <2> QED
    BY <1>2, <2>2, FS_Surjection
<1>5. IsFiniteSet({0} \union O)
  BY <1>4, FS_AddElement, {0} \union O = O \cup {0}
<1>6. T!Max({0} \union O) \in Int
  BY <1>3, <1>5, HasMax
<1> QED
  BY <1>6 DEF T!NextOrder, Boardly

\* Distinct tasks of a bucket are above one another one way.
LEMMA Ordered ==
  ASSUME TInv, NEW t \in DOMAIN tasks, NEW u \in DOMAIN tasks
  PROVE  /\ t # u => (T!Above(tasks, t, u) <=> ~T!Above(tasks, u, t))
         /\ ~T!Above(tasks, t, t)
         /\ \A v \in DOMAIN tasks : T!Above(tasks, t, u) /\ T!Above(tasks, u, v) => T!Above(tasks, t, v)
<1>1. /\ DOMAIN tasks \subseteq Nat
      /\ \A i \in DOMAIN tasks : tasks[i].order \in Int
  BY Rows
<1> QED
  BY <1>1 DEF T!Above

\* A place in the bucket is below another exactly when the task is above the other.
LEMMA Places ==
  ASSUME TInv, NEW p
  PROVE  /\ DOMAIN T!Ranked(p) = T!Bucket(p)
         /\ \A t \in T!Bucket(p) : T!Ranked(p)[t] \in Nat
         /\ \A t, u \in T!Bucket(p) : T!Above(tasks, t, u) <=> T!Ranked(p)[t] < T!Ranked(p)[u]
<1> DEFINE B == T!Bucket(p)
           Upto(t) == {u \in B : u = t \/ T!Above(tasks, u, t)}
<1>1. B \subseteq DOMAIN tasks
  BY DEF T!Bucket
<1>2. IsFiniteSet(B)
  <2>1. PICK n \in Nat : DOMAIN tasks = 1..n
    BY DEF TInv
  <2> QED
    BY <1>1, <2>1, FS_Interval, FS_Subset
<1>3. \A t \in B : IsFiniteSet(Upto(t)) /\ Cardinality(Upto(t)) \in Nat
  <2> TAKE t \in B
  <2>1. Upto(t) \in SUBSET B
    OBVIOUS
  <2> HIDE DEF Upto, B
  <2> QED
    BY <1>2, <2>1, FS_Subset, FS_CardinalityType
<1>4. T!Ranked(p) = [t \in B |-> Cardinality(Upto(t))]
  BY SameCardinality DEF T!Ranked
<1>5. ASSUME NEW t \in B, NEW u \in B, T!Above(tasks, t, u)
      PROVE  Cardinality(Upto(t)) < Cardinality(Upto(u))
  <2>1. Upto(t) \subseteq Upto(u)
    BY <1>1, <1>5, Ordered
  <2>2. u \in Upto(u) /\ u \notin Upto(t)
    BY <1>1, <1>5, Ordered
  <2> HIDE DEF Upto
  <2>3. Cardinality(Upto(t)) <= Cardinality(Upto(u)) /\ Cardinality(Upto(t)) # Cardinality(Upto(u))
    BY <1>3, <2>1, <2>2, FS_Subset
  <2> QED
    BY <1>3, <2>3
<1>6. ASSUME NEW t \in B, NEW u \in B, ~T!Above(tasks, t, u)
      PROVE  ~(Cardinality(Upto(t)) < Cardinality(Upto(u)))
  <2>1. CASE t = u
    BY <1>3, <2>1
  <2>2. CASE t # u
    <3>1. T!Above(tasks, u, t)
      BY <1>1, <1>6, <2>2, Ordered
    <3>2. Cardinality(Upto(u)) < Cardinality(Upto(t))
      BY <1>5, <3>1
    <3> HIDE DEF Upto
    <3> QED
      BY <1>3, <3>2
  <2> QED
    BY <2>1, <2>2
<1> HIDE DEF Upto, B
<1>7. /\ DOMAIN T!Ranked(p) = B
      /\ \A t \in B : T!Ranked(p)[t] \in Nat
      /\ \A t, u \in B : T!Above(tasks, t, u) <=> T!Ranked(p)[t] < T!Ranked(p)[u]
  BY <1>3, <1>4, <1>5, <1>6
<1> QED
  BY <1>7 DEF B

\* A handler that a step leaves at work.
LEMMA DragsStay ==
  ASSUME NEW call, DragHonest(call), DOMAIN tasks \subseteq DOMAIN tasks'
  PROVE  DragHonest(call)'
  BY DEF DragHonest

\* Where a drop goes is an order.
LEMMA BetweenTyped ==
  ASSUME Boardly, NEW lo \in SUBSET Int, NEW hi \in SUBSET Int
  PROVE  T!Between(lo, hi) \in Int
<1>1. CASE lo # {} /\ hi # {}
  <2> DEFINE M == {(a + b) \div 2 : a \in lo, b \in hi}
  <2>0. PICK a \in lo, b \in hi : TRUE
    BY <1>1
  <2>1. M # {} /\ M \subseteq Int
    <3>1. (a + b) \div 2 \in M
      OBVIOUS
    <3>2. \A x \in Int, y \in Int : (x + y) \div 2 \in Int
      OBVIOUS
    <3>3. \A m \in M : m \in Int
      BY <3>2
    <3> HIDE DEF M
    <3> QED
      BY <3>1, <3>3
  <2>2. T!Between(lo, hi) = CHOOSE m \in M : TRUE
    BY <1>1 DEF T!Between
  <2> HIDE DEF M
  <2> QED
    BY <2>1, <2>2
<1>2. CASE lo # {} /\ hi = {}
  <2> DEFINE M == {a + Gap : a \in lo}
  <2>0. PICK a \in lo : TRUE
    BY <1>2
  <2>1. M # {} /\ M \subseteq Int
    <3>1. a + Gap \in M
      OBVIOUS
    <3>2. M \subseteq Int
      BY DEF Boardly
    <3> QED
      BY <3>1, <3>2
  <2>2. T!Between(lo, hi) = CHOOSE m \in M : TRUE
    BY <1>2 DEF T!Between
  <2> HIDE DEF M
  <2> QED
    BY <2>1, <2>2
<1>3. CASE lo = {} /\ hi # {}
  <2> DEFINE M == {b - Gap : b \in hi}
  <2>0. PICK a \in hi : TRUE
    BY <1>3
  <2>1. M # {} /\ M \subseteq Int
    <3>1. a - Gap \in M
      OBVIOUS
    <3>2. M \subseteq Int
      BY DEF Boardly
    <3> QED
      BY <3>1, <3>2
  <2>2. T!Between(lo, hi) = CHOOSE m \in M : TRUE
    BY <1>3 DEF T!Between
  <2> HIDE DEF M
  <2> QED
    BY <2>1, <2>2
<1>4. CASE lo = {} /\ hi = {}
  BY <1>4 DEF T!Between
<1> QED
  BY <1>1, <1>2, <1>3, <1>4

\* The midpoint of two orders with a gap is strictly between them; without one of them, a gap away.
LEMMA BetweenBoth ==
  ASSUME NEW a \in Int, NEW b \in Int, b - a >= 2
  PROVE  a < T!Between({a}, {b}) /\ T!Between({a}, {b}) < b
<1>1. {(x + y) \div 2 : x \in {a}, y \in {b}} = {(a + b) \div 2}
  OBVIOUS
<1>2. T!Between({a}, {b}) = (a + b) \div 2
  BY <1>1 DEF T!Between
<1> QED
  BY <1>2

LEMMA BetweenOne ==
  ASSUME Boardly, NEW a \in Int
  PROVE  T!Between({a}, {}) = a + Gap /\ T!Between({}, {a}) = a - Gap
<1>1. {x + Gap : x \in {a}} = {a + Gap} /\ {x - Gap : x \in {a}} = {a - Gap}
  OBVIOUS
<1> QED
  BY <1>1 DEF T!Between

\* What a drop writes: the task's bucket and order.
LEMMA Drop ==
  ASSUME NEW f \in Seq(TaskRow), NEW call, call.task \in DOMAIN f, call.prio \in Priorities, NEW o \in Int
  PROVE  /\ T!Placed(f, call, o) \in Seq(TaskRow) /\ DOMAIN T!Placed(f, call, o) = DOMAIN f
         /\ T!Placed(f, call, o)[call.task].order = o
         /\ \A t \in DOMAIN f \ {call.task} : T!Placed(f, call, o)[t] = f[t]
<1> DEFINE row == [f[call.task] EXCEPT !.prio = call.prio]
           put == [row EXCEPT !.order = o]
<1>1. f[call.task] \in TaskRow
  OBVIOUS
<1>2. row \in TaskRow
  BY <1>1 DEF TaskRow
<1>3. put \in TaskRow /\ put.order = o
  BY <1>2 DEF TaskRow
<1>4. T!Placed(f, call, o) = [f EXCEPT ![call.task] = put]
  BY DEF T!Placed
<1> HIDE DEF put
<1> QED
  BY <1>3, <1>4

\* Renumbering a bucket.
LEMMA Renumbered ==
  ASSUME Boardly, TInv, NEW call, \A t \in DOMAIN call.rows : call.rows[t] \in Nat
  PROVE  /\ T!Respaced(call) \in Seq(TaskRow) /\ DOMAIN T!Respaced(call) = DOMAIN tasks
         /\ \A t \in DOMAIN tasks : T!Respaced(call)[t].order =
                IF t \in DOMAIN call.rows THEN Gap * call.rows[t] ELSE tasks[t].order
<1>1. ASSUME NEW t \in DOMAIN tasks, t \in DOMAIN call.rows
      PROVE  [tasks[t] EXCEPT !.order = Gap * call.rows[t]] \in TaskRow
  <2>1. Gap * call.rows[t] \in Int
    BY <1>1 DEF Boardly
  <2>2. tasks[t] \in TaskRow
    BY Rows
  <2>3. PICK o \in Int : o = Gap * call.rows[t]
    BY <2>1
  <2>4. [tasks[t] EXCEPT !.order = o] \in TaskRow
    BY <2>2 DEF TaskRow
  <2> QED
    BY <2>3, <2>4
<1>2. ASSUME NEW t \in DOMAIN tasks, NEW o
      PROVE  [tasks[t] EXCEPT !.order = o].order = o
  <2>1. tasks[t] \in TaskRow
    BY Rows
  <2> QED
    BY <2>1 DEF TaskRow
<1>3. PICK n \in Nat : DOMAIN tasks = 1..n /\ n = Len(tasks)
  BY DEF TInv
<1>4. \A t \in DOMAIN tasks : T!Respaced(call)[t] \in TaskRow
  BY <1>1, Rows DEF T!Respaced
<1>5. T!Respaced(call) = [t \in 1..n |-> T!Respaced(call)[t]]
  BY <1>3 DEF T!Respaced
<1>6. T!Respaced(call) \in Seq(TaskRow)
  BY <1>3, <1>4, <1>5
<1> QED
  BY <1>2, <1>3, <1>5, <1>6 DEF T!Respaced

LEMMA BoardStep ==
  ASSUME Boardly, TInv, [T!Next]_(T!vars)
  PROVE  TInv'
\* A read: the tables stay, one honest handler more.
<1>1. ASSUME NEW new, DragHonest(new), drags' \subseteq drags \union {new}, UNCHANGED <<tasks, lists>> PROVE TInv'
  <2>1. \A call \in drags' : DragHonest(call)'
    BY <1>1, DragsStay DEF TInv
  <2> QED
    BY <1>1, <2>1 DEF TInv
\* A write of the tasks: none is lost.
<1>2. ASSUME tasks' \in Seq(TaskRow), lists' \in Seq(BOOLEAN), DOMAIN tasks \subseteq DOMAIN tasks', drags' \subseteq drags
      PROVE  TInv'
  <2>1. \A call \in drags' : DragHonest(call)'
    BY <1>2, DragsStay DEF TInv
  <2> QED
    BY <1>2, <2>1 DEF TInv
<1>3. ASSUME NEW l \in DOMAIN lists, NEW p \in Priorities, NEW k \in {"task", "countdown"}, T!CreateTask(l, p, k) PROVE TInv'
  <2>1. PICK o \in Int : o = T!NextOrder(l)
    BY NextOrderTyped
  <2>2. PICK new : /\ new.op = "create" /\ new.list = l /\ new.prio = p /\ new.kind = k /\ new.order = o
                   /\ drags' = drags \union {new}
    BY <1>3, <2>1 DEF T!CreateTask, T!Start
  <2>3. l \in Nat
    BY DEF TInv
  <2>4. DragHonest(new)
    BY <2>2, <2>3 DEF DragHonest
  <2> QED
    BY <1>1, <1>3, <2>2, <2>4 DEF T!CreateTask, T!Start
<1>4. ASSUME NEW t \in DOMAIN tasks, NEW p \in Priorities, NEW a \in DOMAIN tasks \union {None}, NEW b \in DOMAIN tasks \union {None},
             t \notin {a, b}, a = b => a = None, T!MoveTask(t, p, a, b)
      PROVE  TInv'
  <2> DEFINE tight == T!Starved(T!OrderOf(a), T!OrderOf(b))
  <2>1. PICK new : /\ new.op = (IF tight THEN "respace" ELSE "move")
                   /\ new.task = t /\ new.prio = p /\ new.above = a /\ new.below = b
                   /\ new.lo = T!OrderOf(a) /\ new.hi = T!OrderOf(b) /\ {"op", "rows"} \subseteq DOMAIN new
                   /\ drags' = drags \union {new}
    <3>1. PICK op : op = IF tight THEN "respace" ELSE "move"
      OBVIOUS
    <3>2. PICK by : by = T!Min(T!Threads)
      OBVIOUS
    <3>3. PICK new : new = [by |-> by, op |-> op, task |-> t, prio |-> p, above |-> a, below |-> b,
                            lo |-> T!OrderOf(a), hi |-> T!OrderOf(b), rows |-> <<>>]
      OBVIOUS
    <3>4. drags' = drags \union {new}
      BY <1>4, <3>1, <3>2, <3>3 DEF T!MoveTask, T!Start
    <3> HIDE DEF tight
    <3> QED
      BY <3>1, <3>3, <3>4
  <2>2. T!OrderOf(a) \subseteq Int /\ T!OrderOf(b) \subseteq Int
    BY Rows DEF T!OrderOf
  <2> HIDE DEF tight
  <2>3. DragHonest(new)
    BY <1>4, <2>1, <2>2 DEF DragHonest, tight
  <2> QED
    BY <1>1, <1>4, <2>1, <2>3 DEF T!MoveTask, T!Start
<1>5. ASSUME NEW call \in drags, T!RespaceRead(call) PROVE TInv'
  <2>1. PICK new : /\ new = [call EXCEPT !.op = "respaced", !.rows = T!Ranked(call.prio)]
                   /\ drags' = (drags \ {call}) \union {new}
    BY <1>5 DEF T!RespaceRead
  <2>2. DragHonest(call) /\ call.op = "respace"
    BY <1>5 DEF TInv, T!RespaceRead
  <2>3. {"op", "rows"} \subseteq DOMAIN call
    BY <2>2 DEF DragHonest
  <2>4. /\ new.op = "respaced" /\ new.rows = T!Ranked(call.prio) /\ new.task = call.task /\ new.prio = call.prio
        /\ new.above = call.above /\ new.below = call.below /\ {"op", "rows"} \subseteq DOMAIN new
    BY <2>1, <2>3
  <2>5. \A t \in DOMAIN new.rows : new.rows[t] \in Nat
    BY <2>4, Places
  <2>6. DragHonest(new)
    BY <2>2, <2>4, <2>5 DEF DragHonest
  <2> QED
    BY <1>1, <1>5, <2>1, <2>6 DEF T!RespaceRead
<1>6. ASSUME NEW call \in drags, T!CreateTaskCommit(call) PROVE TInv'
  <2>1. PICK row : row = T!Task(call.list, call.prio, call.order, call.kind)
    OBVIOUS
  <2>2. row \in TaskRow
    BY <1>6, <2>1 DEF TInv, DragHonest, T!CreateTaskCommit, T!Task, TaskRow
  <2>3. CASE UNCHANGED tasks
    BY <1>2, <1>6, <2>3 DEF TInv, T!CreateTaskCommit, T!Done
  <2>4. CASE tasks' = Append(tasks, row)
    <3>1. tasks' \in Seq(TaskRow) /\ DOMAIN tasks \subseteq DOMAIN tasks'
      BY <2>2, <2>4 DEF TInv
    <3> QED
      BY <1>2, <1>6, <3>1 DEF TInv, T!CreateTaskCommit, T!Done
  <2> QED
    BY <1>6, <2>1, <2>3, <2>4 DEF T!CreateTaskCommit
<1>7. ASSUME NEW call \in drags, T!MoveCommit(call) PROVE TInv'
  <2>1. DragHonest(call) /\ call.op = "move"
    BY <1>7 DEF TInv, T!MoveCommit
  <2>2. call.lo \subseteq Int /\ call.hi \subseteq Int /\ call.task \in DOMAIN tasks /\ call.prio \in Priorities
    BY <2>1 DEF DragHonest
  <2>3. PICK o \in Int : o = T!Between(call.lo, call.hi)
    BY <2>2, BetweenTyped
  <2>4. tasks' \in Seq(TaskRow) /\ DOMAIN tasks' = DOMAIN tasks
    BY <1>7, <2>2, <2>3, Drop DEF T!MoveCommit, TInv
  <2> QED
    BY <1>2, <1>7, <2>4 DEF TInv, T!MoveCommit, T!Done
<1>8. ASSUME NEW call \in drags, T!RespacedMoveCommit(call) PROVE TInv'
  <2>1. DragHonest(call) /\ call.op = "respaced"
    BY <1>8 DEF TInv, T!RespacedMoveCommit
  <2>2. /\ \A t \in DOMAIN call.rows : call.rows[t] \in Nat
        /\ call.task \in DOMAIN tasks /\ call.prio \in Priorities
        /\ {call.above, call.below} \subseteq DOMAIN tasks \union {None}
    BY <2>1 DEF DragHonest
  <2>3. PICK f \in Seq(TaskRow) : f = T!Respaced(call) /\ DOMAIN f = DOMAIN tasks
    BY <2>2, Renumbered
  <2>4. \A t \in DOMAIN f : f[t].order \in Int
    <3>1. \A row \in TaskRow : row.order \in Int
      BY DEF TaskRow
    <3> QED
      BY <2>3, <3>1
  <2>5. PICK lo \in SUBSET Int : lo = {f[t].order : t \in {call.above} \ {None}}
    BY <2>2, <2>3, <2>4
  <2>6. PICK hi \in SUBSET Int : hi = {f[t].order : t \in {call.below} \ {None}}
    BY <2>2, <2>3, <2>4
  <2>7. PICK o \in Int : o = T!Between(lo, hi)
    BY BetweenTyped
  <2>8. tasks' = T!Placed(f, call, o)
    BY <1>8, <2>3, <2>5, <2>6, <2>7 DEF T!RespacedMoveCommit
  <2>9. tasks' \in Seq(TaskRow) /\ DOMAIN tasks' = DOMAIN tasks
    BY <2>2, <2>3, <2>8, Drop
  <2> QED
    BY <1>2, <1>8, <2>9 DEF TInv, T!RespacedMoveCommit, T!Done
<1>9. ASSUME NEW t \in DOMAIN tasks, T!ToggleComplete(t) PROVE TInv'
  <2>1. PICK new : new.op = "toggle" /\ new.task = t /\ new.open = tasks[t].open /\ drags' = drags \union {new}
    BY <1>9 DEF T!ToggleComplete, T!Start
  <2>2. tasks[t].open \in BOOLEAN
    BY Rows DEF TaskRow
  <2>3. DragHonest(new)
    BY <2>1, <2>2 DEF DragHonest
  <2> QED
    BY <1>1, <1>9, <2>1, <2>3 DEF T!ToggleComplete, T!Start
<1>10. ASSUME NEW call \in drags, T!ToggleCommit(call) PROVE TInv'
  <2>1. call.task \in DOMAIN tasks /\ tasks[call.task] \in TaskRow
    BY <1>10, Rows DEF TInv, DragHonest, T!ToggleCommit
  <2>2. PICK row : row = [tasks[call.task] EXCEPT !.open = ~call.open]
    OBVIOUS
  <2>3. row \in TaskRow
    BY <2>1, <2>2 DEF TaskRow
  <2>4. tasks' = [tasks EXCEPT ![call.task] = row]
    BY <1>10, <2>2 DEF T!ToggleCommit
  <2>5. tasks' \in Seq(TaskRow) /\ DOMAIN tasks' = DOMAIN tasks
    BY <2>1, <2>3, <2>4 DEF TInv
  <2> QED
    BY <1>2, <1>10, <2>5 DEF TInv, T!ToggleCommit, T!Done
<1>11. ASSUME NEW t \in DOMAIN tasks, NEW l \in DOMAIN lists, NEW p \in Priorities, T!UpdateTask(t, l, p) PROVE TInv'
  <2>1. tasks[t] \in TaskRow /\ l \in Nat
    BY Rows DEF TInv
  <2>2. PICK row : row = [tasks[t] EXCEPT !.list = l]
    OBVIOUS
  <2>3. row \in TaskRow
    BY <2>1, <2>2 DEF TaskRow
  <2>4. PICK put : put = [row EXCEPT !.prio = p]
    OBVIOUS
  <2>5. put \in TaskRow
    BY <2>3, <2>4 DEF TaskRow
  <2>6. tasks' = [tasks EXCEPT ![t] = put]
    BY <1>11, <2>2, <2>4 DEF T!UpdateTask
  <2>7. tasks' \in Seq(TaskRow) /\ DOMAIN tasks' = DOMAIN tasks
    BY <2>5, <2>6 DEF TInv
  <2> QED
    BY <1>2, <1>11, <2>7 DEF TInv, T!UpdateTask
<1>12. CASE T!CreateList
  BY <1>2, <1>12 DEF TInv, T!CreateList
<1>13. ASSUME NEW l \in DOMAIN lists, T!ArchiveList(l) PROVE TInv'
  <2>1. \A t \in DOMAIN tasks : tasks[t] \in TaskRow /\ [tasks[t] EXCEPT !.list = T!Inbox] \in TaskRow
    <3> TAKE t \in DOMAIN tasks
    <3>1. tasks[t] \in TaskRow
      BY Rows
    <3> QED
      BY <3>1 DEF TaskRow, T!Inbox
  <2>2. PICK n \in Nat : DOMAIN tasks = 1..n
    BY DEF TInv
  <2>3. tasks' = [t \in 1..n |-> IF tasks[t].list = l THEN [tasks[t] EXCEPT !.list = T!Inbox] ELSE tasks[t]]
    BY <1>13, <2>2 DEF T!ArchiveList
  <2>4. tasks' \in Seq(TaskRow) /\ DOMAIN tasks' = DOMAIN tasks
    <3>1. PICK put : put = [t \in DOMAIN tasks |-> [tasks[t] EXCEPT !.list = T!Inbox]]
      OBVIOUS
    <3>2. tasks' = [t \in 1..n |-> IF tasks[t].list = l THEN put[t] ELSE tasks[t]]
      BY <2>2, <2>3, <3>1
    <3>3. \A t \in 1..n : put[t] \in TaskRow /\ tasks[t] \in TaskRow
      BY <2>1, <2>2, <3>1
    <3> QED
      BY <2>2, <3>2, <3>3
  <2> QED
    BY <1>2, <1>13, <2>4 DEF TInv, T!ArchiveList
<1>14. CASE UNCHANGED T!vars
  BY <1>2, <1>14 DEF TInv, T!vars
<1> QED
  BY <1>3, <1>4, <1>5, <1>6, <1>7, <1>8, <1>9, <1>10, <1>11, <1>12, <1>13, <1>14
     DEF T!Next, T!PostTaskCreate, T!PostTaskMove, T!PostTaskComplete, T!PostTaskUpdate, T!PostListCreate

\* A drop that found its neighbours where it had read them.
LEMMA Lands ==
  ASSUME Boardly, TInv, NEW call \in drags, call.op \in {"move", "respaced"}, T!Fresh(call), T!Slot(call),
         NEW f \in Seq(TaskRow), DOMAIN f = DOMAIN tasks,
         NEW lo, NEW hi, NEW o, o = T!Between(lo, hi), tasks' = T!Placed(f, call, o),
         lo = IF call.above = None THEN {} ELSE {f[call.above].order},
         hi = IF call.below = None THEN {} ELSE {f[call.below].order},
         None \notin {call.above, call.below} => f[call.below].order - f[call.above].order >= 2
  PROVE  /\ call.above # None => T!Above(tasks', call.above, call.task)
         /\ call.below # None => T!Above(tasks', call.task, call.below)
<1>1. /\ call.task \in DOMAIN tasks /\ call.prio \in Priorities
      /\ {call.above, call.below} \subseteq DOMAIN tasks \union {None}
      /\ call.task \notin {call.above, call.below}
  BY DEF TInv, DragHonest
<1>2. \A t \in DOMAIN f : f[t].order \in Int
  <2>1. \A row \in TaskRow : row.order \in Int
    BY DEF TaskRow
  <2> QED
    BY <2>1
<1>3. lo \in SUBSET Int /\ hi \in SUBSET Int
  BY <1>1, <1>2
<1>4. o \in Int
  BY <1>3, BetweenTyped
<1>5. tasks'[call.task].order = o /\ \A t \in DOMAIN f \ {call.task} : tasks'[t].order = f[t].order
  <2>1. /\ T!Placed(f, call, o)[call.task].order = o
        /\ \A t \in DOMAIN f \ {call.task} : T!Placed(f, call, o)[t] = f[t]
    <3>1. call.task \in DOMAIN f /\ call.prio \in Priorities
      BY <1>1
    <3>2. f \in Seq(TaskRow)
      OBVIOUS
    <3> QED
      BY ONLY <1>4, <3>1, <3>2, Drop
  <2> QED
    BY <2>1
<1>6. ASSUME call.above # None PROVE f[call.above].order < o
  <2>1. PICK a \in Int : a = f[call.above].order /\ lo = {a}
    BY <1>1, <1>2, <1>6
  <2>2. CASE call.below = None
    BY <2>1, <2>2, BetweenOne DEF Boardly
  <2>3. CASE call.below # None
    <3>1. PICK b \in Int : b = f[call.below].order /\ hi = {b}
      BY <1>1, <1>2, <2>3
    <3> QED
      BY <1>6, <2>1, <2>3, <3>1, BetweenBoth
  <2> QED
    BY <2>2, <2>3
<1>7. ASSUME call.below # None PROVE o < f[call.below].order
  <2>1. PICK b \in Int : b = f[call.below].order /\ hi = {b}
    BY <1>1, <1>2, <1>7
  <2>2. CASE call.above = None
    <3>1. lo = {} /\ T!Between({}, {b}) = b - Gap
      BY <2>2, BetweenOne
    <3>2. o = b - Gap
      BY <2>1, <3>1
    <3>3. b - Gap < b
      BY DEF Boardly
    <3> QED
      BY <2>1, <3>2, <3>3
  <2>3. CASE call.above # None
    <3>1. PICK a \in Int : a = f[call.above].order /\ lo = {a}
      BY <1>1, <1>2, <2>3
    <3> QED
      BY <1>7, <2>1, <2>3, <3>1, BetweenBoth
  <2> QED
    BY <2>2, <2>3
<1> QED
  BY <1>1, <1>5, <1>6, <1>7 DEF T!Above

\* The order of tasks that a write leaves in theirs.
LEMMA OthersStay ==
  ASSUME NEW f, NEW g, NEW t, NEW u, f[t].order = g[t].order, f[u].order = g[u].order
  PROVE  T!Above(f, t, u) <=> T!Above(g, t, u)
  BY DEF T!Above

LEMMA DragStep ==
  ASSUME Boardly, TInv, T!Next, NEW call \in drags \ drags', call.op \in {"move", "respaced"}, T!Fresh(call), T!Slot(call)
  PROVE  /\ call.above # None => T!Above(tasks', call.above, call.task)
         /\ call.below # None => T!Above(tasks', call.task, call.below)
         /\ \A t, u \in DOMAIN tasks \ {call.task} :
             tasks[t].prio = tasks[u].prio /\ t \in T!Bucket(tasks[t].prio) /\ u \in T!Bucket(tasks[u].prio)
                 => (T!Above(tasks, t, u) <=> T!Above(tasks', t, u))
<1>1. /\ DragHonest(call) /\ call.task \in DOMAIN tasks /\ call.prio \in Priorities
      /\ {call.above, call.below} \subseteq DOMAIN tasks \union {None}
      /\ call.task \notin {call.above, call.below} /\ (call.above = call.below => call.above = None)
  BY DEF TInv, DragHonest
<1>2. T!MoveCommit(call) \/ T!RespacedMoveCommit(call)
  BY DEF T!Next, T!PostTaskCreate, T!PostTaskMove, T!PostTaskComplete, T!PostTaskUpdate, T!PostListCreate,
         T!CreateTask, T!MoveTask, T!ToggleComplete, T!UpdateTask, T!CreateList, T!ArchiveList, T!Start,
         T!CreateTaskCommit, T!RespaceRead, T!MoveCommit, T!RespacedMoveCommit, T!ToggleCommit, T!Done
<1>3. None \notin DOMAIN tasks
  BY Rows DEF Boardly
<1>4. CASE T!MoveCommit(call)
  <2>1. call.op = "move" /\ call.lo = T!OrderOf(call.above) /\ call.hi = T!OrderOf(call.below)
    BY <1>4 DEF T!MoveCommit, T!Fresh
  <2>2. /\ call.lo = IF call.above = None THEN {} ELSE {tasks[call.above].order}
        /\ call.hi = IF call.below = None THEN {} ELSE {tasks[call.below].order}
    BY <1>1, <1>3, <2>1 DEF T!OrderOf
  <2>3. ~T!Starved(call.lo, call.hi)
    BY <1>1, <2>1 DEF DragHonest
  <2>4. None \notin {call.above, call.below} => tasks[call.below].order - tasks[call.above].order >= 2
    <3> SUFFICES ASSUME None \notin {call.above, call.below}
                 PROVE  tasks[call.below].order - tasks[call.above].order >= 2
      OBVIOUS
    <3>1. call.lo = {tasks[call.above].order} /\ call.hi = {tasks[call.below].order}
      BY <2>2
    <3>2. tasks[call.above].order \in Int /\ tasks[call.below].order \in Int
      BY <1>1, Rows
    <3>3. ~(tasks[call.below].order - tasks[call.above].order < 2)
      BY <2>3, <3>1 DEF T!Starved
    <3> QED
      BY <3>2, <3>3
  <2>5. tasks' = T!Placed(tasks, call, T!Between(call.lo, call.hi)) /\ tasks \in Seq(TaskRow)
    BY <1>4 DEF T!MoveCommit, TInv
  <2>6. /\ call.above # None => T!Above(tasks', call.above, call.task)
        /\ call.below # None => T!Above(tasks', call.task, call.below)
    BY <2>2, <2>4, <2>5, Lands
  <2>7. T!Between(call.lo, call.hi) \in Int
    BY <1>1, <2>1, BetweenTyped DEF DragHonest
  <2>8. \A t \in DOMAIN tasks \ {call.task} : tasks'[t] = tasks[t]
    BY <1>1, <2>5, <2>7, Drop
  <2>9. \A t, u \in DOMAIN tasks \ {call.task} : T!Above(tasks, t, u) <=> T!Above(tasks', t, u)
    BY <2>8, OthersStay
  <2> QED
    BY <2>6, <2>9
<1>5. CASE T!RespacedMoveCommit(call)
  <2>1. call.op = "respaced" /\ call.rows = T!Ranked(call.prio)
    BY <1>5 DEF T!RespacedMoveCommit, T!Fresh
  <2>2. /\ DOMAIN call.rows = T!Bucket(call.prio)
        /\ \A t \in T!Bucket(call.prio) : call.rows[t] \in Nat
        /\ \A t, u \in T!Bucket(call.prio) : T!Above(tasks, t, u) <=> call.rows[t] < call.rows[u]
    BY <2>1, Places
  <2>3. PICK f \in Seq(TaskRow) :
              /\ f = T!Respaced(call) /\ DOMAIN f = DOMAIN tasks
              /\ \A t \in DOMAIN tasks : f[t].order = IF t \in T!Bucket(call.prio) THEN Gap * call.rows[t]
                                                      ELSE tasks[t].order
    BY <2>2, Renumbered
  \* Places that differ are a gap apart.
  <2>4. ASSUME NEW t \in T!Bucket(call.prio), NEW u \in T!Bucket(call.prio)
        PROVE  /\ t \in DOMAIN tasks /\ u \in DOMAIN tasks
               /\ f[t].order \in Int /\ f[u].order \in Int
               /\ call.rows[t] < call.rows[u] => f[u].order - f[t].order >= 2
               /\ call.rows[t] < call.rows[u] <=> f[t].order < f[u].order
    <3>1. t \in DOMAIN tasks /\ u \in DOMAIN tasks
      BY DEF T!Bucket
    <3>2. PICK m \in Nat, n \in Nat : m = call.rows[t] /\ n = call.rows[u]
      BY <2>2
    <3>3. f[t].order = Gap * m /\ f[u].order = Gap * n /\ Gap \in Nat \ {0} /\ Gap >= 2
      BY <2>3, <3>1, <3>2 DEF Boardly
    <3>4. m < n => Gap * m + Gap <= Gap * n
      BY <3>3, Scaled
    <3>5. n < m => Gap * n + Gap <= Gap * m
      BY <3>3, Scaled
    <3>6. PICK i \in Int, j \in Int : i = Gap * m /\ j = Gap * n
      BY <3>3
    <3>7. m = n => i = j
      BY <3>6
    <3>8. m < n \/ n < m \/ m = n
      OBVIOUS
    <3>9. (m < n => j - i >= 2) /\ (m < n <=> i < j)
      BY <3>3, <3>4, <3>5, <3>6, <3>7, <3>8
    <3> QED
      BY <3>1, <3>2, <3>3, <3>6, <3>9
  <2> DEFINE lo == {f[t].order : t \in {call.above} \ {None}}
             hi == {f[t].order : t \in {call.below} \ {None}}
  <2>5. /\ lo = IF call.above = None THEN {} ELSE {f[call.above].order}
        /\ hi = IF call.below = None THEN {} ELSE {f[call.below].order}
    OBVIOUS
  <2>6. {call.above, call.below} \ {None} \subseteq T!Bucket(call.prio)
    BY DEF T!Slot
  <2>7. None \notin {call.above, call.below} => f[call.below].order - f[call.above].order >= 2
    BY <2>2, <2>4, <2>6 DEF T!Slot
  <2>8. lo \in SUBSET Int /\ hi \in SUBSET Int
    BY <2>4, <2>5, <2>6
  <2>9. tasks' = T!Placed(f, call, T!Between(lo, hi))
    BY <1>5, <2>3 DEF T!RespacedMoveCommit
  <2> HIDE DEF lo, hi
  <2>10. /\ call.above # None => T!Above(tasks', call.above, call.task)
         /\ call.below # None => T!Above(tasks', call.task, call.below)
    BY <2>3, <2>5, <2>7, <2>9, Lands
  <2>11. \A t \in DOMAIN tasks \ {call.task} : tasks'[t] = f[t]
    BY <1>1, <2>3, <2>8, <2>9, BetweenTyped, Drop
  <2>12. ASSUME NEW t \in DOMAIN tasks \ {call.task}, NEW u \in DOMAIN tasks \ {call.task}, tasks[t].prio = tasks[u].prio,
                t \in T!Bucket(tasks[t].prio), u \in T!Bucket(tasks[u].prio)
         PROVE  T!Above(tasks, t, u) <=> T!Above(tasks', t, u)
    <3>1. CASE tasks[t].prio = call.prio
      <4>1. t \in T!Bucket(call.prio) /\ u \in T!Bucket(call.prio)
        BY <2>12, <3>1
      <4>2. T!Above(tasks, t, u) <=> f[t].order < f[u].order
        BY <2>2, <2>4, <4>1
      <4>3. f[t].order # f[u].order \/ t = u
        BY <2>2, <2>4, <4>1, Ordered
      <4>4. T!Above(tasks', t, u) <=> T!Above(f, t, u)
        BY <2>11, OthersStay
      <4>5. T!Above(f, t, u) <=> f[t].order < f[u].order
        <5>1. t \in Nat /\ f[t].order \in Int /\ f[u].order \in Int
          BY <2>4, <4>1, Rows
        <5> QED
          BY <4>3, <5>1 DEF T!Above
      <4> QED
        BY <4>2, <4>4, <4>5
    <3>2. CASE tasks[t].prio # call.prio
      <4>1. t \notin T!Bucket(call.prio) /\ u \notin T!Bucket(call.prio)
        BY <2>12, <3>2 DEF T!Bucket
      <4>2. tasks'[t].order = tasks[t].order /\ tasks'[u].order = tasks[u].order
        BY <2>3, <2>11, <4>1
      <4> QED
        BY <4>2, OthersStay
    <3> QED
      BY <3>1, <3>2
  <2> QED
    BY <2>10, <2>12
<1> QED
  BY <1>2, <1>4, <1>5

LEMMA BoardMoves ==
  ASSUME [PlannerNext]_<<scene, ledger, board, calendar, vars, schema, views, pages>>
  PROVE  [T!Next]_(T!vars)
  BY DEF PlannerNext, board, T!vars

\* services/tasks.py, move_task: a drag whose neighbours are still where it read
\* them lands the task between them, by the midpoint or by a respacing of the
\* whole bucket, and leaves every other pair of tasks in its order.
THEOREM DragsKeepTheOthers == PlannerSpec => DragMovesOneTask
<1>0. Boardly
  BY PlannerConstants
<1> USE <1>0
<1>1. PlannerInit => TInv
  <2> SUFFICES ASSUME PlannerInit PROVE TInv
    OBVIOUS
  <2>1. T!Init
    BY DEF PlannerInit
  <2>2. \A l \in Nat : T!Task(l, 0, Gap, "task") \in TaskRow
    BY DEF T!Task, TaskRow, Boardly
  <2>3. tasks \in Seq(TaskRow)
    BY <2>1, <2>2 DEF T!Init, T!SeedTasks, T!Inbox
  <2>4. lists \in Seq(BOOLEAN) /\ drags = {}
    BY <2>1 DEF T!Init, T!SeedLists
  <2> QED
    BY <2>3, <2>4 DEF TInv
<1>2. TInv /\ [PlannerNext]_<<scene, ledger, board, calendar, vars, schema, views, pages>> => TInv'
  BY BoardMoves, BoardStep
<1>3. TInv /\ [PlannerNext]_<<scene, ledger, board, calendar, vars, schema, views, pages>> => [T!OneTaskMoved]_(T!vars)
  BY BoardMoves, DragStep DEF T!OneTaskMoved
<1> QED
  BY <1>1, <1>2, <1>3, PTL DEF PlannerSpec, DragMovesOneTask, T!DragMovesOneTask
-----------------------------------------------------------------------------
(* The schema *)

\* A step that stands on what is below: each statement's table is there by then, and none repeats a name.
Sound(stmts, below) ==
    \A i \in DOMAIN stmts :
        /\ stmts[i].on = None \/ stmts[i].on \in below \/ \E j \in DOMAIN stmts : j < i /\ stmts[j].name = stmts[i].on
        /\ \A j \in DOMAIN stmts : j < i => stmts[j].name # stmts[i].name

\* What a database of version v has at least: version 10 may be that of the uid step.
Base(v) == IF v = 10 THEN S!Reached(9) ELSE S!Reached(v)

LEMMA Thirteen ==
  /\ S!Latest = 13 /\ DOMAIN S!Migrations = 1..13
  /\ S!Migrations[1] = S!InitialSchema /\ S!Migrations[2] = S!SchemaV2 /\ S!Migrations[3] = S!SchemaV3
  /\ S!Migrations[4] = S!SchemaV4 /\ S!Migrations[5] = S!SchemaV5 /\ S!Migrations[6] = S!SchemaV6
  /\ S!Migrations[7] = S!SchemaV7 /\ S!Migrations[8] = S!SchemaV8 /\ S!Migrations[9] = S!SchemaV9
  /\ S!Migrations[10] = S!SchemaV10 /\ S!Migrations[11] = S!SchemaV11 /\ S!Migrations[12] = S!SchemaV12
  /\ S!Migrations[13] = S!SchemaV13
  BY DEF S!Latest, S!Migrations

LEMMA Eleven ==
  S!SchemaV11 = <<S!Table("retro_entries"), S!Index("idx_retro_start", "retro_entries"),
                  S!Column("uid", "lessons"), S!Index("idx_lessons_uid", "lessons")>>
  BY DEF S!SchemaV11, S!SchemaV10, S!UidStep

LEMMA Rungs ==
  ASSUME NEW v \in Nat
  PROVE  S!Reached(v + 1) = S!Reached(v) \union S!Names(S!Migrations[v + 1])
<1>1. 1..(v + 1) = (1..v) \union {v + 1}
  OBVIOUS
<1> QED
  BY <1>1 DEF S!Reached

LEMMA Below ==
  ASSUME NEW v \in Nat, NEW w \in Nat, v <= w
  PROVE  S!Reached(v) \subseteq S!Reached(w)
  BY DEF S!Reached

LEMMA In ==
  ASSUME NEW v \in Nat, NEW k \in 1..v, NEW i \in DOMAIN S!Migrations[k]
  PROVE  S!Migrations[k][i].name \in S!Reached(v)
  BY DEF S!Reached, S!Names

\* The tables that later statements name.
LEMMA Tabled ==
  /\ "routine_items" \in S!Reached(1) /\ "checkins" \in S!Reached(1) /\ "events" \in S!Reached(1)
  /\ "focus_sessions" \in S!Reached(4) /\ "lessons" \in S!Reached(6) /\ "lesson_attempts" \in S!Reached(12)
<1>1. 1 \in DOMAIN S!InitialSchema /\ S!InitialSchema[1].name = "routine_items"
      /\ 2 \in DOMAIN S!InitialSchema /\ S!InitialSchema[2].name = "checkins"
      /\ 4 \in DOMAIN S!InitialSchema /\ S!InitialSchema[4].name = "events"
  BY DEF S!InitialSchema, S!Table
<1>2. 1 \in DOMAIN S!SchemaV4 /\ S!SchemaV4[1].name = "focus_sessions"
  BY DEF S!SchemaV4, S!Table
<1>3. 1 \in DOMAIN S!SchemaV6 /\ S!SchemaV6[1].name = "lessons"
  BY DEF S!SchemaV6, S!Table
<1>4. 1 \in DOMAIN S!SchemaV12 /\ S!SchemaV12[1].name = "lesson_attempts"
  BY DEF S!SchemaV12, S!Table
<1>5. /\ "routine_items" \in S!Reached(1) /\ "checkins" \in S!Reached(1) /\ "events" \in S!Reached(1)
  BY <1>1, Thirteen, In
<1>6. "focus_sessions" \in S!Reached(4)
  BY <1>2, Thirteen, In
<1>7. "lessons" \in S!Reached(6)
  BY <1>3, Thirteen, In
<1>8. "lesson_attempts" \in S!Reached(12)
  BY <1>4, Thirteen, In
<1> QED
  BY <1>5, <1>6, <1>7, <1>8

LEMMA Ladder == \A t \in 1..13 : Sound(S!Migrations[t], Base(t - 1))
<1> USE DEF Sound, S!Table, S!Index, S!Column
<1>1. Sound(S!InitialSchema, Base(0))
  BY DEF S!InitialSchema
<1>2. Sound(S!SchemaV2, Base(1))
  BY DEF S!SchemaV2
<1>3. Sound(S!SchemaV3, Base(2))
  <2>1. "routine_items" \in Base(2)
    BY Tabled, Below DEF Base
  <2> QED
    BY <2>1 DEF S!SchemaV3
<1>4. Sound(S!SchemaV4, Base(3))
  BY DEF S!SchemaV4
<1>5. Sound(S!SchemaV5, Base(4))
  BY DEF S!SchemaV5
<1>6. Sound(S!SchemaV6, Base(5))
  BY DEF S!SchemaV6
<1>7. Sound(S!SchemaV7, Base(6))
  <2>1. "lessons" \in Base(6)
    BY Tabled, Below DEF Base
  <2> QED
    BY <2>1 DEF S!SchemaV7
<1>8. Sound(S!SchemaV8, Base(7))
  <2>1. "focus_sessions" \in Base(7)
    BY Tabled, Below DEF Base
  <2> QED
    BY <2>1 DEF S!SchemaV8
<1>9. Sound(S!SchemaV9, Base(8))
  <2>1. "events" \in Base(8)
    BY Tabled, Below DEF Base
  <2> QED
    BY <2>1 DEF S!SchemaV9
<1>10. Sound(S!SchemaV10, Base(9))
  BY DEF S!SchemaV10
<1>11. Sound(S!SchemaV11, Base(10))
  <2>1. "lessons" \in Base(10)
    BY Tabled, Below DEF Base
  <2> QED
    BY <2>1, Eleven
<1>12. Sound(S!SchemaV12, Base(11))
  BY DEF S!SchemaV12
<1>13. Sound(S!SchemaV13, Base(12))
  <2>1. "lesson_attempts" \in Base(12)
    BY Tabled, Below DEF Base
  <2> QED
    BY <2>1 DEF S!SchemaV13
<1> USE Thirteen
<1> HIDE DEF Sound, S!Table, S!Index, S!Column
<1>14. ASSUME NEW t \in 1..13 PROVE Sound(S!Migrations[t], Base(t - 1))
  <2>1. CASE t = 1
    BY <1>1, <2>1
  <2>2. CASE t = 2
    BY <1>2, <2>2
  <2>3. CASE t = 3
    BY <1>3, <2>3
  <2>4. CASE t = 4
    BY <1>4, <2>4
  <2>5. CASE t = 5
    BY <1>5, <2>5
  <2>6. CASE t = 6
    BY <1>6, <2>6
  <2>7. CASE t = 7
    BY <1>7, <2>7
  <2>8. CASE t = 8
    BY <1>8, <2>8
  <2>9. CASE t = 9
    BY <1>9, <2>9
  <2>10. CASE t = 10
    BY <1>10, <2>10
  <2>11. CASE t = 11
    BY <1>11, <2>11
  <2>12. CASE t = 12
    BY <1>12, <2>12
  <2>13. CASE t = 13
    BY <1>13, <2>13
  <2>14. t \in {1, 2, 3, 4, 5, 6, 7, 8, 9, 10, 11, 12, 13}
    OBVIOUS
  <2> QED
    BY <2>1, <2>2, <2>3, <2>4, <2>5, <2>6, <2>7, <2>8, <2>9, <2>10, <2>11, <2>12, <2>13, <2>14
<1> QED
  BY <1>14

\* Each step is a sequence of statements.
LEMMA Steps == \A t \in 1..13 : Len(S!Migrations[t]) \in Nat /\ DOMAIN S!Migrations[t] = 1..Len(S!Migrations[t])
<1> DEFINE Whole(s) == Len(s) \in Nat /\ DOMAIN s = 1..Len(s)
<1>1. Whole(S!InitialSchema) /\ Whole(S!SchemaV2) /\ Whole(S!SchemaV3) /\ Whole(S!SchemaV4)
  BY DEF S!InitialSchema, S!SchemaV2, S!SchemaV3, S!SchemaV4
<1>2. Whole(S!SchemaV5) /\ Whole(S!SchemaV6) /\ Whole(S!SchemaV7) /\ Whole(S!SchemaV8) /\ Whole(S!SchemaV9)
  BY DEF S!SchemaV5, S!SchemaV6, S!SchemaV7, S!SchemaV8, S!SchemaV9
<1>3. Whole(S!SchemaV10) /\ Whole(S!SchemaV11) /\ Whole(S!SchemaV12) /\ Whole(S!SchemaV13)
  BY DEF S!SchemaV10, S!SchemaV11, S!SchemaV12, S!SchemaV13
<1> HIDE DEF Whole
<1>4. ASSUME NEW t \in 1..13 PROVE Whole(S!Migrations[t])
  <2>1. t \in {1, 2, 3, 4, 5, 6, 7, 8, 9, 10, 11, 12, 13}
    OBVIOUS
  <2> QED
    BY <1>1, <1>2, <1>3, <2>1, Thirteen
<1> QED
  BY <1>4 DEF Whole

\* A finished step leaves what the next one stands on.
LEMMA Climb ==
  ASSUME NEW v \in 0..12
  PROVE  Base(v + 1) \subseteq Base(v) \union S!Names(S!Migrations[v + 1])
<1>1. CASE v = 10
  <2>1. S!Reached(11) = S!Reached(10) \union S!Names(S!SchemaV11)
    BY Rungs, Thirteen
  <2>2. S!Reached(10) = S!Reached(9) \union S!Names(S!SchemaV10)
    BY Rungs, Thirteen
  <2>3. S!Names(S!SchemaV10) \subseteq S!Names(S!SchemaV11)
    BY DEF S!Names, S!SchemaV10, S!SchemaV11
  <2> QED
    BY <1>1, <2>1, <2>2, <2>3, Thirteen DEF Base
<1>2. CASE v # 10
  BY <1>2, Rungs, Below DEF Base
<1> QED
  BY <1>1, <1>2

\* Names of the ladder stay in it.
LEMMA Laddered ==
  ASSUME NEW t \in 1..13
  PROVE  S!Names(S!Migrations[t]) \subseteq S!Reached(13)
  BY DEF S!Reached

LEMMA AsCounted == \A U : S!Cardinality(U) = Cardinality(U)
  BY Zenon DEF S!Cardinality, Cardinality

\* Listing a finite set names each of its elements once.
LEMMA Listed ==
  ASSUME NEW U, IsFiniteSet(U)
  PROVE  /\ DOMAIN S!SetToSeq(U) = 1..Cardinality(U)
         /\ S!ToSet(S!SetToSeq(U)) = U
         /\ \A i, j \in DOMAIN S!SetToSeq(U) : S!SetToSeq(U)[i] = S!SetToSeq(U)[j] => i = j
<1> DEFINE N == 1..Cardinality(U)
<1>1. Cardinality(U) \in Nat /\ ExistsBijection(N, U)
  BY FS_CardinalityType
<1>2. \E f \in [N -> U] : S!IsInjective(f)
  BY <1>1 DEF ExistsBijection, Bijection, Injection, IsInjective, S!IsInjective
<1>3. S!SetToSeq(U) = CHOOSE f \in [N -> U] : S!IsInjective(f)
  BY AsCounted DEF S!SetToSeq
<1>4. S!SetToSeq(U) \in [N -> U] /\ S!IsInjective(S!SetToSeq(U))
  BY <1>2, <1>3
<1> DEFINE s == S!SetToSeq(U)
<1> HIDE DEF s
<1>5. s \in Injection(N, U)
  BY <1>4 DEF s, Injection, IsInjective, S!IsInjective
<1>6. IsFiniteSet(N) /\ Cardinality(N) = Cardinality(U)
  BY <1>1, FS_Interval
<1>7. s \in Surjection(N, U)
  BY <1>5, <1>6, FS_Injection
<1>8. \A u \in U : \E i \in N : s[i] = u
  BY <1>7 DEF Surjection
<1>9. S!ToSet(s) = U
  BY <1>8, <1>4 DEF S!ToSet, s
<1> QED
  BY <1>4, <1>9 DEF s, S!IsInjective

\* Rows of the tables that carry an identity, counted from the first; no identity twice, each drawn.
Stampings ==
    /\ IsFiniteSet(DOMAIN stamps) /\ minted \in Nat
    /\ \A r \in DOMAIN stamps :
        /\ r = <<r[1], r[2]>> /\ r[1] \in {"events", "lessons"} /\ r[2] \in Nat /\ r[2] < Cardinality(DOMAIN stamps)
        /\ stamps[r] \in {None} \union 1..minted
        /\ \A q \in DOMAIN stamps : r # q /\ stamps[r] = stamps[q] => stamps[r] = None

\* What is on disk at each point of a start.
Climbing ==
    /\ version \in 0..13
    /\ Base(version) \subseteq objects /\ objects \subseteq S!Reached(13)
    /\ {"at", "target", "next", "have", "ids"} \subseteq DOMAIN start
    /\ start.at \in {"off", "step", "stamped", "bump", "heal", "healed", "serving"}
    /\ start.at \in {"step", "stamped", "bump"} => version < 13 /\ start.target = version + 1
    /\ start.at = "step" =>
        /\ start.next \in 1..Len(S!Migrations[start.target]) + 1
        /\ Base(version) \subseteq start.have
        /\ objects = start.have \union {S!Migrations[start.target][i].name : i \in 1..(start.next - 1)}
    /\ start.at \in {"stamped", "bump"} => S!Names(S!Migrations[start.target]) \subseteq objects
    /\ start.at \in {"heal", "healed", "serving"} => version = 13

\* A start that has looked at every row leaves out those that came later.
Looking ==
    /\ start.ids \subseteq DOMAIN stamps
    /\ start.at = "healed" => S!Unstamped \subseteq start.ids \union late
    /\ start.at = "serving" => S!Unstamped \subseteq late

SInv == Stampings /\ Climbing /\ Looking

\* No identity is taken away.
Keeps == \A r \in DOMAIN stamps : stamps[r] # None => r \in DOMAIN stamps' /\ stamps'[r] = stamps[r]

\* Entering a step, whatever its number.
LEMMA Entered ==
  ASSUME NEW v \in 0..13, Base(v) \subseteq objects, objects \subseteq S!Reached(13),
         version' = v, objects' = objects, start' = S!Enter(v + 1)
  PROVE  Climbing' /\ start'.ids = {} /\ start'.at \in {"step", "heal"}
<1>1. CASE v = 13
  <2>1. /\ start'.at = "heal" /\ start'.ids = {}
        /\ {"at", "target", "next", "have", "ids"} \subseteq DOMAIN start'
    BY <1>1, Thirteen DEF S!Enter, S!Off
  <2> QED
    BY <1>1, <2>1 DEF Climbing
<1>2. CASE v < 13
  <2>1. start' = [at |-> "step", target |-> v + 1, next |-> 1, have |-> objects, ids |-> {}]
    BY <1>2, Thirteen DEF S!Enter
  <2>2. 1 \in 1..Len(S!Migrations[v + 1]) + 1
    <3>1. v + 1 \in 1..13
      BY <1>2
    <3>2. Len(S!Migrations[v + 1]) \in Nat
      BY <3>1, Steps
    <3> QED
      BY <3>2
  <2>3. {S!Migrations[v + 1][i].name : i \in 1..(1 - 1)} = {}
    OBVIOUS
  <2> QED
    BY <1>2, <2>1, <2>2, <2>3 DEF Climbing
<1> QED
  BY <1>1, <1>2

LEMMA Statements ==
  ASSUME SInv, S!Statement
  PROVE  SInv'
<1> DEFINE t == start.target
           k == start.next
           st == S!Migrations[t]
<1>1. /\ start.at = "step" /\ k <= Len(st) /\ version < 13 /\ t = version + 1 /\ version \in 0..13
      /\ k \in 1..Len(st) + 1 /\ Base(version) \subseteq start.have
      /\ objects = start.have \union {st[i].name : i \in 1..(k - 1)}
      /\ UNCHANGED <<version, stamps, minted, late>>
      /\ {"at", "target", "next", "have", "ids"} \subseteq DOMAIN start
  BY DEF S!Statement, SInv, Climbing
<1>2. t \in 1..13 /\ t - 1 = version
  BY <1>1
<1>3. Len(st) \in Nat /\ DOMAIN st = 1..Len(st) /\ k \in DOMAIN st
  <2>1. Len(st) \in Nat /\ DOMAIN st = 1..Len(st)
    BY <1>2, Steps
  <2> HIDE DEF st, t
  <2> QED
    BY <1>1, <2>1
<1>4. Sound(st, Base(version))
  BY <1>2, Ladder
<1>5. /\ st[k].on = None \/ st[k].on \in Base(version) \/ \E j \in DOMAIN st : j < k /\ st[j].name = st[k].on
      /\ \A j \in DOMAIN st : j < k => st[j].name # st[k].name
  BY <1>3, <1>4 DEF Sound
<1>6. st[k].on = None \/ st[k].on \in objects
  BY <1>1, <1>3, <1>5
<1>7. st[k].name \in objects => st[k].name \in start.have
  <2> HIDE DEF st, t
  <2>1. \A i \in 1..(k - 1) : i \in DOMAIN st /\ i < k
    BY <1>1, <1>3
  <2>2. st[k].name \notin {st[i].name : i \in 1..(k - 1)}
    BY <1>5, <2>1
  <2> QED
    BY <1>1, <2>2
<1>8. ~S!Fails(st[k])
  BY <1>6, <1>7 DEF S!Fails
<1>9. objects' = objects \union {st[k].name} /\ start' = [start EXCEPT !.next = @ + 1]
  BY <1>8 DEF S!Statement
<1>10. /\ start'.at = start.at /\ start'.target = start.target /\ start'.have = start.have /\ start'.ids = start.ids
       /\ start'.next = k + 1 /\ DOMAIN start' = DOMAIN start
  BY <1>1, <1>9
<1>11. st[k].name \in S!Reached(13)
  BY <1>2, <1>3, Laddered DEF S!Names
<1>12. start'.next \in 1..Len(st) + 1
  <2> HIDE DEF st, t
  <2> QED
    BY <1>1, <1>3, <1>10
<1>13. objects' = start.have \union {st[i].name : i \in 1..(start'.next - 1)}
  <2> HIDE DEF st, t
  <2>1. 1..(start'.next - 1) = 1..(k - 1) \union {k}
    BY <1>1, <1>3, <1>10
  <2> QED
    BY <1>1, <1>9, <2>1
<1>14. Climbing'
  BY <1>1, <1>9, <1>10, <1>11, <1>12, <1>13 DEF SInv, Climbing
<1> QED
  BY <1>1, <1>9, <1>10, <1>14 DEF SInv, Stampings, Looking, S!Unstamped

LEMMA Reads ==
  ASSUME SInv, S!BackfillRead
  PROVE  SInv'
<1>1. /\ UNCHANGED <<version, objects, stamps, minted>> /\ start.at \in {"step", "heal"}
      /\ {"at", "target", "next", "have", "ids"} \subseteq DOMAIN start
  BY DEF S!BackfillRead, SInv, Climbing
<1>2. /\ start'.at = (IF start.at = "heal" THEN "healed" ELSE "stamped")
      /\ start'.target = start.target /\ DOMAIN start' = DOMAIN start
      /\ start'.ids = {r \in S!Unstamped : r[1] \in (IF start.at = "heal" THEN {"events", "lessons"}
                                                     ELSE S!Backfilled(start.target))}
  BY <1>1 DEF S!BackfillRead
<1>3. start.at = "step" => S!Names(S!Migrations[start.target]) \subseteq objects
  <2> SUFFICES ASSUME start.at = "step" PROVE S!Names(S!Migrations[start.target]) \subseteq objects
    OBVIOUS
  <2> DEFINE st == S!Migrations[start.target]
  <2>1. /\ start.next > Len(st) /\ start.next \in 1..Len(st) + 1
        /\ objects = start.have \union {st[i].name : i \in 1..(start.next - 1)}
    BY DEF S!BackfillRead, SInv, Climbing
  <2>2. start.target \in 1..13
    BY DEF SInv, Climbing
  <2>3. Len(st) \in Nat /\ DOMAIN st = 1..Len(st)
    BY <2>2, Steps
  <2> HIDE DEF st
  <2>4. DOMAIN st = 1..(start.next - 1)
    BY <2>1, <2>3
  <2>5. S!Names(st) \subseteq objects
    BY <2>1, <2>4 DEF S!Names
  <2> QED
    BY <2>5 DEF st
<1>4. Climbing'
  BY <1>1, <1>2, <1>3 DEF SInv, Climbing
<1>5. start.at = "heal" => S!Unstamped \subseteq start'.ids
  BY <1>2 DEF SInv, Stampings, S!Unstamped
<1>6. Looking'
  BY <1>1, <1>2, <1>5 DEF Looking, S!Unstamped
<1> QED
  BY <1>1, <1>4, <1>6 DEF SInv, Stampings

\* The backfill draws a new identity for each row it read that has none yet.
LEMMA Draws ==
  ASSUME SInv, None \notin Nat, S!BackfillCommit
  PROVE  /\ DOMAIN stamps' = DOMAIN stamps /\ minted' \in Nat /\ minted <= minted'
         /\ \A r \in DOMAIN stamps : r \notin start.ids \intersect S!Unstamped => stamps'[r] = stamps[r]
         /\ \A r \in start.ids \intersect S!Unstamped :
                /\ stamps'[r] \in (minted + 1)..minted'
                /\ \A q \in start.ids \intersect S!Unstamped : stamps'[r] = stamps'[q] => r = q
<1> DEFINE U == start.ids \intersect S!Unstamped
           s == S!SetToSeq(U)
           At(r) == CHOOSE i \in DOMAIN s : s[i] = r
<1>1. stamps' = S!Stamped(start.ids) /\ minted' = minted + Cardinality(start.ids)
  BY AsCounted DEF S!BackfillCommit
<1>2. IsFiniteSet(start.ids) /\ IsFiniteSet(U) /\ Cardinality(U) <= Cardinality(start.ids) /\ minted \in Nat
  BY FS_Subset DEF SInv, Stampings, Looking
<1>3. Cardinality(U) \in Nat /\ Cardinality(start.ids) \in Nat
  BY <1>2, FS_CardinalityType
<1>4. /\ DOMAIN s = 1..Cardinality(U) /\ S!ToSet(s) = U
      /\ \A i, j \in DOMAIN s : s[i] = s[j] => i = j
  BY <1>2, Listed
<1>5. stamps' = [r \in DOMAIN stamps |-> IF r \in S!ToSet(s) THEN minted + At(r) ELSE stamps[r]]
  BY <1>1 DEF S!Stamped
<1>6. \A r \in U : At(r) \in DOMAIN s /\ s[At(r)] = r
  BY <1>4 DEF S!ToSet
<1> HIDE DEF At, s
<1>7. \A r \in U : stamps'[r] = minted + At(r) /\ At(r) \in 1..Cardinality(U)
  BY <1>4, <1>5, <1>6 DEF S!Unstamped
<1> HIDE DEF U
<1>8. \A r \in U : stamps'[r] \in (minted + 1)..minted'
  BY <1>1, <1>2, <1>3, <1>7
<1>9. \A r, q \in U : stamps'[r] = stamps'[q] => r = q
  BY <1>2, <1>6, <1>7
<1>10. \A r \in DOMAIN stamps : r \notin U => stamps'[r] = stamps[r]
  BY <1>4, <1>5
<1> QED
  BY <1>1, <1>2, <1>3, <1>5, <1>8, <1>9, <1>10 DEF U

LEMMA Backfills ==
  ASSUME SInv, None \notin Nat, S!BackfillCommit
  PROVE  SInv' /\ Keeps
<1> DEFINE U == start.ids \intersect S!Unstamped
<1>1. /\ DOMAIN stamps' = DOMAIN stamps /\ minted' \in Nat /\ minted <= minted' /\ minted \in Nat
      /\ \A r \in DOMAIN stamps : r \notin U => stamps'[r] = stamps[r]
      /\ \A r \in U : /\ stamps'[r] \in (minted + 1)..minted'
                       /\ \A q \in U : stamps'[r] = stamps'[q] => r = q
  BY Draws DEF SInv, Stampings
<1>2. ASSUME NEW r \in DOMAIN stamps PROVE stamps'[r] \in {None} \union 1..minted'
  BY <1>1 DEF SInv, Stampings
<1>3. ASSUME NEW r \in DOMAIN stamps, NEW q \in DOMAIN stamps, r # q, stamps'[r] = stamps'[q]
      PROVE  stamps'[r] = None
  <2>1. CASE r \in U /\ q \in U
    BY <1>1, <1>3, <2>1
  <2>2. CASE r \notin U /\ q \notin U
    BY <1>1, <1>3, <2>2 DEF SInv, Stampings
  <2>3. ASSUME NEW x \in U, NEW y \in DOMAIN stamps, y \notin U PROVE stamps'[x] # stamps'[y]
    <3>1. stamps'[y] = stamps[y] /\ stamps[y] \in {None} \union 1..minted /\ stamps'[x] \in (minted + 1)..minted'
      BY <1>1, <2>3 DEF SInv, Stampings
    <3> QED
      BY <1>1, <3>1
  <2> QED
    BY <1>3, <2>1, <2>2, <2>3
<1>4. Stampings'
  BY <1>1, <1>2, <1>3 DEF SInv, Stampings
<1>5. Keeps
  BY <1>1 DEF Keeps, S!Unstamped
<1>6. /\ start.at \in {"stamped", "healed"} /\ UNCHANGED <<version, objects, late>>
      /\ start'.at = (IF start.at = "healed" THEN "serving" ELSE "bump")
      /\ start'.target = start.target /\ start'.ids = start.ids /\ DOMAIN start' = DOMAIN start
  BY DEF S!BackfillCommit, SInv, Climbing
<1>7. Climbing'
  BY <1>6 DEF SInv, Climbing
<1>8. S!Unstamped' \subseteq S!Unstamped \ start.ids
  <2>1. \A r \in U : stamps'[r] # None
    BY <1>1
  <2> QED
    BY <1>1, <2>1 DEF S!Unstamped
<1>9. Looking'
  BY <1>1, <1>6, <1>8 DEF SInv, Looking
<1> QED
  BY <1>4, <1>5, <1>7, <1>9 DEF SInv

LEMMA Bumps ==
  ASSUME SInv, S!BumpVersion
  PROVE  SInv'
<1>1. /\ start.at = "bump" /\ version \in 0..12 /\ start.target = version + 1
      /\ S!Names(S!Migrations[version + 1]) \subseteq objects
      /\ Base(version) \subseteq objects /\ objects \subseteq S!Reached(13)
  BY DEF S!BumpVersion, SInv, Climbing
<1>2. version' = version + 1 /\ start' = S!Enter((version + 1) + 1) /\ UNCHANGED <<objects, stamps, minted, late>>
  BY <1>1 DEF S!BumpVersion
<1>3. version + 1 \in 0..13 /\ Base(version + 1) \subseteq objects
  BY <1>1, Climb
<1>4. Climbing' /\ start'.ids = {} /\ start'.at \in {"step", "heal"}
  BY <1>1, <1>2, <1>3, Entered
<1> QED
  BY <1>2, <1>4 DEF SInv, Stampings, Looking

LEMMA Enters ==
  ASSUME SInv, S!InitDb
  PROVE  SInv'
<1>1. /\ start' = S!Enter(version + 1) /\ UNCHANGED <<version, objects, stamps, minted>>
      /\ version \in 0..13 /\ Base(version) \subseteq objects /\ objects \subseteq S!Reached(13)
  BY DEF S!InitDb, SInv, Climbing
<1>2. Climbing' /\ start'.ids = {} /\ start'.at \in {"step", "heal"}
  BY <1>1, Entered
<1> QED
  BY <1>1, <1>2 DEF SInv, Stampings, Looking

LEMMA Inserts ==
  ASSUME SInv, None \notin Nat, NEW i \in S!Identities, S!Insert(i)
  PROVE  SInv' /\ Keeps
<1> DEFINE row == <<i[1], Cardinality(DOMAIN stamps)>>
<1>1. i[1] \in {"events", "lessons"}
  BY DEF S!Identities
<1>2. IsFiniteSet(DOMAIN stamps) /\ Cardinality(DOMAIN stamps) \in Nat /\ minted \in Nat
  BY FS_CardinalityType DEF SInv, Stampings
<1>3. row \notin DOMAIN stamps /\ row[1] = i[1] /\ row[2] = Cardinality(DOMAIN stamps) /\ row = <<row[1], row[2]>>
  BY <1>2 DEF SInv, Stampings
<1>4. PICK id \in {None, minted + 1} :
         /\ stamps' = [r \in DOMAIN stamps \union {row} |-> IF r = row THEN id ELSE stamps[r]]
         /\ id = None => minted' = minted /\ late' = late \union {row}
         /\ id # None => minted' = minted + 1 /\ late' = late
  BY <1>2, AsCounted DEF S!Insert
<1> HIDE DEF row
<1>5. /\ DOMAIN stamps' = DOMAIN stamps \union {row} /\ stamps'[row] = id
      /\ \A r \in DOMAIN stamps : r # row /\ stamps'[r] = stamps[r]
  BY <1>3, <1>4
<1>6. IsFiniteSet(DOMAIN stamps') /\ Cardinality(DOMAIN stamps') = Cardinality(DOMAIN stamps) + 1
  BY <1>2, <1>3, <1>5, FS_AddElement
<1>7. minted' \in Nat /\ minted <= minted' /\ (id # None => id = minted + 1 /\ minted' = minted + 1)
  BY <1>2, <1>4
<1>8. ASSUME NEW r \in DOMAIN stamps'
      PROVE  /\ r = <<r[1], r[2]>> /\ r[1] \in {"events", "lessons"}
             /\ r[2] \in Nat /\ r[2] < Cardinality(DOMAIN stamps')
             /\ stamps'[r] \in {None} \union 1..minted'
  <2>1. CASE r = row
    BY <1>1, <1>2, <1>3, <1>5, <1>6, <1>7, <2>1
  <2>2. CASE r \in DOMAIN stamps
    BY <1>2, <1>5, <1>6, <1>7, <2>2 DEF SInv, Stampings
  <2> QED
    BY <1>5, <2>1, <2>2
<1>9. ASSUME NEW r \in DOMAIN stamps', NEW q \in DOMAIN stamps', r # q, stamps'[r] = stamps'[q]
      PROVE  stamps'[r] = None
  <2>1. CASE r \in DOMAIN stamps /\ q \in DOMAIN stamps
    BY <1>5, <1>9, <2>1 DEF SInv, Stampings
  <2>2. ASSUME NEW x \in DOMAIN stamps, id # None PROVE stamps'[x] # id
    BY <1>2, <1>5, <1>7, <2>2 DEF SInv, Stampings
  <2> QED
    BY <1>5, <1>9, <2>1, <2>2
<1>10. Stampings'
  BY <1>6, <1>7, <1>8, <1>9 DEF Stampings
<1>11. UNCHANGED <<version, objects, start>>
  BY DEF S!Insert
<1>12. S!Unstamped' = S!Unstamped \union (IF id = None THEN {row} ELSE {})
  BY <1>5 DEF S!Unstamped
<1>13. Looking'
  BY <1>4, <1>5, <1>11, <1>12 DEF SInv, Looking
<1>14. Climbing'
  BY <1>11 DEF SInv, Climbing
<1>15. Keeps
  BY <1>5 DEF Keeps
<1> QED
  BY <1>10, <1>13, <1>14, <1>15 DEF SInv

LEMMA SchemaStep ==
  ASSUME SInv, None \notin Nat, S!Next
  PROVE  SInv' /\ Keeps
<1>1. CASE S!InitDb
  BY <1>1, Enters DEF S!InitDb, Keeps
<1>2. CASE S!Statement
  BY <1>2, Statements DEF S!Statement, Keeps
<1>3. CASE S!BackfillRead
  BY <1>3, Reads DEF S!BackfillRead, Keeps
<1>4. CASE S!BackfillCommit
  BY <1>4, Backfills
<1>5. CASE S!BumpVersion
  BY <1>5, Bumps DEF S!BumpVersion, Keeps
<1>6. CASE \E i \in S!Identities : S!Insert(i)
  BY <1>6, Inserts
<1>7. CASE S!OldStops
  BY <1>7 DEF S!OldStops, Keeps, SInv, Stampings, Climbing, Looking, S!Unstamped
<1>8. CASE S!Stop
  <2>1. UNCHANGED <<version, objects, stamps, minted, late>> /\ start' = S!Off
    BY <1>8 DEF S!Stop
  <2> QED
    BY <2>1 DEF S!Off, Keeps, SInv, Stampings, Climbing, Looking
<1> QED
  BY <1>1, <1>2, <1>3, <1>4, <1>5, <1>6, <1>7, <1>8 DEF S!Next

LEMMA Serves ==
  ASSUME SInv
  PROVE  S!Converged
<1>1. start.at # "failed"
  BY DEF SInv, Climbing
<1>2. start.at = "serving" => objects = S!Reached(13) /\ version = 13 /\ S!Unstamped \subseteq late
  <2>1. start.at = "serving" => version = 13 /\ Base(version) \subseteq objects /\ objects \subseteq S!Reached(13)
    BY DEF SInv, Climbing
  <2>2. Base(13) = S!Reached(13)
    BY DEF Base
  <2>3. start.at = "serving" => S!Unstamped \subseteq late
    BY DEF SInv, Looking
  <2> QED
    BY <2>1, <2>2, <2>3
<1>3. \A r, s \in DOMAIN stamps : r # s /\ stamps[r] = stamps[s] => stamps[r] = None
  BY DEF SInv, Stampings
<1> QED
  BY <1>1, <1>2, <1>3, Thirteen DEF S!Converged

\* A database of any age is one that some start left.
LEMMA Aged ==
  ASSUME S!Init, None \notin Nat
  PROVE  SInv
<1>1. PICK a \in S!Ages : a.v < S!Latest /\ version = a.v /\ objects = a.has
  BY DEF S!Init
<1>2. version \in 0..12 /\ Base(version) \subseteq objects /\ objects \subseteq S!Reached(13)
  <2>1. CASE \E v \in 0..(S!Latest - 1), k \in 0..4 :
               a = [v |-> v, has |-> S!Reached(v) \union
                      {S!Migrations[v + 1][i].name : i \in 1..k \intersect DOMAIN S!Migrations[v + 1]}]
    <3>1. PICK v \in 0..12, k \in 0..4 :
             version = v /\ objects = S!Reached(v) \union
                      {S!Migrations[v + 1][i].name : i \in 1..k \intersect DOMAIN S!Migrations[v + 1]}
      BY <1>1, <2>1, Thirteen
    <3>2. {S!Migrations[v + 1][i].name : i \in 1..k \intersect DOMAIN S!Migrations[v + 1]}
             \subseteq S!Names(S!Migrations[v + 1])
      BY DEF S!Names
    <3>3. v + 1 \in 1..13 /\ v \in Nat /\ v + 1 \in Nat
      OBVIOUS
    <3>4. S!Names(S!Migrations[v + 1]) \subseteq S!Reached(13)
      BY <3>3, Laddered
    <3>5. S!Reached(v) \subseteq S!Reached(13) /\ Base(v) \subseteq S!Reached(v)
      BY <3>3, Below DEF Base
    <3> QED
      BY <3>1, <3>2, <3>4, <3>5
  <2>2. CASE a = [v |-> 10, has |-> S!Reached(9) \union S!Names(S!UidStep)]
    <3>1. version = 10 /\ objects = S!Reached(9) \union S!Names(S!UidStep)
      BY <1>1, <2>2
    <3>2. S!Names(S!UidStep) \subseteq S!Names(S!SchemaV11)
      BY DEF S!Names, S!UidStep, S!SchemaV11
    <3>3. S!Names(S!SchemaV11) \subseteq S!Reached(13) /\ S!Reached(9) \subseteq S!Reached(13)
      BY Thirteen, Laddered, Below
    <3> QED
      BY <3>1, <3>2, <3>3 DEF Base
  <2> QED
    BY <2>1, <2>2 DEF S!Ages
<1>3. start = S!Off /\ minted = 2
  BY DEF S!Init
<1>4. Climbing /\ Looking
  <2>1. start.at = "off" /\ start.ids = {} /\ {"at", "target", "next", "have", "ids"} \subseteq DOMAIN start
    BY <1>3 DEF S!Off
  <2>2. Climbing
    BY <1>2, <2>1 DEF Climbing
  <2> QED
    BY <2>1, <2>2 DEF Looking
<1>5. PICK held \in SUBSET {<<"events", 0>>, <<"lessons", 0>>} :
         \E bare \in SUBSET held :
            stamps = [r \in held |-> IF r \in bare THEN None ELSE IF r[1] = "events" THEN 1 ELSE 2]
  <2> DEFINE kept == {<<j[1], 0>> : j \in {k \in S!Identities : k[1] \in objects}}
  <2>1. kept \subseteq {<<"events", 0>>, <<"lessons", 0>>}
    BY DEF S!Identities
  <2>2. \E bare \in SUBSET kept :
          stamps = [r \in kept |-> IF r \in bare THEN None ELSE IF r[1] = "events" THEN 1 ELSE 2]
    BY DEF S!Init
  <2> QED
    BY <2>1, <2>2
<1>6. IsFiniteSet(held)
  <2>1. IsFiniteSet({<<"events", 0>>}) /\ IsFiniteSet({<<"events", 0>>} \union {<<"lessons", 0>>})
    BY FS_Singleton, FS_AddElement
  <2>2. held \subseteq {<<"events", 0>>} \union {<<"lessons", 0>>}
    OBVIOUS
  <2> QED
    BY <2>1, <2>2, FS_Subset
<1>7. held # {} => Cardinality(held) > 0
  BY <1>6, FS_EmptySet, FS_CardinalityType
<1>8. DOMAIN stamps = held
  BY <1>5
<1>9. \A r \in held : r = <<r[1], r[2]>> /\ r[1] \in {"events", "lessons"} /\ r[2] = 0 /\ 0 < Cardinality(held)
  BY <1>6, <1>7, FS_CardinalityType
<1>10. Stampings
  BY <1>3, <1>5, <1>6, <1>8, <1>9 DEF Stampings
<1> QED
  BY <1>4, <1>10 DEF SInv

\* db.py, init_db: from a database of any age, a start cut short anywhere or an
\* older process still writing, no start fails on what an earlier one left, one
\* that serves has the whole schema and an identity on every row but those that
\* came late, no two rows share an identity, and no row loses the one it has.
THEOREM StartsConverge == PlannerSpec => SchemaConverges
<1>0. None \notin Nat
  BY PlannerConstants DEF Boardly
<1> USE <1>0
<1> DEFINE Upgrading == scene = "schema" => SInv
<1>1. PlannerInit => Upgrading
  BY Aged DEF PlannerInit
<1>2. ASSUME Upgrading, [PlannerNext]_<<scene, ledger, board, calendar, vars, schema, views, pages>>
      PROVE  Upgrading' /\ [S!Converges]_(S!vars)
  <2>1. CASE scene = "schema" /\ S!Next /\ UNCHANGED scene
    <3>1. SInv' /\ Keeps
      BY <1>2, <2>1, SchemaStep
    <3>2. S!Converged'
      BY <3>1, Serves, PTL
    <3> QED
      BY <3>1, <3>2 DEF Keeps, S!Converges
  <2>2. CASE UNCHANGED <<scene, schema>>
    BY <1>2, <2>2 DEF schema, S!vars, SInv, Stampings, Climbing, Looking, S!Unstamped
  <2>3. CASE scene # "schema" /\ UNCHANGED <<scene, schema>>
    BY <2>3 DEF schema, S!vars
  <2> QED
    BY <1>2, <2>1, <2>2, <2>3 DEF PlannerNext
<1> HIDE DEF Upgrading
<1> QED
  BY <1>1, <1>2, PTL DEF PlannerSpec, SchemaConverges, S!SchemaConverges
-----------------------------------------------------------------------------
(* Types: handlers at work, and how many there may be *)

\* A handler set loses a handler, gains one, or has one go on.
LEMMA Handlers ==
  ASSUME NEW U, IsFiniteSet(U), NEW x
  PROVE  /\ IsFiniteSet(U \union {x}) /\ Cardinality(U \union {x}) <= Cardinality(U) + 1
         /\ IsFiniteSet(U \ {x}) /\ Cardinality(U \ {x}) <= Cardinality(U)
         /\ x \in U => /\ Cardinality(U \ {x}) = Cardinality(U) - 1
                       /\ \A y : /\ IsFiniteSet((U \ {x}) \union {y})
                                 /\ Cardinality((U \ {x}) \union {y}) <= Cardinality(U)
         /\ Cardinality(U) \in Nat /\ Cardinality(U \union {x}) \in Nat /\ Cardinality(U \ {x}) \in Nat
<1>1. /\ IsFiniteSet(U \union {x}) /\ Cardinality(U \union {x}) <= Cardinality(U) + 1
      /\ Cardinality(U) \in Nat /\ Cardinality(U \union {x}) \in Nat
  BY FS_AddElement, FS_CardinalityType
<1>2. /\ IsFiniteSet(U \ {x}) /\ Cardinality(U \ {x}) <= Cardinality(U)
      /\ x \in U => Cardinality(U \ {x}) = Cardinality(U) - 1
      /\ Cardinality(U \ {x}) \in Nat
  <2>1. IsFiniteSet(U \ {x}) /\ Cardinality(U \ {x}) = IF x \in U THEN Cardinality(U) - 1 ELSE Cardinality(U)
    BY FS_RemoveElement
  <2>2. Cardinality(U \ {x}) \in Nat
    BY <2>1, FS_CardinalityType
  <2> QED
    BY <1>1, <2>1, <2>2
<1>3. ASSUME x \in U, NEW y PROVE /\ IsFiniteSet((U \ {x}) \union {y})
                                 /\ Cardinality((U \ {x}) \union {y}) <= Cardinality(U)
  <2>1. /\ IsFiniteSet((U \ {x}) \union {y})
        /\ Cardinality((U \ {x}) \union {y}) \in {Cardinality(U \ {x}), Cardinality(U \ {x}) + 1}
    BY <1>2, FS_AddElement
  <2> QED
    BY <1>1, <1>2, <1>3, <2>1
<1> QED
  BY <1>1, <1>2, <1>3

\* How many handlers may be at work when n things are written and m is the bound.
Room(n, U, m) == n \in Nat /\ IsFiniteSet(U) /\ n + Cardinality(U) <= m

LEMMA RoomKept ==
  ASSUME NEW n, NEW U, NEW m \in Nat, Room(n, U, m)
  PROVE  /\ n <= m /\ Room(n, {}, m)
         /\ \A x : n + Cardinality(U) < m => Room(n, U \union {x}, m)
         /\ \A x : Room(n, U \ {x}, m)
         /\ \A x \in U : n + 1 <= m /\ Room(n + 1, U \ {x}, m) /\ \A y : Room(n, (U \ {x}) \union {y}, m)
         /\ n + Cardinality(U) < m => Room(n + 1, U, m)
<1>1. n \in Nat /\ IsFiniteSet(U) /\ n + Cardinality(U) <= m /\ Cardinality(U) \in Nat
  BY FS_CardinalityType DEF Room
<1>2. IsFiniteSet({}) /\ Cardinality({}) = 0
  BY FS_EmptySet
<1>3. n <= m /\ Room(n, {}, m)
  BY <1>1, <1>2 DEF Room
<1>4. ASSUME NEW x, n + Cardinality(U) < m PROVE Room(n, U \union {x}, m)
  <2>1. /\ IsFiniteSet(U \union {x}) /\ Cardinality(U \union {x}) \in Nat
        /\ Cardinality(U \union {x}) <= Cardinality(U) + 1
    BY <1>1, Handlers
  <2> QED
    BY <1>1, <1>4, <2>1 DEF Room
<1>5. ASSUME NEW x PROVE Room(n, U \ {x}, m)
  BY <1>1, Handlers DEF Room
<1>6. ASSUME NEW x \in U PROVE n + 1 <= m /\ Room(n + 1, U \ {x}, m) /\ \A y : Room(n, (U \ {x}) \union {y}, m)
  <2>1. /\ IsFiniteSet(U \ {x}) /\ Cardinality(U \ {x}) = Cardinality(U) - 1 /\ Cardinality(U \ {x}) \in Nat
        /\ \A y : /\ IsFiniteSet((U \ {x}) \union {y})
                  /\ Cardinality((U \ {x}) \union {y}) <= Cardinality(U)
    BY <1>1, <1>6, Handlers
  <2>2. n + 1 <= m /\ Room(n + 1, U \ {x}, m)
    BY <1>1, <2>1 DEF Room
  <2>3. ASSUME NEW y PROVE Room(n, (U \ {x}) \union {y}, m)
    <3>1. IsFiniteSet((U \ {x}) \union {y}) /\ Cardinality((U \ {x}) \union {y}) <= Cardinality(U)
      BY <2>1
    <3>2. Cardinality((U \ {x}) \union {y}) \in Nat
      BY <3>1, FS_CardinalityType
    <3> QED
      BY <1>1, <3>1, <3>2 DEF Room
  <2> QED
    BY <2>2, <2>3
<1>7. n + Cardinality(U) < m => Room(n + 1, U, m)
  BY <1>1 DEF Room
<1> QED
  BY <1>3, <1>4, <1>5, <1>6, <1>7

-----------------------------------------------------------------------------
(* Types: habits *)

CheckRows == [status : HabitStatuses, note : Words \union {None}, row : 1..MaxLog]
TapOf(op, statuses, given) == [op : {op}, id : 1..MaxItems, day : HabitDays, status : statuses, note : given]

\* What a handler asks for, and the row it read.
TapTyped(call) ==
    /\ call.q.op = "tap" => call.q \in TapOf("tap", HabitStatuses, {None})
    /\ call.q.op = "set" => /\ call.q \in TapOf("set", HabitStatuses \union {None}, Words \union {None})
                            /\ call.seen \in CheckRows \union {None}
                            /\ call.seen = None => call.q.status \in HabitStatuses
    /\ call.q.op = "note" => call.q.day \in HabitDays /\ call.q.text \in Words

HTypes ==
    /\ Room(Len(log), taps, MaxLog)
    /\ nextId \in Nat \ {0} /\ DOMAIN items \subseteq 1..(nextId - 1)
    /\ \A k \in DOMAIN checks : k[1] \in HabitDays /\ checks[k] \in CheckRows
    /\ DOMAIN notes \subseteq HabitDays /\ \A d \in DOMAIN notes : notes[d] \in Words
    /\ \A call \in taps : TapTyped(call)

LEMMA HabitsTyped ==
  ASSUME Bounded, HInv, HTypes, [H!Next]_(H!vars)
  PROVE  HTypes'
<1>0. MaxLog \in Nat /\ Len(log) \in Nat /\ log \in Seq({log[i] : i \in DOMAIN log})
  BY DEF Bounded, HInv, Replays
<1>1. ASSUME NEW q \in H!HabitEdits \union H!ItemEdits \union H!HabitRetirements \union H!ItemRetirements
                         \union H!Checkins \union H!DailyNotes, H!Begin(q)
      PROVE  HTypes'
  <2> DEFINE new == [by |-> H!Min(H!Threads), q |-> q, seen |-> H!Read(q)]
  <2>1. taps' = taps \union {new} /\ UNCHANGED <<items, checks, notes, nextId, log>>
    BY <1>1 DEF H!Begin
  <2>2. Len(log) + Cardinality(taps) < MaxLog
    <3>1. H!Cardinality(taps) = Cardinality(taps)
      BY Zenon DEF H!Cardinality, Cardinality
    <3> QED
      BY <1>1, <3>1 DEF H!Begin, H!Free
  <2>3. TapTyped(new)
    <3>1. new.q = q /\ new.seen = H!Read(q)
      OBVIOUS
    <3> HIDE DEF new
    <3>2. q.op = "tap" => q \in TapOf("tap", HabitStatuses, {None})
      BY DEF H!HabitEdits, H!ItemEdits, H!HabitRetirements, H!ItemRetirements, H!Checkins, H!DailyNotes, TapOf
    <3>3. ASSUME q.op = "set" PROVE /\ q \in TapOf("set", HabitStatuses \union {None}, Words \union {None})
                                   /\ H!Read(q) \in CheckRows /\ H!Read(q) # None
      <4>1. q \in [op : {"set"}, id : 1..MaxItems, day : HabitDays, status : {None}, note : Words]
        BY <3>3 DEF H!HabitEdits, H!ItemEdits, H!HabitRetirements, H!ItemRetirements, H!Checkins, H!DailyNotes
      <4>2. H!Read(q) = H!CheckRow(q) /\ H!CheckRow(q) # None
        BY <1>1, <3>3 DEF H!Begin, H!Read
      <4>3. H!CheckRow(q) \in CheckRows
        BY <4>2 DEF H!CheckRow, HTypes
      <4> QED
        BY <4>1, <4>2, <4>3 DEF TapOf
    <3>4. q.op = "note" => q.day \in HabitDays /\ q.text \in Words
      BY DEF H!HabitEdits, H!ItemEdits, H!HabitRetirements, H!ItemRetirements, H!Checkins, H!DailyNotes
    <3> QED
      BY <3>1, <3>2, <3>3, <3>4 DEF TapTyped
  <2> HIDE DEF new
  <2>4. Room(Len(log), taps', MaxLog)
    BY <1>0, <2>1, <2>2, RoomKept DEF HTypes
  <2> QED
    BY <2>1, <2>3, <2>4 DEF HTypes, TapTyped, CheckRows, TapOf
<1>2. ASSUME NEW call \in taps, H!Decide(call) PROVE HTypes'
  <2>1. UNCHANGED <<items, checks, notes, nextId, log>> /\ call.q.op = "tap"
    BY <1>2 DEF H!Decide
  <2>2. PICK clears \in BOOLEAN : clears = (call.seen # None /\ call.seen.status = call.q.status)
    OBVIOUS
  <2>3. PICK q : q = [call.q EXCEPT !.op = IF clears THEN "clear" ELSE "set"]
    OBVIOUS
  <2>4. PICK then : then = [call EXCEPT !.q = q, !.seen = H!CheckRow(q)]
    OBVIOUS
  <2>5. taps' = taps \ {call} \/ taps' = (taps \ {call}) \union {then}
    <3>1. PICK gone \in BOOLEAN : gone = (q.id \notin DOMAIN items \/ (clears /\ H!CheckRow(q) = None))
      OBVIOUS
    <3>2. taps' = (taps \ {call}) \union (IF gone THEN {} ELSE {then})
      BY <1>2, <2>2, <2>3, <2>4, <3>1 DEF H!Decide
    <3> QED
      BY <3>2
  <2>6. TapTyped(then)
    <3>1. call.q \in TapOf("tap", HabitStatuses, {None})
      BY <2>1 DEF HTypes, TapTyped
    <3>2. "q" \in DOMAIN call /\ "seen" \in DOMAIN call
      BY DEF HInv, Tables, HandlerHonest
    <3>3. then.q = q /\ then.seen = H!CheckRow(q)
      BY <2>4, <3>2
    <3>4. q.op \in {"clear", "set"} /\ q \in TapOf(q.op, HabitStatuses, {None})
      BY <2>3, <3>1 DEF TapOf
    <3>5. q.op = "set" => q \in TapOf("set", HabitStatuses \union {None}, Words \union {None})
      BY <3>4 DEF TapOf
    <3>6. q.status \in HabitStatuses
      BY <3>4 DEF TapOf
    <3>7. H!CheckRow(q) \in CheckRows \union {None}
      BY DEF H!CheckRow, HTypes
    <3> QED
      BY <3>3, <3>4, <3>5, <3>6, <3>7 DEF TapTyped
  <2>7. Room(Len(log), taps', MaxLog)
    <3>1. Room(Len(log), taps, MaxLog)
      BY DEF HTypes
    <3>2. Room(Len(log), taps \ {call}, MaxLog) /\ Room(Len(log), (taps \ {call}) \union {then}, MaxLog)
      BY <1>0, <1>2, <3>1, RoomKept
    <3> QED
      BY <2>5, <3>2
  <2> QED
    BY <2>1, <2>5, <2>6, <2>7 DEF HTypes, TapTyped, CheckRows, TapOf
\* An item more.
<1>3. ASSUME NEW row, items' = H!Put(items, nextId, row), nextId' = nextId + 1, UNCHANGED <<checks, notes>>
      PROVE  nextId' \in Nat \ {0} /\ DOMAIN items' \subseteq 1..(nextId' - 1)
  BY <1>3 DEF H!Put, HTypes
<1>4. ASSUME NEW e, log' = Append(log, e) PROVE Len(log') = Len(log) + 1
  BY <1>0, <1>4
<1>5. ASSUME NEW title, NEW attrs, H!Create(title, attrs) PROVE HTypes'
  <2>1. UNCHANGED <<checks, notes, taps>> /\ Len(log') = Len(log) + 1
    BY <1>4, <1>5 DEF H!Create, H!Journal
  <2>2. Len(log) + Cardinality(taps) < MaxLog
    <3>1. H!Cardinality(taps) = Cardinality(taps)
      BY Zenon DEF H!Cardinality, Cardinality
    <3> QED
      BY <1>5, <3>1 DEF H!Create, H!Free
  <2>3. Room(Len(log'), taps', MaxLog)
    BY <1>0, <2>1, <2>2, RoomKept DEF HTypes
  <2>4. nextId' \in Nat \ {0} /\ DOMAIN items' \subseteq 1..(nextId' - 1)
    BY <1>3, <1>5 DEF H!Create
  <2> QED
    BY <2>1, <2>3, <2>4 DEF HTypes, TapTyped, CheckRows, TapOf
<1>6. CASE H!Restart
  <2>1. taps' = {} /\ UNCHANGED <<checks, notes>>
    BY <1>6 DEF H!Restart
  <2>2. CASE UNCHANGED <<items, nextId, log>>
    <3>1. Room(Len(log'), taps', MaxLog)
      BY <1>0, <2>1, <2>2, RoomKept DEF HTypes
    <3> QED
      BY <2>1, <2>2, <3>1 DEF HTypes, CheckRows
  <2>3. CASE ~UNCHANGED <<items, nextId, log>>
    <3>1. Len(log) < MaxLog
      BY <1>6, <2>3 DEF H!Restart
    <3>2. PICK row, e : items' = H!Put(items, nextId, row) /\ nextId' = nextId + 1 /\ log' = Append(log, e)
      BY <1>6, <2>3 DEF H!Restart, H!Journal
    <3>3. Len(log') = Len(log) + 1
      BY <1>4, <3>2
    <3>4. IsFiniteSet({}) /\ Cardinality({}) = 0
      BY FS_EmptySet
    <3>5. Room(Len(log'), taps', MaxLog)
      BY <1>0, <2>1, <3>1, <3>3, <3>4 DEF Room
    <3>6. nextId' \in Nat \ {0} /\ DOMAIN items' \subseteq 1..(nextId' - 1)
      BY <1>3, <2>1, <3>2
    <3> QED
      BY <2>1, <3>5, <3>6 DEF HTypes, CheckRows
  <2> QED
    BY <2>2, <2>3
<1>7. ASSUME NEW call \in taps, H!Commit(call) PROVE HTypes'
  <2>1. taps' = taps \ {call} /\ nextId' = nextId
    BY <1>7 DEF H!Commit
  <2>2. ASSUME \/ UNCHANGED log
               \/ \E e : log' = Append(log, e)
        PROVE  Room(Len(log'), taps', MaxLog)
    <3>1. Len(log') = Len(log) \/ Len(log') = Len(log) + 1
      BY <1>4, <2>2
    <3>2. Room(Len(log), taps, MaxLog)
      BY DEF HTypes
    <3>3. Room(Len(log), taps \ {call}, MaxLog) /\ Room(Len(log) + 1, taps \ {call}, MaxLog)
      BY <1>0, <1>7, <3>2, RoomKept
    <3> QED
      BY <2>1, <3>1, <3>3
  <2>3. \A other \in taps' : TapTyped(other)
    BY <2>1 DEF HTypes
  <2>4. ASSUME DOMAIN items' \subseteq DOMAIN items, UNCHANGED notes, \E e : log' = Append(log, e),
               \A k \in DOMAIN checks' : k \in DOMAIN checks /\ checks'[k] = checks[k]
        PROVE  HTypes'
    <3>1. Room(Len(log'), taps', MaxLog)
      BY <2>2, <2>4
    <3>2. \A k \in DOMAIN checks' : k[1] \in HabitDays /\ checks'[k] \in CheckRows
      BY <2>4 DEF HTypes
    <3> QED
      BY <2>1, <2>3, <2>4, <3>1, <3>2 DEF HTypes, TapTyped, CheckRows, TapOf
  <2>5. CASE H!UpdateItem(call) \/ H!DeactivateItem(call) \/ H!ReactivateItem(call)
    <3>1. DOMAIN items' \subseteq DOMAIN items
      BY <2>5 DEF H!UpdateItem, H!DeactivateItem, H!ReactivateItem, H!SetActive
    <3>2. UNCHANGED <<notes, checks>> /\ \E e : log' = Append(log, e)
      BY <2>5 DEF H!UpdateItem, H!DeactivateItem, H!ReactivateItem, H!Journal
    <3> QED
      BY <2>4, <3>1, <3>2
  <2>6. CASE H!DeleteItem(call) \/ H!ClearCheckin(call)
    <3>1. DOMAIN items' \subseteq DOMAIN items /\ UNCHANGED notes /\ \E e : log' = Append(log, e)
      BY <2>6 DEF H!DeleteItem, H!ClearCheckin, H!Drop, H!Journal
    <3>2. \A k \in DOMAIN checks' : k \in DOMAIN checks /\ checks'[k] = checks[k]
      BY <2>6 DEF H!DeleteItem, H!ClearCheckin, H!Drop
    <3> QED
      BY <2>4, <3>1, <3>2
  <2>7. CASE H!UpsertCheckin(call)
    <3>1. UNCHANGED <<items, notes>>
      BY <2>7 DEF H!UpsertCheckin
    <3>2. (UNCHANGED log) \/ \E e : log' = Append(log, e)
      BY <2>7 DEF H!UpsertCheckin, H!Journal
    <3>3. TapTyped(call) /\ call.q.op = "set"
      BY <2>7 DEF HTypes, H!UpsertCheckin
    <3>4. /\ call.q.day \in HabitDays /\ call.q.status \in HabitStatuses \union {None} /\ call.q.note \in Words \union {None}
          /\ call.seen \in CheckRows \union {None} /\ (call.seen = None => call.q.status \in HabitStatuses)
      BY <3>3 DEF TapTyped, TapOf
    <3>5. /\ call.seen # None => /\ call.seen.status \in HabitStatuses /\ call.seen.note \in Words \union {None}
                                 /\ call.seen.row \in 1..MaxLog
          /\ Len(log) + 1 \in 1..MaxLog
      <4>1. Len(log) + 1 <= MaxLog
        BY <1>0, RoomKept DEF HTypes
      <4> QED
        BY <1>0, <3>4, <4>1 DEF CheckRows
    <3>6. PICK status \in HabitStatuses : status = IF call.q.status # None THEN call.q.status
                                              ELSE IF call.seen = None THEN None ELSE call.seen.status
      BY <3>4, <3>5
    <3>7. PICK note \in Words \union {None} : note = IF call.q.note # None THEN call.q.note
                                                    ELSE IF call.seen = None THEN None ELSE call.seen.note
      BY <3>4, <3>5
    <3>8. PICK row \in 1..MaxLog : row = IF call.seen = None THEN Len(log) + 1 ELSE call.seen.row
      BY <3>5
    <3>9. PICK given \in CheckRows : given = [status |-> status, note |-> note, row |-> row]
      <4>1. [status |-> status, note |-> note, row |-> row] \in CheckRows
        BY <3>6, <3>7, <3>8 DEF CheckRows
      <4> QED
        BY <4>1
    <3>10. checks' = checks \/ checks' = H!Put(checks, <<call.q.day, call.q.id>>, given)
      BY <2>7, <3>6, <3>7, <3>8, <3>9 DEF H!UpsertCheckin
    <3>11. ASSUME NEW k \in DOMAIN checks' PROVE k[1] \in HabitDays /\ checks'[k] \in CheckRows
      BY <3>4, <3>9, <3>10, <3>11 DEF H!Put, HTypes
    <3> QED
      BY <2>1, <2>2, <2>3, <3>1, <3>2, <3>11 DEF HTypes, TapTyped, CheckRows, TapOf
  <2>8. CASE H!UpsertDailyNote(call)
    <3>1. UNCHANGED <<items, checks>>
      BY <2>8 DEF H!UpsertDailyNote
    <3>2. (UNCHANGED log) \/ \E e : log' = Append(log, e)
      BY <2>8 DEF H!UpsertDailyNote, H!Journal
    <3>3. call.q.day \in HabitDays /\ call.q.text \in Words
      BY <2>8 DEF HTypes, TapTyped, H!UpsertDailyNote
    <3>4. DOMAIN notes' \subseteq HabitDays /\ \A d \in DOMAIN notes' : notes'[d] \in Words
      BY <2>8, <3>3 DEF H!UpsertDailyNote, H!Put, HTypes
    <3> QED
      BY <2>1, <2>2, <2>3, <3>1, <3>2, <3>4 DEF HTypes, TapTyped, CheckRows, TapOf
  <2> QED
    BY <1>7, <2>5, <2>6, <2>7, <2>8 DEF H!Commit
<1>8. CASE UNCHANGED H!vars
  BY <1>8 DEF H!vars, HTypes, TapTyped, CheckRows, TapOf
<1> QED
  BY <1>1, <1>2, <1>5, <1>6, <1>7, <1>8 DEF H!Next, H!PostHabitCreate, H!PostItemCreate

LEMMA HabitsWellTyped ==
  ASSUME Bounded, HInv, HTypes
  PROVE  H!TypeOK
<1>1. Len(log) <= MaxLog
  BY RoomKept DEF HTypes, Bounded
<1>2. \A k \in DOMAIN checks : k \in HabitDays \X DOMAIN items
  BY DEF HInv, Tables, HTypes
<1> QED
  BY <1>1, <1>2 DEF H!TypeOK, HInv, Tables, Habit, HTypes, CheckRows
-----------------------------------------------------------------------------
(* Types: tasks *)

TTypes ==
    /\ Room(moves, drags, MaxMoves)
    /\ 1 \in DOMAIN lists /\ 2 \in DOMAIN lists /\ lists[1] = FALSE
    /\ \A t \in DOMAIN tasks : tasks[t].list \in DOMAIN lists
    /\ \A call \in drags : call.op = "create" => call.list \in DOMAIN lists

LEMMA DragRoom ==
  ASSUME Bounded, TTypes
  PROVE  /\ T!Free => \A x : Room(moves, drags \union {x}, MaxMoves) /\ Room(moves + 1, drags, MaxMoves)
         /\ \A x \in drags : Room(moves + 1, drags \ {x}, MaxMoves)
         /\ \A x \in drags : \A y : Room(moves, (drags \ {x}) \union {y}, MaxMoves)
         /\ moves <= MaxMoves
<1>1. MaxMoves \in Nat /\ Room(moves, drags, MaxMoves)
  BY DEF Bounded, TTypes
<1>2. T!Free => moves + Cardinality(drags) < MaxMoves
  BY SameCardinality DEF T!Free
<1> QED
  BY <1>1, <1>2, RoomKept

\* Of any sequence and any function, whatever its values.
LEMMA OneMore ==
  ASSUME NEW U, NEW s \in Seq(U), NEW x \in U
  PROVE  DOMAIN s \subseteq DOMAIN Append(s, x) /\ \A i \in DOMAIN s : Append(s, x)[i] = s[i]
  OBVIOUS

LEMMA OneChanged ==
  ASSUME NEW f, NEW k, NEW v
  PROVE  DOMAIN [f EXCEPT ![k] = v] = DOMAIN f /\ \A i \in DOMAIN f : i # k => [f EXCEPT ![k] = v][i] = f[i]
  OBVIOUS

LEMMA BoardTyped ==
  ASSUME Boardly, Bounded, TInv, TTypes, [T!Next]_(T!vars)
  PROVE  TTypes'
<1>0. tasks \in Seq(TaskRow) /\ lists \in Seq(BOOLEAN)
  BY DEF TInv
\* A read.
<1>1. ASSUME NEW new, new.op = "create" => new.list \in DOMAIN lists, NEW x, T!Free \/ x \in drags,
             drags' = (IF T!Free THEN drags ELSE drags \ {x}) \union {new} \/ (x \in drags /\ drags' = (drags \ {x}) \union {new}),
             UNCHANGED <<tasks, lists, moves>>
      PROVE  TTypes'
  <2>1. Room(moves, drags', MaxMoves)
    BY <1>1, DragRoom
  <2> QED
    BY <1>1, <2>1 DEF TTypes
\* A commit, of a handler or of a call that is its transaction.
<1>2. ASSUME NEW x, (T!Free /\ drags' = drags) \/ (x \in drags /\ drags' = drags \ {x}), moves' = moves + 1,
             lists' = lists, \A t \in DOMAIN tasks' : tasks'[t].list \in DOMAIN lists
      PROVE  TTypes'
  <2>1. Room(moves', drags', MaxMoves)
    BY <1>2, DragRoom
  <2> QED
    BY <1>2, <2>1 DEF TTypes
<1>3. ASSUME NEW l \in DOMAIN lists, NEW p, NEW k, T!CreateTask(l, p, k) PROVE TTypes'
  <2>1. PICK new : new.list = l /\ drags' = drags \union {new}
    BY <1>3 DEF T!CreateTask, T!Start
  <2> QED
    BY <1>1, <1>3, <2>1 DEF T!CreateTask, T!Start
<1>4. ASSUME NEW t, NEW p, NEW a, NEW b, T!MoveTask(t, p, a, b) PROVE TTypes'
  <2>1. PICK op \in {"move", "respace"} : op = IF T!Starved(T!OrderOf(a), T!OrderOf(b)) THEN "respace" ELSE "move"
    OBVIOUS
  <2>2. PICK new : new.op = op /\ drags' = drags \union {new}
    BY <1>4, <2>1 DEF T!MoveTask, T!Start
  <2> QED
    BY <1>1, <1>4, <2>1, <2>2 DEF T!MoveTask, T!Start
<1>5. ASSUME NEW call \in drags, T!RespaceRead(call) PROVE TTypes'
  <2>1. "op" \in DOMAIN call
    BY <1>5 DEF TInv, DragHonest, T!RespaceRead
  <2>2. PICK new : new = [call EXCEPT !.op = "respaced", !.rows = T!Ranked(call.prio)]
    OBVIOUS
  <2>3. new.op = "respaced" /\ drags' = (drags \ {call}) \union {new} /\ UNCHANGED <<tasks, lists, moves>>
    BY <1>5, <2>1, <2>2 DEF T!RespaceRead
  <2> QED
    BY <1>1, <1>5, <2>3
<1>6. ASSUME NEW call \in drags, T!CreateTaskCommit(call) PROVE TTypes'
  <2>1. call.list \in DOMAIN lists
    BY <1>6 DEF TTypes, T!CreateTaskCommit
  <2>2. PICK row : row = T!Task(call.list, call.prio, call.order, call.kind)
    OBVIOUS
  <2>3. row.list = call.list
    BY <2>2 DEF T!Task
  <2>4. tasks' = tasks \/ tasks' = Append(tasks, row)
    BY <1>6, <2>2 DEF T!CreateTaskCommit
  <2>5. \A t \in DOMAIN tasks' : tasks'[t].list \in DOMAIN lists
    <3>1. CASE tasks' = tasks
      BY <3>1 DEF TTypes
    <3>2. CASE tasks' = Append(tasks, row)
      <4>1. \A t \in DOMAIN tasks' : tasks'[t] = row \/ (t \in DOMAIN tasks /\ tasks'[t] = tasks[t])
        BY <1>0, <3>2
      <4> QED
        BY <2>1, <2>3, <4>1 DEF TTypes
    <3> QED
      BY <2>4, <3>1, <3>2
  <2> QED
    BY <1>2, <1>6, <2>5 DEF T!CreateTaskCommit, T!Done
\* What a drag puts back keeps its list.
<1>7. ASSUME NEW f, DOMAIN f = DOMAIN tasks, NEW call, NEW o, f \in Seq(TaskRow),
             \A t \in DOMAIN tasks : f[t].list = tasks[t].list
      PROVE  \A t \in DOMAIN T!Placed(f, call, o) : t \in DOMAIN tasks /\ T!Placed(f, call, o)[t].list = tasks[t].list
  <2>1. PICK row : row = [f[call.task] EXCEPT !.prio = call.prio]
    OBVIOUS
  <2>2. PICK put : put = [row EXCEPT !.order = o]
    OBVIOUS
  <2>3. T!Placed(f, call, o) = [f EXCEPT ![call.task] = put]
    <3>1. CASE call.task \in DOMAIN f
      BY <2>1, <2>2, <3>1 DEF T!Placed
    <3>2. CASE call.task \notin DOMAIN f
      BY <3>2 DEF T!Placed
    <3> QED
      BY <3>1, <3>2
  <2>4. call.task \in DOMAIN f => put.list = f[call.task].list
    <3>1. call.task \in DOMAIN f => f[call.task] \in TaskRow
      BY <1>7
    <3>2. call.task \in DOMAIN f => "list" \in DOMAIN f[call.task] /\ "list" \in DOMAIN row
      BY <2>1, <3>1 DEF TaskRow
    <3> QED
      BY <2>1, <2>2, <3>2
  <2> QED
    BY <1>7, <2>3, <2>4
<1>8. ASSUME NEW call \in drags, T!MoveCommit(call) PROVE TTypes'
  <2>1. tasks' = T!Placed(tasks, call, T!Between(call.lo, call.hi))
    BY <1>8 DEF T!MoveCommit
  <2>2. \A t \in DOMAIN tasks' : tasks'[t].list \in DOMAIN lists
    BY <1>0, <1>7, <2>1 DEF TTypes
  <2> QED
    BY <1>2, <1>8, <2>2 DEF T!MoveCommit, T!Done
<1>9. ASSUME NEW call \in drags, T!RespacedMoveCommit(call) PROVE TTypes'
  <2>1. \A t \in DOMAIN call.rows : call.rows[t] \in Nat
    BY <1>9 DEF TInv, DragHonest, T!RespacedMoveCommit
  <2>2. PICK f \in Seq(TaskRow) : f = T!Respaced(call) /\ DOMAIN f = DOMAIN tasks
    BY <2>1, Renumbered
  <2>3. \A t \in DOMAIN tasks : f[t].list = tasks[t].list
    <3> TAKE t \in DOMAIN tasks
    <3>1. tasks[t] \in TaskRow
      BY Rows
    <3>2. f[t] = IF t \in DOMAIN call.rows THEN [tasks[t] EXCEPT !.order = Gap * call.rows[t]] ELSE tasks[t]
      BY <2>2 DEF T!Respaced
    <3> QED
      BY <3>1, <3>2 DEF TaskRow
  <2>4. PICK o : tasks' = T!Placed(f, call, o)
    BY <1>9, <2>2 DEF T!RespacedMoveCommit
  <2>5. \A t \in DOMAIN tasks' : tasks'[t].list \in DOMAIN lists
    BY <1>7, <2>2, <2>3, <2>4 DEF TTypes
  <2> QED
    BY <1>2, <1>9, <2>5 DEF T!RespacedMoveCommit, T!Done
<1>10. ASSUME NEW t, T!ToggleComplete(t) PROVE TTypes'
  <2>1. PICK new : new.op = "toggle" /\ drags' = drags \union {new}
    BY <1>10 DEF T!ToggleComplete, T!Start
  <2> QED
    BY <1>1, <1>10, <2>1 DEF T!ToggleComplete, T!Start
<1>11. ASSUME NEW call \in drags, T!ToggleCommit(call) PROVE TTypes'
  <2>1. PICK put : put = [tasks[call.task] EXCEPT !.open = ~call.open]
    OBVIOUS
  <2>2. tasks' = [tasks EXCEPT ![call.task] = put]
    BY <1>11, <2>1 DEF T!ToggleCommit
  <2>3. call.task \in DOMAIN tasks => put.list = tasks[call.task].list
    BY <2>1, Rows DEF TaskRow
  <2>4. \A t \in DOMAIN tasks' : tasks'[t].list \in DOMAIN lists
    BY <2>2, <2>3 DEF TTypes
  <2> QED
    BY <1>2, <1>11, <2>4 DEF T!ToggleCommit, T!Done
<1>12. ASSUME NEW t \in DOMAIN tasks, NEW l \in DOMAIN lists, NEW p, T!UpdateTask(t, l, p) PROVE TTypes'
  <2>1. PICK row : row = [tasks[t] EXCEPT !.list = l]
    OBVIOUS
  <2>2. PICK put : put = [row EXCEPT !.prio = p]
    OBVIOUS
  <2>3. tasks' = [tasks EXCEPT ![t] = put]
    BY <1>12, <2>1, <2>2 DEF T!UpdateTask
  <2>4. put.list = l
    <3>1. "list" \in DOMAIN tasks[t]
      BY Rows DEF TaskRow
    <3> QED
      BY <2>1, <2>2, <3>1
  <2>5. \A u \in DOMAIN tasks' : tasks'[u].list \in DOMAIN lists
    BY <2>3, <2>4 DEF TTypes
  <2> QED
    BY <1>2, <1>12, <2>5 DEF T!UpdateTask
<1>13. CASE T!CreateList
  <2>1. UNCHANGED <<tasks, drags>> /\ lists' = Append(lists, FALSE) /\ moves' = moves + 1 /\ T!Free
    BY <1>13 DEF T!CreateList
  <2>2. Room(moves', drags', MaxMoves)
    BY <2>1, DragRoom
  <2>3. DOMAIN lists \subseteq DOMAIN lists' /\ \A l \in DOMAIN lists : lists'[l] = lists[l]
    <3>1. FALSE \in BOOLEAN
      OBVIOUS
    <3> QED
      BY <1>0, <2>1, <3>1, OneMore, Zenon
  <2> QED
    BY <2>1, <2>2, <2>3 DEF TTypes
<1>14. ASSUME NEW l \in DOMAIN lists, T!ArchiveList(l) PROVE TTypes'
  <2>1. /\ tasks' = [t \in DOMAIN tasks |-> IF tasks[t].list = l THEN [tasks[t] EXCEPT !.list = 1] ELSE tasks[t]]
        /\ lists' = [lists EXCEPT ![l] = TRUE] /\ moves' = moves + 1 /\ drags' = drags /\ T!Free /\ l # 1
    BY <1>14 DEF T!ArchiveList, T!Inbox
  <2>2. Room(moves', drags', MaxMoves)
    BY <2>1, DragRoom
  <2>3. DOMAIN lists' = DOMAIN lists /\ lists'[1] = lists[1]
    <3>1. 1 \in DOMAIN lists /\ 1 # l
      BY <2>1 DEF TTypes
    <3> QED
      BY <2>1, <3>1, OneChanged, Zenon
  <2>4. ASSUME NEW t \in DOMAIN tasks PROVE tasks'[t].list \in DOMAIN lists
    <3>1. "list" \in DOMAIN tasks[t]
      BY Rows DEF TaskRow
    <3> QED
      BY <2>1, <3>1 DEF TTypes
  <2> QED
    BY <2>1, <2>2, <2>3, <2>4 DEF TTypes
<1>15. CASE UNCHANGED T!vars
  BY <1>15 DEF T!vars, TTypes
<1> QED
  BY <1>3, <1>4, <1>5, <1>6, <1>8, <1>9, <1>10, <1>11, <1>12, <1>13, <1>14, <1>15
     DEF T!Next, T!PostTaskCreate, T!PostTaskMove, T!PostTaskComplete, T!PostTaskUpdate, T!PostListCreate

LEMMA BoardWellTyped ==
  ASSUME Boardly, Bounded, TInv, TTypes
  PROVE  T!TypeOK
<1>1. \A t \in DOMAIN tasks : tasks[t].prio \in Priorities /\ tasks[t].order \in Int /\ tasks[t].open \in BOOLEAN
  BY Rows DEF TaskRow, Boardly
<1> QED
  BY <1>1, DragRoom DEF TTypes, T!TypeOK, T!Inbox

-----------------------------------------------------------------------------
(* Types: the calendar *)

Lawful(row) == /\ (row.freq = "weekly") = (row.mask # {})
               /\ row.end # None => row.end >= row.start
               /\ row.exdates \subseteq 0..LastDay

CTypes ==
    /\ Room(writes, skips, MaxEdits)
    /\ \A id \in DOMAIN series : Lawful(series[id])
    /\ \A call \in skips : Lawful(call.row)

LEMMA SkipRoom ==
  ASSUME Bounded, CTypes
  PROVE  /\ C!Free => \A x : Room(writes, skips \union {x}, MaxEdits) /\ Room(writes + 1, skips, MaxEdits)
         /\ \A x \in skips : Room(writes + 1, skips \ {x}, MaxEdits) /\ Room(writes, skips \ {x}, MaxEdits)
         /\ \A x \in skips : \A y : Room(writes, (skips \ {x}) \union {y}, MaxEdits)
         /\ writes <= MaxEdits
<1>1. MaxEdits \in Nat /\ Room(writes, skips, MaxEdits)
  BY DEF Bounded, CTypes
<1>2. C!Free => writes + Cardinality(skips) < MaxEdits
  <2>1. C!Cardinality(skips) = Cardinality(skips)
    BY Zenon DEF C!Cardinality, Cardinality
  <2> QED
    BY <2>1 DEF C!Free
<1> QED
  BY <1>1, <1>2, RoomKept

\* A row under a rule that _clean let through.
LEMMA LawfulRow ==
  ASSUME NEW r, (r.freq = "weekly") = (r.mask # {}), r.end # None => r.end >= r.start,
         NEW ex \in SUBSET (0..LastDay), NEW a
  PROVE  Lawful(C!Row(r, ex, a))
  BY DEF C!Row, Lawful

LEMMA CalendarTyped ==
  ASSUME Calendrical, Bounded, CInv, CTypes, [C!Next]_(C!vars)
  PROVE  CTypes'
<1>0. series \in Seq(Planned)
  BY DEF CInv
<1>1. ASSUME NEW op, NEW id \in DOMAIN series, NEW d, C!Start(op, id, d) PROVE CTypes'
  <2>1. PICK new : new.row = series[id] /\ skips' = skips \union {new}
    BY <1>1 DEF C!Start, C!Read
  <2>2. UNCHANGED <<series, writes>> /\ C!Free
    BY <1>1 DEF C!Start
  <2>3. Room(writes, skips', MaxEdits)
    BY <2>1, <2>2, SkipRoom
  <2> QED
    BY <2>1, <2>2, <2>3 DEF CTypes, Lawful
\* A row written.
<1>2. ASSUME NEW row, Lawful(row), NEW id, series' = Append(series, row) \/ series' = [series EXCEPT ![id] = row],
             NEW x, (C!Free /\ skips' = skips) \/ (x \in skips /\ skips' = skips \ {x}), writes' = writes + 1
      PROVE  CTypes'
  <2>1. Room(writes', skips', MaxEdits)
    BY <1>2, SkipRoom
  <2>2. \A i \in DOMAIN series' : series'[i] = row \/ (i \in DOMAIN series /\ series'[i] = series[i])
    BY <1>0, <1>2
  <2>3. \A i \in DOMAIN series' : Lawful(series'[i])
    BY <1>2, <2>2 DEF CTypes
  <2>4. \A call \in skips' : Lawful(call.row)
    BY <1>2 DEF CTypes
  <2> QED
    BY <2>1, <2>3, <2>4 DEF CTypes, Lawful
<1>3. ASSUME NEW r \in C!Rules
      PROVE  (r.freq = "weekly") = (r.mask # {}) /\ (r.end # None => r.end >= r.start)
  BY DEF C!Rules
<1>4. ASSUME NEW r \in C!Rules, C!CreateEvent(r) PROVE CTypes'
  <2>1. Lawful(C!Row(r, {}, FALSE))
    BY <1>3, LawfulRow
  <2> QED
    BY <1>2, <1>4, <2>1 DEF C!CreateEvent, C!Wrote
<1>5. ASSUME NEW id \in DOMAIN series, NEW r \in C!Rules, C!UpdateEvent(id, r) PROVE CTypes'
  <2>1. Lawful(C!Row(r, series[id].exdates, series[id].archived))
    BY <1>3, LawfulRow DEF CTypes, Lawful
  <2>2. series' = [series EXCEPT ![id] = C!Row(r, series[id].exdates, series[id].archived)]
    BY <1>5 DEF C!UpdateEvent
  <2> QED
    BY <1>2, <1>5, <2>1, <2>2 DEF C!UpdateEvent, C!Wrote
<1>6. ASSUME NEW id \in DOMAIN series, C!ArchiveEvent(id) PROVE CTypes'
  <2>1. PICK row : row = [series[id] EXCEPT !.archived = TRUE]
    OBVIOUS
  <2>2. series[id] \in Planned /\ Lawful(series[id])
    BY <1>0 DEF CTypes
  <2>3. Lawful(row)
    BY <2>1, <2>2 DEF Planned, Lawful
  <2>4. series' = [series EXCEPT ![id] = row]
    BY <1>6, <2>1 DEF C!ArchiveEvent
  <2> QED
    BY <1>2, <1>6, <2>3, <2>4 DEF C!ArchiveEvent, C!Wrote
<1>7. ASSUME NEW call \in skips, C!MoveEvent(call), skips' = skips \ {call} PROVE CTypes'
  <2>1. call.id \in DOMAIN series /\ call.row \in Planned /\ Lawful(call.row) /\ Lawful(series[call.id])
    BY DEF CInv, CTypes
  <2>2. CASE UNCHANGED <<series, writes>>
    <3>1. Room(writes, skips', MaxEdits)
      BY <1>7, SkipRoom
    <3> QED
      BY <1>7, <2>2, <3>1 DEF CTypes, Lawful
  <2>3. CASE ~UNCHANGED <<series, writes>>
    <3>1. PICK r : r = [call.row EXCEPT !.start = call.day]
      OBVIOUS
    <3>2. C!Clean(r) /\ writes' = writes + 1
          /\ series' = [series EXCEPT ![call.id] = C!Row(r, series[call.id].exdates, series[call.id].archived)]
      BY <1>7, <2>3, <3>1 DEF C!MoveEvent, C!Wrote
    <3>3. r.freq = call.row.freq /\ r.mask = call.row.mask
      BY <2>1, <3>1 DEF Planned
    <3>4. Lawful(C!Row(r, series[call.id].exdates, series[call.id].archived))
      BY <2>1, <3>2, <3>3, LawfulRow DEF C!Clean, Lawful
    <3> QED
      BY <1>2, <1>7, <3>2, <3>4
  <2> QED
    BY <2>2, <2>3
<1>8. ASSUME NEW call \in skips, NEW ex \in SUBSET (0..LastDay), C!WriteExdates(call, ex), skips' = skips \ {call}
      PROVE  CTypes'
  <2>1. call.id \in DOMAIN series /\ series[call.id] \in Planned /\ Lawful(series[call.id])
    BY <1>0 DEF CInv, CTypes
  <2>2. PICK row : row = [series[call.id] EXCEPT !.exdates = ex]
    OBVIOUS
  <2>3. Lawful(row)
    BY <2>1, <2>2 DEF Planned, Lawful
  <2>4. series' = [series EXCEPT ![call.id] = row] /\ writes' = writes + 1
    BY <1>8, <2>2 DEF C!WriteExdates, C!Wrote
  <2> QED
    BY <1>2, <1>8, <2>3, <2>4
<1>9. ASSUME NEW call \in skips PROVE call.row.exdates \subseteq 0..LastDay /\ call.day \in 0..LastDay
  BY DEF CInv, CTypes, Lawful
<1>10. ASSUME NEW call \in skips, C!SkipOccurrence(call), skips' = skips \ {call} PROVE CTypes'
  <2>1. (call.row.exdates \union {call.day}) \in SUBSET (0..LastDay)
    BY <1>9
  <2> QED
    BY <1>8, <1>10, <2>1 DEF C!SkipOccurrence
<1>11. ASSUME NEW call \in skips, C!UnskipOccurrence(call), skips' = skips \ {call} PROVE CTypes'
  <2>1. (call.row.exdates \ {call.day}) \in SUBSET (0..LastDay)
    BY <1>9
  <2> QED
    BY <1>8, <1>11, <2>1 DEF C!UnskipOccurrence
<1>12. CASE UNCHANGED C!vars
  BY <1>12 DEF CTypes, Lawful, C!vars
<1>13. ASSUME NEW call \in skips, C!Reread(call) PROVE CTypes'
  <2>1. PICK new : new.row = series[call.id] /\ skips' = (skips \ {call}) \union {new}
    BY <1>13 DEF C!Reread, C!Read
  <2>2. UNCHANGED <<series, writes>> /\ call.id \in DOMAIN series
    BY <1>13 DEF C!Reread, CInv
  <2>3. Room(writes, skips', MaxEdits)
    BY <2>1, SkipRoom
  <2> QED
    BY <2>1, <2>2, <2>3 DEF CTypes, Lawful
<1> QED
  BY <1>1, <1>4, <1>5, <1>6, <1>7, <1>10, <1>11, <1>12, <1>13
     DEF C!Next, C!PostEventCreate, C!PostEventUpdate, C!PostEventArchive, C!PostEventMove, C!PostEventSkip,
         C!PostEventUnskip, C!MoveStart, C!SkipStart, C!UnskipStart, C!Commit

LEMMA CalendarWellTyped ==
  ASSUME Calendrical, Bounded, CInv, CTypes
  PROVE  C!TypeOK
<1>1. ASSUME NEW id \in DOMAIN series
      PROVE  /\ [k \in {"freq", "start", "end", "every", "mask"} |-> series[id][k]] \in C!Rules
             /\ series[id].exdates \subseteq C!Days /\ series[id].archived \in BOOLEAN
  <2>1. series[id] \in Planned /\ Lawful(series[id])
    BY DEF CInv, CTypes
  <2>2. PICK r : r = [k \in {"freq", "start", "end", "every", "mask"} |-> series[id][k]]
    OBVIOUS
  <2>3. /\ r.freq = series[id].freq /\ r.start = series[id].start /\ r.end = series[id].end
        /\ r.every = series[id].every /\ r.mask = series[id].mask
    BY <2>2
  <2>4. r \in [freq : {"once", "daily", "weekly"}, start : C!Days, end : C!Days \union {None},
               every : Intervals, mask : SUBSET (0..(Week - 1))]
    <3>1. r = [freq |-> r.freq, start |-> r.start, end |-> r.end, every |-> r.every, mask |-> r.mask]
      BY <2>2
    <3>2. /\ r.freq \in {"once", "daily", "weekly"} /\ r.start \in C!Days /\ r.end \in C!Days \union {None}
          /\ r.every \in Intervals /\ r.mask \in SUBSET (0..(Week - 1))
      BY <2>1, <2>3 DEF Planned, C!Days
    <3> QED
      BY <3>1, <3>2
  <2>5. r \in C!Rules
    BY <2>1, <2>3, <2>4 DEF Lawful, C!Rules
  <2> QED
    BY <2>1, <2>2, <2>5 DEF Planned, Lawful, C!Days
<1> QED
  BY <1>1, SkipRoom DEF C!TypeOK
-----------------------------------------------------------------------------
(* Types: retrospective entries *)

\* Only a range has an end.
Ended(row) == row.precision = "range" <=> (row.end # None)

RTypes ==
    /\ \A i \in DOMAIN rows : Ended(rows[i])
    /\ \A c \in calls : c.op = "update" => Ended(c.entry)

LEMMA RetroTyped ==
  ASSUME Attributed, IInv, RTypes, [Next]_vars
  PROVE  RTypes'
<1>0. rows \in Seq(Row)
  BY DEF IInv, Shape
<1>1. ASSUME NEW p \in Periods, NEW precision \in Precisions, NEW text PROVE Ended(Entry(p, precision, text))
  <2>1. p.to \in Instants
    BY DEF Periods
  <2> QED
    BY <2>1 DEF Ended, Entry, Attributed
\* A row that changes only in its columns of the archive.
<1>2. ASSUME NEW row \in Row, Ended(row), NEW a, NEW u
      PROVE  Ended([row EXCEPT !.archived = a]) /\ Ended([row EXCEPT !.updated = u, !.archived = a])
  BY <1>2 DEF Ended, Row
<1>3. ASSUME NEW c, NEW kind, NEW row, Ended(row), Write(c, kind, row) PROVE RTypes'
  <2>1. rows' = [rows EXCEPT ![c.id] = row] /\ calls' = calls \ {c}
    BY <1>3 DEF Write
  <2>2. \A i \in DOMAIN rows' : rows'[i] = row \/ (i \in DOMAIN rows /\ rows'[i] = rows[i])
    BY <2>1
  <2> QED
    BY <1>3, <2>1, <2>2 DEF RTypes, Ended
<1>4. ASSUME NEW by, NEW op, NEW id, NEW e, Begin(by, op, id, e), op = "update" => Ended(e) PROVE RTypes'
  <2>1. PICK new : new.op = op /\ new.entry = e /\ calls' = calls \union {new} /\ rows' = rows
    BY <1>4 DEF Begin
  <2> QED
    BY <1>4, <2>1 DEF RTypes, Ended
<1>5. CASE PostRetroCreate
  <2>1. PICK e : Ended(e) /\ rows' = Append(rows, e) /\ calls' = calls /\ e \in Row
    BY <1>1, <1>5, EntryIsRow DEF PostRetroCreate, CreateEntry
  <2>2. \A i \in DOMAIN rows' : rows'[i] = e \/ (i \in DOMAIN rows /\ rows'[i] = rows[i])
    BY <1>0, <2>1
  <2> QED
    BY <2>1, <2>2 DEF RTypes, Ended
<1>6. ASSUME NEW by, PostRetroEdit(by) \/ PostRetroArchive(by) \/ PostRetroUnarchive(by) PROVE RTypes'
  BY <1>1, <1>4, <1>6 DEF PostRetroEdit, PostRetroArchive, PostRetroUnarchive
<1>7. ASSUME NEW c \in calls, UpdateEntry(c) \/ ArchiveEntry(c) \/ UnarchiveEntry(c) PROVE RTypes'
  <2>1. rows[c.id] \in Row /\ Ended(rows[c.id])
    BY <1>0 DEF IInv, Shape, RTypes
  <2>2. c.op = "update" => c.entry \in Row /\ Ended(c.entry)
    BY DEF IInv, Shape, RTypes
  <2>3. ASSUME NoOp(c) PROVE RTypes'
    BY <2>3 DEF NoOp, RTypes, Ended
  <2> QED
    BY <1>2, <1>3, <1>7, <2>1, <2>2, <2>3 DEF UpdateEntry, ArchiveEntry, UnarchiveEntry
<1>8. CASE Tick \/ UNCHANGED vars
  BY <1>8 DEF Tick, vars, RTypes, Ended
<1> QED
  BY <1>5, <1>6, <1>7, <1>8 DEF Next

LEMMA RetroWellTyped ==
  ASSUME IInv, RTypes
  PROVE  TypeOK
  BY DEF IInv, Shape, RTypes, Ended, TypeOK, Row

-----------------------------------------------------------------------------
(* Types: the schema *)

LEMMA LateRows ==
  ASSUME SInv, late \subseteq DOMAIN stamps, S!Next
  PROVE  late' \subseteq DOMAIN stamps'
<1>1. CASE S!BackfillCommit
  BY <1>1 DEF S!BackfillCommit, S!Stamped
<1>2. ASSUME NEW i \in S!Identities, S!Insert(i) PROVE late' \subseteq DOMAIN stamps'
  BY <1>2 DEF S!Insert
<1> QED
  BY <1>1, <1>2 DEF S!Next, S!InitDb, S!Statement, S!BackfillRead, S!BumpVersion, S!OldStops, S!Stop

LEMMA SchemaWellTyped ==
  ASSUME SInv, late \subseteq DOMAIN stamps
  PROVE  S!TypeOK
  BY Thirteen DEF SInv, Stampings, Climbing, Looking, S!TypeOK

-----------------------------------------------------------------------------
(* Types: views and pages *)

DTypes == D!TypeOK /\ blocks \in Seq({blocks[i] : i \in DOMAIN blocks})

LEMMA ViewsTyped ==
  ASSUME DTypes, [D!Next]_(D!vars)
  PROVE  DTypes'
<1>0. /\ today \in 0..4 /\ DOMAIN marks \subseteq 0..today /\ \A d \in DOMAIN marks : marks[d] \in D!Statuses
      /\ DOMAIN focus \subseteq 0..today /\ \A d \in DOMAIN focus : focus[d] \in 1..2
      /\ Len(blocks) <= 3 /\ line \in Seq(D!Tokens) /\ blocks \in Seq({blocks[i] : i \in DOMAIN blocks})
  BY DEF DTypes, D!TypeOK
<1>1. ASSUME NEW d \in 0..4, NEW s \in D!Statuses, D!Log(d, s) PROVE DTypes'
  BY <1>0, <1>1 DEF DTypes, D!TypeOK, D!Log
<1>2. ASSUME NEW d \in 0..4, D!Clear(d) PROVE DTypes'
  BY <1>0, <1>2 DEF DTypes, D!TypeOK, D!Clear
<1>3. CASE D!RecordSession(1)
  <2>1. UNCHANGED <<today, marks, blocks, line>>
    BY <1>3 DEF D!RecordSession
  <2>2. PICK n : n = D!Secs(today) + 1 /\ focus' = [e \in DOMAIN focus \union {today} |-> IF e = today THEN n ELSE focus[e]]
    BY <1>3 DEF D!RecordSession
  <2>3. n \in 1..2
    BY <1>0, <1>3, <2>2 DEF D!RecordSession, D!Secs
  <2> QED
    BY <1>0, <2>1, <2>2, <2>3 DEF DTypes, D!TypeOK
<1>4. CASE D!Midnight
  BY <1>0, <1>4 DEF DTypes, D!TypeOK, D!Midnight
<1>5. ASSUME NEW from, NEW to, D!AddBlock(from, to) PROVE DTypes'
  <2>1. PICK b : blocks' = Append(blocks, b) /\ Len(blocks) < 3 /\ UNCHANGED <<today, marks, focus, line>>
    BY <1>5 DEF D!AddBlock
  <2>2. blocks' \in Seq({blocks[i] : i \in DOMAIN blocks} \union {b}) /\ Len(blocks') <= 3
    BY <1>0, <2>1
  <2>3. blocks' \in Seq({blocks'[i] : i \in DOMAIN blocks'})
    BY <2>2
  <2> QED
    BY <1>0, <2>1, <2>2, <2>3 DEF DTypes, D!TypeOK
<1>6. ASSUME NEW t \in D!Tokens, D!Type(t) PROVE DTypes'
  BY <1>0, <1>6 DEF DTypes, D!TypeOK, D!Type
<1>7. CASE UNCHANGED D!vars
  BY <1>0, <1>7 DEF DTypes, D!TypeOK, D!vars
<1> QED
  BY <1>1, <1>2, <1>3, <1>4, <1>5, <1>6, <1>7 DEF D!Next

PTypes ==
    /\ P!TypeOK
    /\ spans \in Seq([mode : {"pomo", "stopwatch"}, seconds : Nat \ {0}, date : 0..5, lesson : {"l", None}])
    /\ todos \in Seq([kind : {"task", "countdown"}, due : (0..5) \union {None}, done : (0..5) \union {None}])

LEMMA PagesTyped ==
  ASSUME PTypes, [P!Next]_(P!vars)
  PROVE  PTypes'
<1> DEFINE Spans == [mode : {"pomo", "stopwatch"}, seconds : Nat \ {0}, date : 0..5, lesson : {"l", None}]
           Todos == [kind : {"task", "countdown"}, due : (0..5) \union {None}, done : (0..5) \union {None}]
<1>0. /\ day \in 0..5 /\ shown \subseteq Words /\ edits \in 0..2
      /\ DOMAIN marked \subseteq Words \X (0..day) /\ \A k \in DOMAIN marked : marked[k] \in P!Statuses
      /\ \A i \in DOMAIN spans : spans[i].date <= day /\ spans[i].seconds > 0
      /\ \A t \in DOMAIN todos : todos[t].done = None \/ todos[t].done <= day
      /\ spans \in Seq(Spans) /\ todos \in Seq(Todos)
  BY DEF PTypes, P!TypeOK
<1>00. (\A i \in DOMAIN spans : spans[i] \in Spans) /\ \A t \in DOMAIN todos : todos[t] \in Todos
  <2> HIDE DEF Spans, Todos
  <2> QED
    BY <1>0
<1>1. P!Write => edits' \in 0..2
  BY <1>0 DEF P!Write
<1>2. ASSUME NEW h \in Words, NEW d \in 0..5, NEW s \in P!Statuses, P!PostCheckin(h, d, s) PROVE PTypes'
  <2>1. UNCHANGED <<day, shown, spans, todos>> /\ edits' \in 0..2 /\ d <= day
    BY <1>1, <1>2 DEF P!PostCheckin
  <2>2. <<h, d>> \in Words \X (0..day)
    BY <1>0, <2>1
  <2>3. marked' = [k \in DOMAIN marked \union {<<h, d>>} |-> IF k = <<h, d>> THEN s ELSE marked[k]]
    BY <1>2 DEF P!PostCheckin, P!Marked
  <2>4. DOMAIN marked' \subseteq Words \X (0..day) /\ \A k \in DOMAIN marked' : marked'[k] \in P!Statuses
    BY <1>0, <2>2, <2>3
  <2> QED
    BY <1>0, <2>1, <2>4 DEF PTypes, P!TypeOK
<1>3. ASSUME NEW h \in Words, P!PostHabitArchive(h) PROVE PTypes'
  BY <1>0, <1>1, <1>3 DEF PTypes, P!TypeOK, P!PostHabitArchive
<1>4. ASSUME NEW mode \in {"pomo", "stopwatch"}, NEW seconds \in 1..3, NEW lesson \in {"l"} \union {None},
             P!RecordSession(mode, seconds, lesson)
      PROVE  PTypes'
  <2>1. PICK span \in Spans : span.date = day /\ span.seconds = seconds /\ spans' = Append(spans, span)
    <3>1. PICK span : span = [mode |-> mode, seconds |-> seconds, date |-> day, lesson |-> lesson]
      OBVIOUS
    <3>2. span \in Spans /\ span.date = day /\ span.seconds = seconds
      BY <1>0, <3>1
    <3>3. spans' = Append(spans, span)
      BY <1>4, <3>1 DEF P!RecordSession
    <3> QED
      BY <3>2, <3>3
  <2>2. UNCHANGED <<day, shown, marked, todos>> /\ edits' \in 0..2
    BY <1>1, <1>4 DEF P!RecordSession
  <2>3. spans' \in Seq(Spans) /\ \A i \in DOMAIN spans' : spans'[i] = span \/ (i \in DOMAIN spans /\ spans'[i] = spans[i])
    BY <1>0, <2>1
  <2>4. \A i \in DOMAIN spans' : spans'[i].date <= day /\ spans'[i].seconds > 0
    BY <1>0, <2>1, <2>3
  <2> QED
    BY <1>0, <2>2, <2>3, <2>4 DEF PTypes, P!TypeOK
<1>5. ASSUME NEW kind \in {"task", "countdown"}, NEW due \in (0..5) \union {None}, P!PostTaskCreate(kind, due) PROVE PTypes'
  <2>1. PICK todo \in Todos : todo.done = None /\ todos' = Append(todos, todo)
    <3>1. PICK todo : todo = [kind |-> kind, due |-> due, done |-> None]
      OBVIOUS
    <3>2. todo \in Todos /\ todo.done = None
      BY <3>1
    <3>3. todos' = Append(todos, todo)
      BY <1>5, <3>1 DEF P!PostTaskCreate
    <3> QED
      BY <3>2, <3>3
  <2>2. UNCHANGED <<day, shown, marked, spans>> /\ edits' \in 0..2
    BY <1>1, <1>5 DEF P!PostTaskCreate
  <2>3. todos' \in Seq(Todos) /\ \A t \in DOMAIN todos' : todos'[t] = todo \/ (t \in DOMAIN todos /\ todos'[t] = todos[t])
    BY <1>0, <2>1
  <2>4. \A t \in DOMAIN todos' : todos'[t].done = None \/ todos'[t].done <= day
    BY <1>0, <2>1, <2>3
  <2> QED
    BY <1>0, <2>2, <2>3, <2>4 DEF PTypes, P!TypeOK
<1>6. ASSUME NEW t \in DOMAIN todos, P!PostTaskComplete(t) PROVE PTypes'
  <2>1. PICK on : on = IF todos[t].done = None THEN day ELSE None
    OBVIOUS
  <2>2. PICK todo : todo = [todos[t] EXCEPT !.done = on]
    OBVIOUS
  <2>3. todos[t] \in Todos /\ on \in (0..5) \union {None} /\ (on = None \/ on <= day)
    <3>1. todos[t] \in Todos
      BY <1>00
    <3>2. on = day \/ on = None
      BY <2>1
    <3> QED
      BY <1>0, <3>1, <3>2
  <2>4. todo \in Todos /\ todo.done = on
    BY <2>2, <2>3
  <2>5. todos' = [todos EXCEPT ![t] = todo]
    BY <1>6, <2>1, <2>2 DEF P!PostTaskComplete
  <2>6. UNCHANGED <<day, shown, marked, spans>> /\ edits' \in 0..2
    BY <1>1, <1>6 DEF P!PostTaskComplete
  <2>7. todos' \in Seq(Todos) /\ \A u \in DOMAIN todos' : todos'[u] = todo \/ (u \in DOMAIN todos /\ todos'[u] = todos[u])
    BY <1>0, <2>4, <2>5
  <2>8. \A u \in DOMAIN todos' : todos'[u].done = None \/ todos'[u].done <= day
    BY <1>0, <2>3, <2>4, <2>7
  <2> QED
    BY <1>0, <2>6, <2>7, <2>8 DEF PTypes, P!TypeOK
<1>7. CASE P!Midnight
  <2>1. UNCHANGED <<shown, marked, spans, todos, edits>> /\ day' = day + 1 /\ day' \in 0..5
    BY <1>0, <1>7 DEF P!Midnight
  <2>2. DOMAIN marked \subseteq Words \X (0..day')
    BY <1>0, <2>1
  <2>3. \A i \in DOMAIN spans : spans[i].date <= day'
    <3> TAKE i \in DOMAIN spans
    <3>1. spans[i] \in Spans /\ spans[i].date <= day
      BY <1>0, <1>00
    <3>2. spans[i].date \in 0..5
      BY <3>1
    <3> QED
      BY <1>0, <2>1, <3>1, <3>2
  <2>4. \A t \in DOMAIN todos : todos[t].done = None \/ todos[t].done <= day'
    <3> TAKE t \in DOMAIN todos
    <3>1. todos[t] \in Todos /\ (todos[t].done = None \/ todos[t].done <= day)
      BY <1>0, <1>00
    <3>2. todos[t].done \in 0..5 \/ todos[t].done = None
      BY <3>1
    <3> QED
      BY <1>0, <2>1, <3>1, <3>2
  <2> QED
    BY <1>0, <2>1, <2>2, <2>3, <2>4 DEF PTypes, P!TypeOK
<1>8. CASE UNCHANGED P!vars
  BY <1>0, <1>8 DEF PTypes, P!TypeOK, P!vars
<1> QED
  BY <1>2, <1>3, <1>4, <1>5, <1>6, <1>7, <1>8 DEF P!Next
-----------------------------------------------------------------------------
(* Types: the planner *)

LEMMA RetroMoves ==
  ASSUME [PlannerNext]_<<scene, ledger, board, calendar, vars, schema, views, pages>>
  PROVE  [Next]_vars
  BY DEF PlannerNext

LEMMA ViewsMove ==
  ASSUME [PlannerNext]_<<scene, ledger, board, calendar, vars, schema, views, pages>>
  PROVE  [D!Next]_(D!vars)
  BY DEF PlannerNext, views, D!vars

LEMMA PagesMove ==
  ASSUME [PlannerNext]_<<scene, ledger, board, calendar, vars, schema, views, pages>>
  PROVE  [P!Next]_(P!vars)
  BY DEF PlannerNext, pages, P!vars

Typed ==
    /\ HInv /\ HTypes /\ TInv /\ TTypes /\ CInv /\ CTypes /\ IInv /\ RTypes /\ DTypes /\ PTypes
    /\ scene = "schema" => SInv /\ late \subseteq DOMAIN stamps

LEMMA TypedStart ==
  ASSUME Attributed, Boardly, Calendrical, Bounded, PlannerInit
  PROVE  Typed
<1>1. IsFiniteSet({}) /\ Cardinality({}) = 0
  BY FS_EmptySet
<1>2. HInv /\ HTypes
  <2>1. Room(Len(log), taps, MaxLog)
    BY <1>1 DEF PlannerInit, H!Init, Room, Bounded
  <2>2. HInv
    BY HabitsStart DEF PlannerInit
  <2>3. /\ DOMAIN items = {} /\ DOMAIN checks = {} /\ DOMAIN notes = {} /\ taps = {} /\ nextId = 1
    BY DEF PlannerInit, H!Init
  <2> QED
    BY <2>1, <2>2, <2>3 DEF HTypes
<1>3. TInv /\ TTypes
  <2>1. tasks = T!SeedTasks /\ lists = T!SeedLists /\ drags = {} /\ moves = 0
    BY DEF PlannerInit, T!Init
  <2>2. tasks \in Seq(TaskRow) /\ lists \in Seq(BOOLEAN)
    BY <2>1 DEF T!SeedTasks, T!SeedLists, T!Task, T!Inbox, TaskRow, Boardly
  <2>3. Room(moves, drags, MaxMoves)
    BY <1>1, <2>1 DEF Room, Bounded
  <2>4. DOMAIN lists = 1..2 /\ lists[1] = FALSE
    BY <2>1 DEF T!SeedLists
  <2>5. \A t \in DOMAIN tasks : tasks[t].list \in 1..2
    BY <2>1 DEF T!SeedTasks, T!Task, T!Inbox
  <2> QED
    BY <2>1, <2>2, <2>3, <2>4, <2>5 DEF TInv, TTypes
<1>4. CInv /\ CTypes
  <2>1. Room(writes, skips, MaxEdits)
    BY <1>1 DEF PlannerInit, C!Init, Room, Bounded
  <2> QED
    BY <2>1 DEF PlannerInit, C!Init, CInv, CTypes
<1>5. IInv /\ RTypes
  BY DEF PlannerInit, Init, IInv, Shape, RTypes, RetroHonest, LatestSnapshotIsRow, ArchivingAlternates, Newest, Follows
<1>6. DTypes
  BY DEF PlannerInit, D!Init, DTypes, D!TypeOK
<1>7. PTypes
  BY DEF PlannerInit, P!Init, PTypes, P!TypeOK
<1>8. ASSUME scene = "schema" PROVE SInv /\ late \subseteq DOMAIN stamps
  BY <1>8, Aged DEF PlannerInit, S!Init, Boardly
<1> QED
  BY <1>2, <1>3, <1>4, <1>5, <1>6, <1>7, <1>8 DEF Typed

LEMMA TypedStep ==
  ASSUME Attributed, Boardly, Calendrical, Bounded, Typed,
         [PlannerNext]_<<scene, ledger, board, calendar, vars, schema, views, pages>>
  PROVE  Typed'
<1>1. HInv' /\ HTypes'
  BY HabitsMove, TablesStep, ReplaysStep, HabitsTyped DEF Typed, HInv
<1>2. TInv' /\ TTypes'
  BY BoardMoves, BoardStep, BoardTyped DEF Typed
<1>3. CInv' /\ CTypes'
  BY CalendarMoves, CalendarStep, CalendarTyped DEF Typed
<1>4. IInv' /\ RTypes'
  BY RetroMoves, StepKeeps, RetroTyped DEF Typed
<1>5. DTypes' /\ PTypes'
  BY ViewsMove, ViewsTyped, PagesMove, PagesTyped DEF Typed
<1>6. ASSUME scene' = "schema" PROVE (SInv /\ late \subseteq DOMAIN stamps)'
  <2>1. scene = "schema" /\ SInv /\ late \subseteq DOMAIN stamps
    BY <1>6 DEF Typed, PlannerNext
  <2>2. CASE S!Next
    BY <2>1, <2>2, SchemaStep, LateRows DEF Boardly
  <2>3. CASE UNCHANGED schema
    BY <2>1, <2>3 DEF schema, SInv, Stampings, Climbing, Looking, S!Unstamped
  <2> QED
    BY <2>1, <2>2, <2>3 DEF PlannerNext
<1> QED
  BY <1>1, <1>2, <1>3, <1>4, <1>5, <1>6 DEF Typed

\* db.py's columns and references: no write of any service, in whatever order
\* its handlers read and commit, leaves a row whose columns or references the
\* tables do not allow, and none is beyond the bounds given.
THEOREM TypesKept == PlannerSpec => []TypesOK
<1>0. Attributed /\ Boardly /\ Calendrical /\ Bounded
  BY PlannerConstants
<1> USE <1>0
<1>1. PlannerInit => Typed
  BY TypedStart
<1>2. Typed /\ [PlannerNext]_<<scene, ledger, board, calendar, vars, schema, views, pages>> => Typed'
  BY TypedStep
<1>3. Typed => TypesOK
  BY HabitsWellTyped, BoardWellTyped, CalendarWellTyped, RetroWellTyped, SchemaWellTyped
     DEF Typed, TypesOK, DTypes, PTypes
<1> QED
  BY <1>1, <1>2, <1>3, PTL DEF PlannerSpec
=============================================================================
