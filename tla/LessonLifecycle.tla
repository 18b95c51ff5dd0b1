-------------------------- MODULE LessonLifecycle ---------------------------
(***************************************************************************)
(* Lessons (services/lessons.py): rows with a status, its two time stamps, *)
(* an archive mark and a selected page; their ledger events; and the       *)
(* manifest of each bundle, which every reader creates when it is missing  *)
(* and the study agent writes at any time.  A handler reads its row, then  *)
(* the bundle, and writes in a transaction of its own, so that the steps   *)
(* of other handlers and of the agent fall between.                        *)
(***************************************************************************)
EXTENDS Naturals, Sequences, FiniteSets

CONSTANTS None, Bad,
          Titles, Pages,                \* what a form may name
          First,                        \* index.html, the page of a new manifest
          MaxLessons, MaxCalls, MaxMoves, MaxClock   \* bounds

VARIABLES
    lessons,    \* rows, by id
    journal,    \* lesson_* events, in order
    disk,       \* lesson.json by slug: [pages, entry], None when missing, Bad when rejected
    calls,      \* handlers between two of their steps
    clock,      \* now_iso()
    moves       \* handlers begun and changes the agent made (a bound, and names of calls)

vars == <<lessons, journal, disk, calls, clock, moves>>

Statuses == {"backlog", "studying", "paused", "studied"}
SlugNames == Titles \X (1 .. MaxLessons)
Used == {lessons[i].slug : i \in DOMAIN lessons}

\* A slug that no row has now: the title's, then with -2, -3 and so on.
UniqueSlug(title) ==
    <<title, CHOOSE n \in 1 .. MaxLessons + 1 :
                /\ <<title, n>> \notin Used
                /\ \A k \in 1 .. n - 1 : <<title, k>> \in Used>>

Created(slug) == [slug |-> slug, status |-> "backlog", started |-> None, completed |-> None,
                  archived |-> FALSE, entry |-> None]
Manifests == {Bad} \union {m \in [pages : SUBSET Pages, entry : Pages] : m.entry \in m.pages}
Skeleton == [pages |-> {First}, entry |-> First]

Init ==
    /\ lessons = <<>> /\ journal = <<>> /\ calls = {} /\ clock = 0 /\ moves = 0
    /\ disk = [s \in SlugNames |-> None]

-----------------------------------------------------------------------------
(* The routes: each reads its row and goes on with what it read.  A call   *)
(* is [by, op, id, row, arg, at, slug, ts].                                *)

Begin(op, id, arg, at) ==
    /\ moves < MaxMoves /\ moves' = moves + 1 /\ Cardinality(calls) < MaxCalls
    /\ LET row == IF id = 0 THEN None ELSE lessons[id] IN
       calls' = calls \union {[by |-> moves, op |-> op, id |-> id, row |-> row, arg |-> arg, at |-> at, ts |-> clock,
                               slug |-> IF id = 0 THEN UniqueSlug(arg) ELSE row.slug]}
    /\ UNCHANGED <<lessons, journal, disk, clock>>

PostLessonCreate == \E title \in Titles : Begin("create", 0, title, "insert")

PostLessonEntry(i) == \E page \in Pages : Begin("entry", i, page, "look")

\* The page shown is the one asked for, or else the one remembered or the manifest's.
GetLearn(i) == \E page \in Pages \union {None} : Begin("open", i, page, "look")

\* Refusals and repeats that the row read settles.
PostLessonStatus(i) == ~lessons[i].archived /\ \E status \in Statuses : Begin("status", i, status, "write")
PostLessonArchive(i) == ~lessons[i].archived /\ Begin("archive", i, None, "write")
PostLessonRestore(i) == lessons[i].archived /\ Begin("restore", i, None, "write")

-----------------------------------------------------------------------------
(* The services' own writes.                                               *)

Finish(c) == calls' = calls \ {c}
Continue(c, at) == calls' = (calls \ {c}) \union {[c EXCEPT !.at = at]}

Write(c, row, kind, what) ==
    /\ lessons' = [lessons EXCEPT ![c.id] = row]
    /\ journal' = Append(journal, [kind |-> kind, id |-> c.id, what |-> what])

-----------------------------------------------------------------------------
(* The insert fails when another handler took the slug meanwhile.          *)

CreateLesson(c) ==
    /\ c.op = "create" /\ c.at = "insert"
    /\ IF c.slug \in Used
       THEN Finish(c) /\ UNCHANGED <<lessons, journal>>
       ELSE /\ Len(lessons) < MaxLessons
            /\ lessons' = Append(lessons, Created(c.slug))
            /\ journal' = Append(journal, [kind |-> "created", id |-> Len(lessons) + 1, what |-> "backlog"])
            /\ calls' = (calls \ {c}) \union {[c EXCEPT !.id = Len(lessons) + 1, !.at = "look"]}
    /\ UNCHANGED <<disk, clock, moves>>

Stamped_OnlyStudying(row, status, ts) ==
    [started   |-> IF status = "studying" /\ row.started = None THEN ts ELSE row.started,
     completed |-> IF status = "studied" THEN ts ELSE None]

\* The time stamps a status leaves, from the row that was read.
Stamped(row, status, ts) ==
    [started   |-> IF status = "backlog" THEN None ELSE IF row.started = None THEN ts ELSE row.started,
     completed |-> IF status = "studied" THEN ts ELSE None]

\* The whole row is not written: the columns of the other operations stay.
SetStatus(c) ==
    /\ c.op = "status"
    /\ LET s == Stamped(c.row, c.arg, c.ts) IN
       Write(c, [lessons[c.id] EXCEPT !.status = c.arg, !.started = s.started, !.completed = s.completed],
             "status", c.arg)
    /\ Finish(c) /\ UNCHANGED <<disk, clock, moves>>

ArchiveLesson(c) ==
    /\ c.op = "archive" /\ Write(c, [lessons[c.id] EXCEPT !.archived = TRUE], "archived", c.row.status)
    /\ Finish(c) /\ UNCHANGED <<disk, clock, moves>>

RestoreLesson(c) ==
    /\ c.op = "restore" /\ Write(c, [lessons[c.id] EXCEPT !.archived = FALSE], "restored", c.row.status)
    /\ Finish(c) /\ UNCHANGED <<disk, clock, moves>>

-----------------------------------------------------------------------------
(* _ensure_bundle_manifest: a missing manifest is created by a rename that *)
(* replaces whatever is there by then, and read again.                     *)

EntryGiven(c, m) == IF c.op = "open" /\ c.arg = None THEN IF c.row.entry = None THEN m.entry ELSE c.row.entry ELSE c.arg

\* A page that the manifest read does not declare is neither selected nor remembered.
Accepts(c, m) == m # Bad /\ EntryGiven(c, m) \in m.pages

AfterRead(c, m) ==
    IF c.op \in {"entry", "open"} /\ Accepts(c, m)
    THEN calls' = (calls \ {c}) \union {[c EXCEPT !.at = "write", !.arg = EntryGiven(c, m)]}
    ELSE Finish(c)

EnsureManifest(c) ==
    /\ c.at = "look"
    /\ IF disk[c.slug] = None THEN Continue(c, "replace") ELSE AfterRead(c, disk[c.slug])
    /\ UNCHANGED <<lessons, journal, disk, clock, moves>>

CreateManifest(c) ==
    /\ c.at = "replace"
    /\ disk' = [disk EXCEPT ![c.slug] = Skeleton]
    /\ Continue(c, "look")
    /\ UNCHANGED <<lessons, journal, clock, moves>>

SetCurrentEntry(c) ==
    /\ c.op = "entry" /\ c.at = "write"
    /\ Write(c, [lessons[c.id] EXCEPT !.entry = c.arg], "entry", c.arg)
    /\ Finish(c) /\ UNCHANGED <<disk, clock, moves>>

MarkOpened(c) ==
    /\ c.op = "open" /\ c.at = "write"
    /\ lessons' = [lessons EXCEPT ![c.id].entry = c.arg]
    /\ Finish(c) /\ UNCHANGED <<journal, disk, clock, moves>>

AgentWrites ==
    /\ moves < MaxMoves /\ moves' = moves + 1
    /\ \E i \in DOMAIN lessons, m \in Manifests : disk' = [disk EXCEPT ![lessons[i].slug] = m]
    /\ UNCHANGED <<lessons, journal, calls, clock>>

\* The server stops: what its handlers had not committed is gone.
Crash == calls # {} /\ calls' = {} /\ UNCHANGED <<lessons, journal, disk, clock, moves>>

Tick == clock < MaxClock /\ clock' = clock + 1 /\ UNCHANGED <<lessons, journal, disk, calls, moves>>

Next ==
    \/ PostLessonCreate
    \/ \E i \in DOMAIN lessons : PostLessonEntry(i) \/ GetLearn(i) \/ PostLessonStatus(i)
                                \/ PostLessonArchive(i) \/ PostLessonRestore(i)
    \/ \E c \in calls : CreateLesson(c) \/ SetStatus(c) \/ ArchiveLesson(c) \/ RestoreLesson(c)
                        \/ EnsureManifest(c) \/ CreateManifest(c) \/ SetCurrentEntry(c) \/ MarkOpened(c)
    \/ AgentWrites \/ Crash \/ Tick

Spec == Init /\ [][Next]_vars

-----------------------------------------------------------------------------
(* Properties *)

TypeOK ==
    /\ \A i \in DOMAIN lessons :
        lessons[i] \in [slug : SlugNames, status : Statuses, archived : BOOLEAN, entry : Pages \union {None},
                        started : {None} \union 0 .. MaxClock, completed : {None} \union 0 .. MaxClock]
    /\ \A s \in SlugNames : disk[s] \in {None} \union Manifests

\* An event with nothing newer of those kinds about its lesson.
Newest(k, kinds) ==
    /\ journal[k].kind \in kinds
    /\ \A j \in DOMAIN journal : j > k => ~(journal[j].id = journal[k].id /\ journal[j].kind \in kinds)

(* Whatever rows the handlers read before they wrote, a lesson's status    *)
(* and stamps agree, the ledger's last word on its status and on its       *)
(* archive mark is the row's, and no two lessons share a bundle.           *)
LessonsHonest ==
    /\ \A i \in DOMAIN lessons : LET r == lessons[i] IN
        /\ r.started = None <=> r.status = "backlog"
        /\ IF r.status = "studied" THEN r.started <= r.completed ELSE r.completed = None
        /\ \E k \in DOMAIN journal : journal[k].id = i /\ journal[k].kind = "created"
    /\ \A k \in DOMAIN journal : LET e == journal[k] IN
        /\ e.id \in DOMAIN lessons
        /\ Newest(k, {"created", "status"}) => e.what = lessons[e.id].status
        /\ Newest(k, {"created", "archived", "restored"}) => (lessons[e.id].archived <=> e.kind = "archived")
    /\ \A i, j \in DOMAIN lessons : lessons[i].slug = lessons[j].slug => i = j
=============================================================================
