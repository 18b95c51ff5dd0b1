--------------------------- MODULE SchemaUpgrade ----------------------------
(***************************************************************************)
(* init_db (app/db.py): the migration ladder, run at every start on a      *)
(* database of any age, over starts that died between two statements and   *)
(* while a process of an older version still writes.  A DDL statement      *)
(* commits by itself; a backfill commits with the conn.commit after it.    *)
(***************************************************************************)
EXTENDS Naturals, Sequences, FiniteSets, SequencesExt

CONSTANTS None,
          MaxRows, MaxCrashes       \* bounds: rows that carry an identity, starts cut short

VARIABLES
    version,    \* PRAGMA user_version
    objects,    \* tables, columns and indexes on disk
    stamps,     \* <<table, n>> of a row of events or lessons -> its uuid, or None
    start,      \* the start under way: where it is, and what it has read
    old,        \* version of an older process still serving, or None
    minted,     \* uuids drawn
    crashes,
    late        \* ghost: rows the older process wrote after this start's last look

vars == <<version, objects, stamps, start, old, minted, crashes, late>>

-----------------------------------------------------------------------------
(* The ladder: each step's statements.  A table or an index is created IF  *)
(* NOT EXISTS; a column is added unless a look before the step saw it.     *)

Table(n) == [name |-> n, on |-> None, column |-> FALSE]
Index(n, t) == [name |-> n, on |-> t, column |-> FALSE]
Column(n, t) == [name |-> n, on |-> t, column |-> TRUE]

InitialSchema == <<Table("routine_items"), Table("checkins"), Table("daily_notes"), Table("events"),
                   Index("idx_checkins_date", "checkins")>>
SchemaV2 == <<Table("lists"), Table("tasks"), Table("tags"), Table("task_tags"), Index("idx_tasks", "tasks")>>
SchemaV3 == <<Column("emoji", "routine_items"), Column("goal", "routine_items"), Column("reminder", "routine_items")>>
SchemaV4 == <<Table("focus_sessions"), Index("idx_focus_date", "focus_sessions")>>
SchemaV5 == <<Table("calendar_events"), Index("idx_calevents_start", "calendar_events")>>
SchemaV6 == <<Table("lessons"), Index("idx_lessons", "lessons")>>
SchemaV7 == <<Column("current_entry", "lessons"), Column("last_opened_at", "lessons")>>
SchemaV8 == <<Column("lesson_id", "focus_sessions")>>
SchemaV9 == <<Column("uuid", "events"), Index("idx_events_uuid", "events")>>
SchemaV10 == <<Table("retro_entries"), Index("idx_retro_start", "retro_entries")>>
UidStep == <<Column("uid", "lessons"), Index("idx_lessons_uid", "lessons")>>
SchemaV11 == <<SchemaV10[1], SchemaV10[2], UidStep[1], UidStep[2]>>      \* its renumbering repeats the step before
SchemaV12 == <<Table("lesson_attempts"), Index("idx_attempts", "lesson_attempts")>>
SchemaV13 == <<Index("idx_attempts_cursor", "lesson_attempts"), Index("idx_attempts_order", "lesson_attempts")>>

Migrations == <<InitialSchema, SchemaV2, SchemaV3, SchemaV4, SchemaV5, SchemaV6, SchemaV7,
                SchemaV8, SchemaV9, SchemaV10, SchemaV11, SchemaV12, SchemaV13>>
Latest == Len(Migrations)

\* The rows a step stamps after its statements.
Backfilled(t) == CASE t = 9 -> {"events"} [] t = 11 -> {"lessons"} [] OTHER -> {}

Names(stmts) == {stmts[i].name : i \in DOMAIN stmts}
Reached(v) == UNION {Names(Migrations[i]) : i \in 1..v}

-----------------------------------------------------------------------------
Off == [at |-> "off", target |-> 0, next |-> 0, have |-> {}, ids |-> {}]
Identities == {<<"events", 9>>, <<"lessons", 11>>}      \* the version that gave each table its identity

(* A database of any version; or one that died inside the next step; or    *)
(* one that ran the uid step while that step was numbered 10.              *)
Ages == {[v |-> v, has |-> Reached(v) \union {Migrations[v + 1][i].name : i \in 1..k \intersect DOMAIN Migrations[v + 1]}] :
            v \in 0..(Latest - 1), k \in 0..4} \union {[v |-> 10, has |-> Reached(9) \union Names(UidStep)]}

Init ==
    /\ \E a \in {b \in Ages : b.v < Latest} : version = a.v /\ objects = a.has
    /\ old \in {v \in {1, 6, 9, 10, 12} : v <= version} \union {None}
    /\ LET rows == {<<i[1], 0>> : i \in {j \in Identities : j[1] \in objects}}
           stamped == {<<i[1], 0>> : i \in {j \in Identities : version >= j[2]}}
       IN  \E bare \in SUBSET rows :      \* what an older process wrote after the step, too
               /\ rows \ stamped \subseteq bare
               /\ stamps = [r \in rows |-> IF r \in bare THEN None ELSE IF r[1] = "events" THEN 1 ELSE 2]
    /\ start = Off /\ minted = 2 /\ crashes = 0 /\ late = {}

Unstamped == {r \in DOMAIN stamps : stamps[r] = None}

\* A step begins with a look at the columns there are.
Enter(t) == IF t > Latest THEN [Off EXCEPT !.at = "heal"]
            ELSE [at |-> "step", target |-> t, next |-> 1, have |-> objects, ids |-> {}]

InitDb ==
    /\ start.at = "off"
    /\ start' = Enter(version + 1)
    /\ late' = {}
    /\ UNCHANGED <<version, objects, stamps, old, minted, crashes>>

Fails_Unlooked(s) == (s.on # None /\ s.on \notin objects) \/ (s.column /\ s.name \in objects)
Fails(s) == (s.on # None /\ s.on \notin objects) \/ (s.column /\ s.name \notin start.have /\ s.name \in objects)

Statement ==
    /\ start.at = "step"
    /\ LET stmts == Migrations[start.target] IN
       /\ start.next <= Len(stmts)
       /\ IF Fails(stmts[start.next]) THEN start' = [start EXCEPT !.at = "failed"] /\ UNCHANGED objects
          ELSE /\ objects' = objects \union {stmts[start.next].name}
               /\ start' = [start EXCEPT !.next = @ + 1]
    /\ UNCHANGED <<version, stamps, old, minted, crashes, late>>

\* The SELECT of a backfill: the rows it will stamp.
BackfillRead ==
    /\ \/ start.at = "step" /\ start.next > Len(Migrations[start.target])
       \/ start.at = "heal"
    /\ LET tables == IF start.at = "heal" THEN {"events", "lessons"} ELSE Backfilled(start.target)
       IN  start' = [start EXCEPT !.at = IF @ = "heal" THEN "healed" ELSE "stamped",
                                  !.ids = {r \in Unstamped : r[1] \in tables}]
    /\ late' = {}
    /\ UNCHANGED <<version, objects, stamps, old, minted, crashes>>

\* A row that has an identity keeps it: AND uuid IS NULL.
Stamped(ids) ==
    LET order == SetToSeq(ids \intersect Unstamped)
    IN  [r \in DOMAIN stamps |-> IF r \in ToSet(order) THEN minted + CHOOSE i \in DOMAIN order : order[i] = r
                                 ELSE stamps[r]]

BackfillCommit ==
    /\ start.at \in {"stamped", "healed"}
    /\ stamps' = Stamped(start.ids)
    /\ minted' = minted + Cardinality(start.ids)
    /\ start' = [start EXCEPT !.at = IF @ = "healed" THEN "serving" ELSE "bump"]
    /\ UNCHANGED <<version, objects, old, crashes, late>>

BumpVersion ==
    /\ start.at = "bump"
    /\ version' = start.target
    /\ start' = Enter(start.target + 1)
    /\ UNCHANGED <<objects, stamps, old, minted, crashes, late>>

(* The current service inserts rows with their identity, an older process  *)
(* without: its INSERT does not name the column.                           *)
Insert(i) ==
    LET row == <<i[1], Cardinality(DOMAIN stamps)>>
        by(v) == v # None /\ v < i[2]
    IN  /\ i[1] \in objects /\ Cardinality(DOMAIN stamps) < MaxRows
        /\ \/ /\ start.at = "serving"
              /\ stamps' = [r \in DOMAIN stamps \union {row} |-> IF r = row THEN minted + 1 ELSE stamps[r]]
              /\ minted' = minted + 1 /\ UNCHANGED late
           \/ /\ by(old)
              /\ stamps' = [r \in DOMAIN stamps \union {row} |-> IF r = row THEN None ELSE stamps[r]]
              /\ late' = late \union {row} /\ UNCHANGED minted
        /\ UNCHANGED <<version, objects, start, old, crashes>>

OldStops == old # None /\ old' = None /\ UNCHANGED <<version, objects, stamps, start, minted, crashes, late>>

Stop ==
    /\ start.at # "off" /\ crashes < MaxCrashes
    /\ start' = Off /\ crashes' = crashes + 1
    /\ UNCHANGED <<version, objects, stamps, old, minted, late>>

Next ==
    \/ InitDb \/ Statement \/ BackfillRead \/ BackfillCommit \/ BumpVersion
    \/ \E i \in Identities : Insert(i)
    \/ OldStops \/ Stop

Spec == Init /\ [][Next]_vars

-----------------------------------------------------------------------------
(* Properties *)

TypeOK ==
    /\ version \in 0..Latest /\ objects \subseteq Reached(Latest)
    /\ start.at \in {"off", "step", "stamped", "bump", "heal", "healed", "serving", "failed"}
    /\ start.ids \subseteq DOMAIN stamps /\ late \subseteq DOMAIN stamps
    /\ \A r \in DOMAIN stamps : stamps[r] \in {None} \union 1..minted

(* init_db: no start fails on what an earlier one left; a start that gets  *)
(* to serving finds the whole schema, the last version and an identity on  *)
(* every row but those an older process wrote meanwhile; no two rows share *)
(* an identity.                                                            *)
Converged ==
    /\ start.at # "failed"
    /\ start.at = "serving" => objects = Reached(Latest) /\ version = Latest /\ Unstamped \subseteq late
    /\ \A r, s \in DOMAIN stamps : r # s /\ stamps[r] = stamps[s] => stamps[r] = None

\* A step ends like that and takes no identity away.
Converges ==
    /\ Converged'
    /\ \A r \in DOMAIN stamps : stamps[r] # None => r \in DOMAIN stamps' /\ stamps'[r] = stamps[r]

(* No step leaves it otherwise; and, in backfill_event_uuids, "rows that   *)
(* already carry a uuid are never touched", over restarts, repeated steps  *)
(* and older writers.                                                      *)
SchemaConverges == [][Converges]_vars
=============================================================================
