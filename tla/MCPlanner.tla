----------------------------- MODULE MCPlanner ------------------------------
(***************************************************************************)
(* The planner on small instances.  Its services share a database and no   *)
(* table, so that their steps commute: one service moves in a behaviour,   *)
(* the scene, and the others rest in their initial state.  A scene of its  *)
(* own upgrades the schema before any of them runs.  RetroEntries is       *)
(* extended; the others are instances, and what PlannerProofs proves about *)
(* them keeps their constants.                                             *)
(***************************************************************************)
EXTENDS RetroEntries, TLC

CONSTANTS Words, HabitDays, HabitStatuses, MaxItems, MaxLog,          \* of HabitLedger
          Gap, Priorities, MaxTasks, MaxLists, MaxMoves,                \* of TaskBoard
          Week, LastDay, Intervals, MaxEvents, MaxEdits,                \* of CalendarSeries
          MaxStamped, MaxCrashes                                        \* of SchemaUpgrade

\* An absent column or field is none of the values it could have held.
Attributed == None \notin {"plain", "custom"} /\ None \notin Instants
\* The step of fresh sort orders leaves a place between two neighbours (10 in tasks.py); 0 is no priority.
Boardly == Gap \in Int /\ Gap >= 2 /\ 0 \in Priorities /\ None \notin Nat
\* A week has days, and a rule repeats every so many weeks, one at least.
Calendrical == /\ Week \in Nat \ {0} /\ LastDay \in Nat /\ Intervals \subseteq Nat \ {0}
               /\ None \notin Int
Bounded == {MaxLog, MaxMoves, MaxEdits} \subseteq Nat

ASSUME PlannerConstants == Attributed /\ Boardly /\ Calendrical /\ Bounded

VARIABLES scene,
          items, checks, notes, nextId, log, taps, missed,
          tasks, lists, drags, moves,
          series, skipped, skips, writes, clobbered,
          version, objects, stamps, start, old, minted, crashes, late,
          subject, today, marks, focus, blocks, line,
          day, shown, marked, spans, todos, edits

H == INSTANCE HabitLedger WITH Days <- HabitDays, Statuses <- HabitStatuses, calls <- taps
T == INSTANCE TaskBoard WITH calls <- drags, writes <- moves, MaxWrites <- MaxMoves
C == INSTANCE CalendarSeries WITH calls <- skips, MaxWrites <- MaxEdits
S == INSTANCE SchemaUpgrade WITH MaxRows <- MaxStamped
D == INSTANCE DerivedViews WITH LastDay <- 4, MonthLen <- 3, Goal <- 3, Minutes <- 5, Band <- <<1, 3>>,
                                OpenEnd <- 2, MaxBlocks <- 3, MaxTokens <- 4
P == INSTANCE PlannerPages WITH today <- day, active <- shown, checkins <- marked, sessions <- spans,
                                tasks <- todos, writes <- edits, Habits <- Words, Lessons <- {"l"},
                                WeekLen <- 3, Weeks <- 2, Rows <- 2, MonthLen <- 4, Minute <- 2,
                                LastDay <- 5, MaxWrites <- 2

ledger == <<items, checks, notes, nextId, log, taps, missed>>
board == <<tasks, lists, drags, moves>>
calendar == <<series, skipped, skips, writes, clobbered>>
schema == <<version, objects, stamps, start, old, minted, crashes, late>>
views == <<subject, today, marks, focus, blocks, line>>
pages == <<day, shown, marked, spans, todos, edits>>

Upgraded ==
    /\ version = S!Latest /\ objects = S!Reached(S!Latest) /\ stamps = <<>>
    /\ start = S!Off /\ old = None /\ minted = 0 /\ crashes = 0 /\ late = {}

PlannerInit ==
    /\ scene \in {"habits", "tasks", "calendar", "retro", "schema", "views", "pages"}
    /\ H!Init /\ T!Init /\ C!Init /\ Init /\ D!Init /\ P!Init
    /\ scene = "views" \/ subject = "habit"
    /\ IF scene = "schema" THEN S!Init ELSE Upgraded

PlannerNext ==
    /\ UNCHANGED scene
    /\ \/ scene = "habits" /\ H!Next /\ UNCHANGED <<board, calendar, vars, schema, views, pages>>
       \/ scene = "tasks" /\ T!Next /\ UNCHANGED <<ledger, calendar, vars, schema, views, pages>>
       \/ scene = "calendar" /\ C!Next /\ UNCHANGED <<ledger, board, vars, schema, views, pages>>
       \/ scene = "retro" /\ Next /\ UNCHANGED <<ledger, board, calendar, schema, views, pages>>
       \/ scene = "schema" /\ S!Next /\ UNCHANGED <<ledger, board, calendar, vars, views, pages>>
       \/ scene = "views" /\ D!Next /\ UNCHANGED <<ledger, board, calendar, vars, schema, pages>>
       \/ scene = "pages" /\ P!Next /\ UNCHANGED <<ledger, board, calendar, vars, schema, views>>

PlannerSpec == PlannerInit /\ [][PlannerNext]_<<scene, ledger, board, calendar, vars, schema, views, pages>>

(* What a resting service shows is what it showed at rest: each property  *)
(* is evaluated in its own scene.  RetroHonest is that of RetroEntries.    *)

(* Every row of every table is one its columns and references allow.       *)
TypesOK ==
    /\ H!TypeOK /\ T!TypeOK /\ C!TypeOK /\ TypeOK /\ D!TypeOK /\ P!TypeOK
    /\ scene = "schema" => S!TypeOK

(* As stated in HabitLedger: an export replays to the tables it came from. *)
LedgerReplays == scene = "habits" => H!LedgerReplays

(* As stated in TaskBoard: a drag lands in its slot and moves no other.    *)
DragMovesOneTask == T!DragMovesOneTask

(* As stated in CalendarSeries: a window shows its named, unskipped days.  *)
SeriesHonest == scene = "calendar" => C!SeriesHonest

(* As stated in SchemaUpgrade: every start ends with the whole schema, and *)
(* an identity is given once.                                              *)
SchemaConverges == S!SchemaConverges

(* As stated in DerivedViews and PlannerPages: streaks, rates, the grid of *)
(* a day and quick add are what their rules say, and the pages that show   *)
(* one table over days agree with each other.                              *)
ViewsAgree == (scene = "views" => D!ViewsAgree) /\ (scene = "pages" => P!PagesAgree)
=============================================================================
