------------------------------ MODULE TaskBoard ------------------------------
(***************************************************************************)
(* Tasks and their lists (services/tasks.py, lists.py): creation, the      *)
(* drag-and-drop that places a task between two neighbours, the respacing  *)
(* of a bucket that has run out of gaps, completion, edits and the         *)
(* archiving of a list.  A call reads the rows it computes from before its *)
(* transaction opens.  The event each write appends is left out here.      *)
(***************************************************************************)
EXTENDS Integers, Sequences, FiniteSets, FiniteSetsExt

CONSTANTS MaxCalls,     \* bound: handlers at work at once
          None,
          Gap,                  \* 10 in the code: the step of fresh sort orders
          Priorities,           \* 0..3 in the code
          MaxTasks, MaxLists, MaxWrites     \* bounds

VARIABLES
    tasks,      \* id -> [list, prio, order, open, kind]
    lists,      \* id -> archived?; list 1 is the Inbox
    calls,      \* handlers between their reads and their commit
    writes      \* commits so far

vars == <<tasks, lists, calls, writes>>

Inbox == 1
Task(l, p, o, k) == [list |-> l, prio |-> p, order |-> o, open |-> TRUE, kind |-> k]

\* The lists and tasks of a first start; equal orders in different lists.
SeedLists == [l \in 1..2 |-> FALSE]
SeedTasks == <<Task(Inbox, 0, Gap, "task"), Task(2, 0, Gap, "task")>>

Init ==
    /\ lists = SeedLists /\ tasks = SeedTasks
    /\ calls = {} /\ writes = 0

Threads == 1..MaxCalls \ {c.by : c \in calls}
Free == writes + Cardinality(calls) < MaxWrites /\ Threads # {}

NextOrder(l) == Max({0} \union {tasks[t].order : t \in {u \in DOMAIN tasks : tasks[u].list = l}}) + Gap

OrderOf(t) == IF t \in DOMAIN tasks THEN {tasks[t].order} ELSE {}

Bucket(p) == {t \in DOMAIN tasks : tasks[t].prio = p /\ tasks[t].open /\ tasks[t].kind = "task"}
Above(f, t, u) == f[t].order < f[u].order \/ (f[t].order = f[u].order /\ t < u)

\* The bucket in the board's order: the place of each of its tasks, from 1.
Ranked(p) == [t \in Bucket(p) |-> Cardinality({u \in Bucket(p) : u = t \/ Above(tasks, u, t)})]

-----------------------------------------------------------------------------
Start(c) == calls' = calls \union {c} /\ UNCHANGED <<tasks, lists, writes>>
Done(c) == calls' = calls \ {c} /\ writes' = writes + 1

CreateTask(l, p, k) ==
    /\ Free /\ Len(tasks) < MaxTasks
    /\ Start([by |-> Min(Threads), op |-> "create", list |-> l, prio |-> p, kind |-> k, order |-> NextOrder(l)])

CreateTaskCommit(c) ==
    /\ c.op = "create"
    /\ IF Len(tasks) < MaxTasks THEN tasks' = Append(tasks, Task(c.list, c.prio, c.order, c.kind)) ELSE UNCHANGED tasks
    /\ Done(c) /\ UNCHANGED lists

Starved_OnlyTies(lo, hi) == \E a \in lo, b \in hi : b - a < 1
Starved(lo, hi) == \E a \in lo, b \in hi : b - a < 2

(* The neighbours' orders, read outside the transaction; without a gap     *)
(* between them the bucket is read for renumbering.                        *)
MoveTask(t, p, above, below) ==
    /\ Free /\ tasks[t].kind = "task"
    /\ Start([by |-> Min(Threads), op |-> IF Starved(OrderOf(above), OrderOf(below)) THEN "respace" ELSE "move",
              task |-> t, prio |-> p, above |-> above, below |-> below,
              lo |-> OrderOf(above), hi |-> OrderOf(below), rows |-> <<>>])

RespaceRead(c) ==
    /\ c.op = "respace"
    /\ calls' = (calls \ {c}) \union {[c EXCEPT !.op = "respaced", !.rows = Ranked(c.prio)]}
    /\ UNCHANGED <<tasks, lists, writes>>

Between(lo, hi) ==
    IF lo # {} /\ hi # {} THEN CHOOSE m \in {(a + b) \div 2 : a \in lo, b \in hi} : TRUE
    ELSE IF lo # {} THEN CHOOSE m \in {a + Gap : a \in lo} : TRUE
    ELSE IF hi # {} THEN CHOOSE m \in {b - Gap : b \in hi} : TRUE
    ELSE 0

Placed(f, c, order) == [f EXCEPT ![c.task].prio = c.prio, ![c.task].order = order]

MoveCommit(c) ==
    /\ c.op = "move"
    /\ tasks' = Placed(tasks, c, Between(c.lo, c.hi))
    /\ Done(c) /\ UNCHANGED lists

Respaced(c) ==
    [t \in DOMAIN tasks |-> IF t \in DOMAIN c.rows THEN [tasks[t] EXCEPT !.order = Gap * c.rows[t]] ELSE tasks[t]]

\* Renumbering, the second look at the neighbours and the move share one transaction.
RespacedMoveCommit(c) ==
    /\ c.op = "respaced"
    /\ LET f == Respaced(c)
       IN  tasks' = Placed(f, c, Between({f[t].order : t \in {c.above} \ {None}},
                                         {f[t].order : t \in {c.below} \ {None}}))
    /\ Done(c) /\ UNCHANGED lists

ToggleComplete(t) ==
    /\ Free
    /\ Start([by |-> Min(Threads), op |-> "toggle", task |-> t, open |-> tasks[t].open])

ToggleCommit(c) ==
    /\ c.op = "toggle"
    /\ tasks' = [tasks EXCEPT ![c.task].open = ~c.open]
    /\ Done(c) /\ UNCHANGED lists

(* The edit form sends every field, and of its reads only existence counts:*)
(* tasks and lists are never deleted, so the call is its transaction.      *)
UpdateTask(t, l, p) ==
    /\ Free
    /\ tasks' = [tasks EXCEPT ![t].list = l, ![t].prio = p]
    /\ writes' = writes + 1 /\ UNCHANGED <<lists, calls>>

CreateList ==
    /\ Free /\ Len(lists) < MaxLists
    /\ lists' = Append(lists, FALSE) /\ writes' = writes + 1
    /\ UNCHANGED <<tasks, calls>>

ArchiveList(l) ==
    /\ Free /\ l # Inbox
    /\ tasks' = [t \in DOMAIN tasks |-> IF tasks[t].list = l THEN [tasks[t] EXCEPT !.list = Inbox] ELSE tasks[t]]
    /\ lists' = [lists EXCEPT ![l] = TRUE]
    /\ writes' = writes + 1 /\ UNCHANGED calls

-----------------------------------------------------------------------------
(* The routes; the board's drop names the rows around the slot, or none.   *)

PostTaskCreate == \E l \in DOMAIN lists, p \in Priorities, k \in {"task", "countdown"} : CreateTask(l, p, k)

PostTaskMove ==
    \E t \in DOMAIN tasks, p \in Priorities, a, b \in DOMAIN tasks \union {None} :
        t \notin {a, b} /\ (a = b => a = None) /\ MoveTask(t, p, a, b)

PostTaskComplete == \E t \in DOMAIN tasks : ToggleComplete(t)
PostTaskUpdate == \E t \in DOMAIN tasks, l \in DOMAIN lists, p \in Priorities : UpdateTask(t, l, p)
PostListCreate == CreateList

Next ==
    \/ PostTaskCreate \/ PostTaskMove \/ PostTaskComplete \/ PostTaskUpdate \/ PostListCreate
    \/ \E l \in DOMAIN lists : ArchiveList(l)
    \/ \E c \in calls : \/ CreateTaskCommit(c) \/ RespaceRead(c) \/ MoveCommit(c) \/ RespacedMoveCommit(c) \/ ToggleCommit(c)

Spec == Init /\ [][Next]_vars

-----------------------------------------------------------------------------
(* Properties *)

TypeOK ==
    /\ \A t \in DOMAIN tasks : /\ tasks[t].list \in DOMAIN lists /\ tasks[t].prio \in Priorities
                               /\ tasks[t].order \in Int /\ tasks[t].open \in BOOLEAN
    /\ lists[Inbox] = FALSE
    /\ writes <= MaxWrites

\* What a move read still stands when it commits.
Fresh(c) ==
    /\ c.op = "move" => c.lo = OrderOf(c.above) /\ c.hi = OrderOf(c.below)
    /\ c.op = "respaced" => c.rows = Ranked(c.prio)

\* The drop slot is one a board can show: open neighbours of the target bucket, in order.
Slot(c) ==
    /\ {c.above, c.below} \ {None} \subseteq Bucket(c.prio)
    /\ None \notin {c.above, c.below} => Above(tasks, c.above, c.below)

OneTaskMoved ==
    \A c \in calls \ calls' :
        c.op \in {"move", "respaced"} /\ Fresh(c) /\ Slot(c) =>
            /\ c.above # None => Above(tasks', c.above, c.task)
            /\ c.below # None => Above(tasks', c.task, c.below)
            /\ \A t, u \in DOMAIN tasks \ {c.task} :
                tasks[t].prio = tasks[u].prio /\ t \in Bucket(tasks[t].prio) /\ u \in Bucket(tasks[u].prio)
                    => (Above(tasks, t, u) <=> Above(tasks', t, u))

(* move_task: the neighbours "should sit directly above/below it after the *)
(* move".  A drag whose reads still stand lands strictly between them and  *)
(* leaves every other pair of tasks in the order it had, through ties,     *)
(* exhausted gaps and renumbering.                                         *)
DragMovesOneTask == [][OneTaskMoved]_vars
=============================================================================
