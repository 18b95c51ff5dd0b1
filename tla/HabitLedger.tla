----------------------------- MODULE HabitLedger -----------------------------
(***************************************************************************)
(* Habits, check-ins and daily notes (services/items.py, checkins.py), the *)
(* event each write appends, and the replay that rebuilds the tables from  *)
(* an export (scripts/restore_from_export.py).                             *)
(*                                                                         *)
(* Routes run in a thread pool, a connection each.  A handler reads the    *)
(* row it decides on before its transaction opens, so a call is a read and *)
(* later a commit; the commit writes table and event in one transaction.   *)
(***************************************************************************)
EXTENDS Naturals, Sequences, FiniteSetsExt

CONSTANTS Days, Statuses, Words, None,
          MaxItems, MaxLog, MaxCalls    \* bounds: items ever created, events, handlers at once

VARIABLES
    items,      \* routine_items: id -> [title, attrs, active]
    checks,     \* checkins: <<day, id>> -> [status, note, row]
    notes,      \* daily_notes: day -> text
    nextId,     \* AUTOINCREMENT: ids are not reused
    log,        \* events
    calls,      \* handlers between their read and their commit
    missed      \* ghost: a journalled write found another row than it had read

vars == <<items, checks, notes, nextId, log, calls, missed>>

Attrs == {"plain", "custom"}
Put(f, k, v) == [j \in DOMAIN f \union {k} |-> IF j = k THEN v ELSE f[j]]
Drop(f, S) == [k \in DOMAIN f \ S |-> f[k]]
ChecksOf(f, id) == {k \in DOMAIN f : k[2] = id}

-----------------------------------------------------------------------------
(* Events and their replay *)

Created(id, title, attrs) == [type |-> "created", id |-> id, title |-> title, attrs |-> attrs]
Updated(id, title, attrs) == [type |-> "updated", id |-> id, title |-> title, attrs |-> attrs]

\* The seed's and the reactivation's payloads carry no habit attributes.
Sparse(e) == e.attrs = None
Kept_Reset(e, attrs) == IF Sparse(e) THEN "plain" ELSE e.attrs
Kept(e, attrs) == IF Sparse(e) THEN attrs ELSE e.attrs

Nothing == [ok |-> TRUE, items |-> <<>>, checks |-> <<>>, notes |-> <<>>]

ReplayRoutine(s, e) ==
    CASE e.type = "created" ->
             [s EXCEPT !.items = Put(@, e.id, [title |-> e.title, attrs |-> Kept(e, "plain"), active |-> TRUE])]
      [] e.type # "created" /\ e.id \notin DOMAIN s.items -> [s EXCEPT !.ok = FALSE]
      [] e.type = "updated" ->
             [s EXCEPT !.items[e.id] = [title |-> e.title, attrs |-> Kept(e, @.attrs), active |-> (@.active \/ Sparse(e))]]
      [] e.type = "deactivated" -> [s EXCEPT !.items[e.id].active = FALSE]
      [] e.type = "deleted" -> [s EXCEPT !.items = Drop(@, {e.id}), !.checks = Drop(@, ChecksOf(@, e.id))]

ReplayCheckin(s, e) ==
    CASE e.type = "upserted" /\ e.id \in DOMAIN s.items ->
             [s EXCEPT !.checks = Put(@, <<e.day, e.id>>, [status |-> e.status, note |-> e.note])]
      [] e.type = "cleared" /\ <<e.day, e.id>> \in DOMAIN s.checks ->
             [s EXCEPT !.checks = Drop(@, {<<e.day, e.id>>})]
      [] OTHER -> [s EXCEPT !.ok = FALSE]

ReplayNote(s, e) == [s EXCEPT !.notes = Put(@, e.day, e.text)]

\* One transaction: the first record that cannot be replayed refuses the restore.
Replay(s, e) ==
    IF ~s.ok THEN s
    ELSE IF e.type = "noted" THEN ReplayNote(s, e)
    ELSE IF e.type \in {"upserted", "cleared"} THEN ReplayCheckin(s, e)
    ELSE ReplayRoutine(s, e)

Replayed[n \in 0..Len(log)] == IF n = 0 THEN Nothing ELSE Replay(Replayed[n - 1], log[n])
Restored == Replayed[Len(log)]

-----------------------------------------------------------------------------
(* What the routes ask for *)

HabitEdits == [op : {"update"}, id : 1..MaxItems, title : Words, attrs : Attrs]
ItemEdits == [op : {"update"}, id : 1..MaxItems, title : Words, attrs : {None}]
HabitRetirements == [op : {"deactivate", "delete"}, id : 1..MaxItems]
ItemRetirements == [op : {"deactivate", "reactivate"}, id : 1..MaxItems]
Checkins == [op : {"tap"}, id : 1..MaxItems, day : Days, status : Statuses, note : {None}]
            \union [op : {"set"}, id : 1..MaxItems, day : Days, status : {None}, note : Words]
DailyNotes == [op : {"note"}, day : Days, text : Words]

CheckRow(q) == IF <<q.day, q.id>> \in DOMAIN checks THEN checks[<<q.day, q.id>>] ELSE None

Read(q) == CASE q.op = "update" -> items[q.id].attrs
             [] q.op \in {"deactivate", "reactivate", "delete"} -> items[q.id].title
             [] q.op = "note" -> q.day \in DOMAIN notes
             [] OTHER -> CheckRow(q)

Init ==
    /\ items = <<>> /\ checks = <<>> /\ notes = <<>> /\ nextId = 1
    /\ log = <<>> /\ calls = {} /\ missed = FALSE

Threads == 1..MaxCalls \ {c.by : c \in calls}
Free == Len(log) + Cardinality(calls) < MaxLog /\ Threads # {}

(* The handler's read; an unknown item is refused, a note needs a status.  *)
Begin(q) ==
    /\ Free
    /\ q.op # "note" => q.id \in DOMAIN items
    /\ q.op = "set" => CheckRow(q) # None
    /\ calls' = calls \union {[by |-> Min(Threads), q |-> q, seen |-> Read(q)]}
    /\ UNCHANGED <<items, checks, notes, nextId, log, missed>>

(* apply_status: the status it read decides whether the tap clears or      *)
(* sets; the chosen write then reads the row again.                        *)
Decide(c) ==
    /\ c.q.op = "tap"
    /\ LET clears == c.seen # None /\ c.seen.status = c.q.status
           q == [c.q EXCEPT !.op = IF clears THEN "clear" ELSE "set"]
           gone == q.id \notin DOMAIN items \/ (clears /\ CheckRow(q) = None)
       IN  calls' = (calls \ {c}) \union (IF gone THEN {} ELSE {[c EXCEPT !.q = q, !.seen = CheckRow(q)]})
    /\ UNCHANGED <<items, checks, notes, nextId, log, missed>>

Journal(e) == log' = Append(log, e)

Create(title, attrs) ==
    /\ Free /\ nextId <= MaxItems
    /\ items' = Put(items, nextId, [title |-> title, attrs |-> attrs, active |-> TRUE])
    /\ nextId' = nextId + 1
    /\ Journal(Created(nextId, title, attrs))
    /\ UNCHANGED <<checks, notes, calls, missed>>

(* A restart drops what was not committed, and seeds an empty habit table. *)
Restart ==
    /\ calls' = {}
    /\ IF items = <<>> /\ nextId <= MaxItems /\ Len(log) < MaxLog
       THEN \E title \in Words :
                /\ items' = Put(items, nextId, [title |-> title, attrs |-> "plain", active |-> TRUE])
                /\ nextId' = nextId + 1
                /\ Journal(Created(nextId, title, None))
       ELSE calls # {} /\ UNCHANGED <<items, nextId, log>>
    /\ UNCHANGED <<checks, notes, missed>>

\* An UPDATE by id matches nothing once the row is gone; the event is appended all the same.
UpdateItem(c) ==
    /\ c.q.op = "update"
    /\ LET attrs == IF c.q.attrs = None THEN c.seen ELSE c.q.attrs
       IN  /\ items' = IF c.q.id \in DOMAIN items
                       THEN [items EXCEPT ![c.q.id] = [title |-> c.q.title, attrs |-> attrs, active |-> @.active]] ELSE items
           /\ Journal(Updated(c.q.id, c.q.title, attrs))
    /\ missed' = (missed \/ c.q.id \notin DOMAIN items)
    /\ UNCHANGED <<checks, notes>>

SetActive(id, on) == items' = IF id \in DOMAIN items THEN [items EXCEPT ![id].active = on] ELSE items

DeactivateItem(c) ==
    /\ c.q.op = "deactivate"
    /\ SetActive(c.q.id, FALSE)
    /\ Journal([type |-> "deactivated", id |-> c.q.id])
    /\ missed' = (missed \/ c.q.id \notin DOMAIN items)
    /\ UNCHANGED <<checks, notes>>

ReactivateItem(c) ==
    /\ c.q.op = "reactivate"
    /\ SetActive(c.q.id, TRUE)
    /\ Journal(Updated(c.q.id, c.seen, None))
    /\ missed' = (missed \/ c.q.id \notin DOMAIN items \/ items[c.q.id].title # c.seen)
    /\ UNCHANGED <<checks, notes>>

DeleteItem(c) ==
    /\ c.q.op = "delete"
    /\ items' = Drop(items, {c.q.id}) /\ checks' = Drop(checks, ChecksOf(checks, c.q.id))
    /\ Journal([type |-> "deleted", id |-> c.q.id])
    /\ missed' = (missed \/ c.q.id \notin DOMAIN items)
    /\ UNCHANGED notes

Own(c) == LET now == CheckRow(c.q) IN now # None /\ now.row = c.seen.row

\* An INSERT that meets the row or a deleted item fails and rolls back.
UpsertCheckin(c) ==
    /\ c.q.op = "set"
    /\ LET key == <<c.q.day, c.q.id>>
           given(v, old) == IF v # None THEN v ELSE IF c.seen = None THEN None ELSE old
           status == given(c.q.status, c.seen.status)
           note == given(c.q.note, c.seen.note)
           row == IF c.seen = None THEN Len(log) + 1 ELSE c.seen.row
           fails == (c.seen = None) /\ (key \in DOMAIN checks \/ c.q.id \notin DOMAIN items)
       IN  IF fails THEN UNCHANGED <<checks, log, missed>>
           ELSE /\ checks' = IF c.seen = None \/ Own(c) THEN Put(checks, key, [status |-> status, note |-> note, row |-> row])
                             ELSE checks
                /\ Journal([type |-> "upserted", day |-> c.q.day, id |-> c.q.id, status |-> status, note |-> note])
                /\ missed' = (missed \/ (c.seen # None /\ ~Own(c)))
    /\ UNCHANGED <<items, notes>>

ClearCheckin(c) ==
    /\ c.q.op = "clear"
    /\ checks' = IF Own(c) THEN Drop(checks, {<<c.q.day, c.q.id>>}) ELSE checks
    /\ Journal([type |-> "cleared", day |-> c.q.day, id |-> c.q.id])
    /\ missed' = (missed \/ ~Own(c))
    /\ UNCHANGED <<items, notes>>

UpsertDailyNote(c) ==
    /\ c.q.op = "note"
    /\ IF ~c.seen /\ c.q.day \in DOMAIN notes THEN UNCHANGED <<notes, log>>
       ELSE /\ notes' = Put(notes, c.q.day, c.q.text)
            /\ Journal([type |-> "noted", day |-> c.q.day, text |-> c.q.text])
    /\ UNCHANGED <<items, checks, missed>>

Commit(c) ==
    /\ \/ UpdateItem(c) \/ DeactivateItem(c) \/ ReactivateItem(c) \/ DeleteItem(c)
       \/ UpsertCheckin(c) \/ ClearCheckin(c) \/ UpsertDailyNote(c)
    /\ calls' = calls \ {c}
    /\ UNCHANGED nextId

\* The habit form gives attributes, the routine form a title.
PostHabitCreate == \E t \in Words, a \in Attrs : Create(t, a)
PostItemCreate == \E t \in Words : Create(t, "plain")

Next ==
    \/ PostHabitCreate \/ PostItemCreate
    \/ \E q \in HabitEdits \union ItemEdits \union HabitRetirements \union ItemRetirements \union Checkins \union DailyNotes : Begin(q)
    \/ Restart
    \/ \E c \in calls : Decide(c) \/ Commit(c)

Spec == Init /\ [][Next]_vars

-----------------------------------------------------------------------------
(* Properties *)

(* Every table row has its type and every check-in has its item.           *)
TypeOK ==
    /\ DOMAIN items \subseteq 1..(nextId - 1)
    /\ \A id \in DOMAIN items : items[id] \in [title : Words, attrs : Attrs, active : BOOLEAN]
    /\ \A k \in DOMAIN checks :
        /\ k \in Days \X DOMAIN items
        /\ checks[k] \in [status : Statuses, note : Words \union {None}, row : 1..MaxLog]
    /\ DOMAIN notes \subseteq Days /\ \A d \in DOMAIN notes : notes[d] \in Words
    /\ Len(log) <= MaxLog

(* export.py: "Habits, check-ins, and daily notes are semantically         *)
(* replayable".  As long as every journalled write met the row it had      *)
(* read, a restore is accepted and rebuilds the tables: retired and        *)
(* revived habits, deleted ones with their check-ins, toggled taps.        *)
LedgerReplays ==
    ~missed =>
        Restored = [ok |-> TRUE, items |-> items, notes |-> notes,
                    checks |-> [k \in DOMAIN checks |-> [status |-> checks[k].status, note |-> checks[k].note]]]

(* The same sentence without that condition: the restore never refuses the *)
(* service's own export.                                                   *)
RestoreAccepts == Restored.ok
=============================================================================
