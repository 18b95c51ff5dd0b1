-------------------------- MODULE AttemptRecording --------------------------
(***************************************************************************)
(* record_attempt of app/services/attempts.py: how concurrent POSTs of one *)
(* lesson's attempts become rows.                                          *)
(*                                                                         *)
(* A request is a thread of a server process (`home`).  The bundle lock    *)
(* (`lock`) and the rate window (`window`) are memory of one process;      *)
(* lesson_attempts (`ledger`) is the database both processes of a rolling  *)
(* restart share, where UNIQUE(lesson_id, idempotency_key) and SQLite's    *)
(* write lock are all that orders them.                                    *)
(*                                                                         *)
(* The bundle (manifest, pages) is rewritten at any time by its author, so *)
(* whether it accepts a question is a choice; the projection after the     *)
(* commit is AttemptProjection's.  Submissions refused by their grammar    *)
(* touch nothing and are left out.                                         *)
(***************************************************************************)
EXTENDS Integers, Sequences, FiniteSets

CONSTANTS
    Requests, Keys, Questions, Pages,
    Procs,          \* server processes
    NoRequest,      \* nobody holds the bundle lock
    RateMax,        \* RATE_MAX_PER_WINDOW
    MaxCrashes      \* bound: process crashes

ASSUME RecordingAssumption ==
    /\ NoRequest \notin Requests
    /\ IsFiniteSet(Requests)
    /\ RateMax \in Nat \ {0}
    /\ MaxCrashes \in Nat

VARIABLES
    sub,        \* what each request submits: [key, target, large]
    home,       \* the process that serves it
    ledger,     \* committed rows: [key, target]
    window,     \* window[p]: the charged slots of the last 60 s, oldest first
    lock,       \* lock[p]: the request inside the bundle lock
    call,       \* where each request is: [pc, refusal, id, number]
    reply,      \* what each request was answered: [kind, id, number]
    crashes

vars == <<sub, home, ledger, window, lock, call, reply, crashes>>
request == <<sub, home>>

NoReply == [kind |-> "none", id |-> 0, number |-> 0]
NewCall == [pc |-> "early", refusal |-> "none", id |-> 0, number |-> 0]
\* What a submission answers: a question, on the page it was loaded from.
Target == [question : Questions, page : Pages]
Submission == [key : Keys, target : Target, large : BOOLEAN]

Init ==
    /\ sub \in [Requests -> Submission]
    /\ home \in [Requests -> Procs]
    /\ ledger = << >>
    /\ window = [p \in Procs |-> << >>]
    /\ lock = [p \in Procs |-> NoRequest]
    /\ call = [r \in Requests |-> NewCall]
    /\ reply = [r \in Requests |-> NoReply]
    /\ crashes = 0
-----------------------------------------------------------------------------
At(r, pc) == reply[r] = NoReply /\ call[r].pc = pc

Slots(p) == {window[p][i] : i \in DOMAIN window[p]}

\* The row that already has the request's key, 0 for a fresh key.
RowOf(key) ==
    IF \E i \in DOMAIN ledger : ledger[i].key = key
    THEN CHOOSE i \in DOMAIN ledger : ledger[i].key = key
    ELSE 0

SameTarget(r) == ledger[RowOf(sub[r].key)].target = sub[r].target

Goto(r, pc) ==
    /\ call' = [call EXCEPT ![r].pc = pc]
    /\ UNCHANGED reply

Answer(r, kind, id, number) ==
    /\ reply' = [reply EXCEPT ![r] = [kind |-> kind, id |-> id, number |-> number]]
    /\ call' = [call EXCEPT ![r] = NewCall]

\* window.remove(stamp): the slot of x goes, if it has not expired.
Without(slots, x) ==
    IF \E i \in DOMAIN slots : slots[i] = x
    THEN LET at == CHOOSE i \in DOMAIN slots : slots[i] = x
         IN [i \in 1 .. Len(slots) - 1 |-> slots[IF i < at THEN i ELSE i + 1]]
    ELSE slots

\* _refund_rate
Refund(r) == window' = [window EXCEPT ![home[r]] = Without(@, r)]

\* _replay_or_conflict found the key: the original's attempt, or a conflict.
Replay(r) ==
    IF SameTarget(r)
    THEN Answer(r, "duplicate", RowOf(sub[r].key), 0)
    ELSE Answer(r, "conflict", 0, 0)

LockFree(r) == lock[home[r]] = NoRequest

Acquire(r) == LockFree(r) /\ lock' = [lock EXCEPT ![home[r]] = r]

Release_NotOnReplay(r) ==
    lock' = [lock EXCEPT ![home[r]] = IF RowOf(sub[r].key) = 0 THEN NoRequest ELSE @]
Release(r) == lock' = [lock EXCEPT ![home[r]] = NoRequest]

\* The check under the bundle lock before anything is charged.
EarlyCheck(r) ==
    /\ At(r, "early")
    /\ LockFree(r)
    /\ IF RowOf(sub[r].key) = 0 THEN Goto(r, "charge") ELSE Replay(r)
    /\ UNCHANGED <<request, ledger, window, lock, crashes>>

Refuse_Unlisted(r, refusal) ==
    /\ call' = [call EXCEPT ![r] = [@ EXCEPT !.pc = "recheck", !.refusal = "error"]]
    /\ UNCHANGED reply

\* A refusal waits for the re-check.
Refuse(r, refusal) ==
    /\ call' = [call EXCEPT ![r] = [@ EXCEPT !.pc = "recheck", !.refusal = refusal]]
    /\ UNCHANGED reply

\* _check_rate.
Charge(r) ==
    /\ At(r, "charge")
    /\ IF Len(window[home[r]]) >= RateMax
       THEN Refuse(r, "limited") /\ UNCHANGED window
       ELSE /\ window' = [window EXCEPT ![home[r]] = Append(@, r)]
            /\ Goto(r, "validate")
    /\ UNCHANGED <<request, ledger, lock, crashes>>

\* read_bundle, _require_eligible and the question lookup; then the page is
\* hashed for staleness, still outside the lock.
Validate(r) ==
    /\ At(r, "validate")
    /\ Goto(r, "enter") \/ Refuse(r, "refused")
    /\ UNCHANGED <<request, ledger, window, lock, crashes>>

Known_Assumed(r) == FALSE
Known(r) == RowOf(sub[r].key) # 0

\* A refusal is re-checked under the lock: the durable outcome wins.
Recheck(r) ==
    /\ At(r, "recheck")
    /\ LockFree(r)
    /\ IF Known(r)
       THEN Replay(r) /\ Refund(r)
       ELSE Answer(r, call[r].refusal, 0, 0) /\ UNCHANGED window
    /\ UNCHANGED <<request, ledger, lock, crashes>>

\* _record_locked: the key again, under the lock, then the bound on the line.
Enter(r) ==
    /\ At(r, "enter")
    /\ LockFree(r)
    /\ \/ /\ RowOf(sub[r].key) # 0
          /\ Replay(r)
          /\ Refund(r)
          /\ UNCHANGED lock
       \/ /\ RowOf(sub[r].key) = 0 /\ sub[r].large
          /\ Answer(r, "refused", 0, 0)
          /\ UNCHANGED <<window, lock>>
       \/ /\ RowOf(sub[r].key) = 0 /\ ~sub[r].large
          /\ Goto(r, "insert")
          /\ Acquire(r)
          /\ UNCHANGED window
    /\ UNCHANGED <<request, ledger, crashes>>

\* UNIQUE(lesson_id, idempotency_key): another process committed the key.
KeyTaken(r) == RowOf(sub[r].key) # 0

\* COUNT(*) of the question's rows inside the write transaction, the new one
\* included.
CountOf(rows, target) ==
    Cardinality({i \in DOMAIN rows : rows[i].target.question = target.question})

\* The transaction: event, row and attempt number commit together, or the
\* IntegrityError rolls them back.
Insert(r) ==
    /\ At(r, "insert")
    /\ IF KeyTaken(r)
       THEN /\ Replay(r) /\ Refund(r) /\ Release(r)
            /\ UNCHANGED ledger
       ELSE /\ ledger' = Append(ledger, [key |-> sub[r].key, target |-> sub[r].target])
            /\ call' = [call EXCEPT ![r] = [@ EXCEPT
                          !.pc = "project", !.id = Len(ledger'),
                          !.number = CountOf(ledger', sub[r].target)]]
            /\ UNCHANGED <<window, lock, reply>>
    /\ UNCHANGED <<request, crashes>>

AnsweredNumber_CountedLate(r) == CountOf(ledger, sub[r].target)
AnsweredNumber(r) == call[r].number

\* _project_attempt never raises: the answer is `recorded` either way.
Project(r) ==
    /\ At(r, "project")
    /\ Answer(r, "recorded", call[r].id, AnsweredNumber(r))
    /\ Release(r)
    /\ UNCHANGED <<request, ledger, window, crashes>>

\* An uncaught error (sqlite3.OperationalError, OSError): a 500, the slot
\* stays charged.
Error(r) ==
    /\ reply[r] = NoReply
    /\ call[r].pc # "project"
    /\ Answer(r, "failed", 0, 0)
    /\ IF lock[home[r]] = r THEN Release(r) ELSE UNCHANGED lock
    /\ UNCHANGED <<request, ledger, window, crashes>>

\* The oldest slot leaves the 60 s window.
Expire(p) ==
    /\ window[p] # << >>
    /\ window' = [window EXCEPT ![p] = Tail(@)]
    /\ UNCHANGED <<request, ledger, lock, call, reply, crashes>>

\* The process dies and starts anew: its memory and its requests are gone.
Crash(p) ==
    /\ crashes < MaxCrashes
    /\ crashes' = crashes + 1
    /\ window' = [window EXCEPT ![p] = << >>]
    /\ lock' = [lock EXCEPT ![p] = NoRequest]
    /\ LET dead == {r \in Requests : /\ home[r] = p
                                     /\ reply[r] = NoReply
                                     /\ call[r] # NewCall} IN
       /\ reply' = [r \in Requests |-> IF r \in dead THEN [NoReply EXCEPT !.kind = "failed"]
                                       ELSE reply[r]]
       /\ call' = [r \in Requests |-> IF r \in dead THEN NewCall ELSE call[r]]
    /\ UNCHANGED <<request, ledger>>

Step(r) ==
    \/ EarlyCheck(r) \/ Charge(r) \/ Validate(r) \/ Recheck(r)
    \/ Enter(r) \/ Insert(r) \/ Project(r)

Done == \A r \in Requests : reply[r] # NoReply

Next ==
    \/ \E r \in Requests : Step(r) \/ Error(r)
    \/ \E p \in Procs : Expire(p) \/ Crash(p)
    \/ Done /\ UNCHANGED vars

\* A thread runs; a released lock is taken by one of those waiting for it.
Fairness == \A r \in Requests : WF_vars(Step(r))

Spec == Init /\ [][Next]_vars /\ Fairness
-----------------------------------------------------------------------------
(* Properties. *)

TypeOK ==
    /\ sub \in [Requests -> Submission]
    /\ home \in [Requests -> Procs]
    /\ ledger \in Seq([key : Keys, target : Target])
    /\ window \in [Procs -> Seq(Requests)]
    /\ lock \in [Procs -> Requests \union {NoRequest}]
    /\ call \in [Requests ->
         [pc : {"early", "charge", "validate", "recheck", "enter", "insert", "project"},
          refusal : {"none", "refused", "limited"}, id : Nat, number : Nat]]
    /\ reply \in [Requests ->
         [kind : {"none", "recorded", "duplicate", "conflict", "refused", "limited", "failed"},
          id : Nat, number : Nat]]
    /\ crashes \in 0..MaxCrashes

Ledger == INSTANCE AttemptLedger WITH
    Targets <- Target,
    sub <- [r \in Requests |-> [key |-> sub[r].key, target |-> sub[r].target]],
    reply <- [r \in Requests |-> [kind |-> reply[r].kind, id |-> reply[r].id]]

\* §6.3: one row per key whatever is retried, on whichever process; every
\* answer agrees with the rows, and no refusal hides a durable one.
LedgerKept == Ledger!Spec

\* "Replays and key conflicts are not charged": no slot of a window belongs to
\* a call that was answered so.  attempt_number is the number of that attempt:
\* no two recorded answers for a question share one, whichever processes they
\* came from.
OnlyNewWritesCharged ==
    \A p \in Procs : \A r \in Slots(p) : reply[r].kind \notin {"duplicate", "conflict"}
NumbersDistinct ==
    \A r, q \in Requests :
      /\ reply[r].kind = "recorded" /\ reply[q].kind = "recorded" /\ r # q
      /\ sub[r].target.question = sub[q].target.question
      => reply[r].number # reply[q].number
CountsHonest == OnlyNewWritesCharged /\ NumbersDistinct

\* The bundle lock is let go on every path: each call is answered.
EveryCallAnswered == \A r \in Requests : <>(reply[r] # NoReply)

\* "Retries racing a slow original cannot starve the next real attempt": a key
\* neither the rows nor the charged slots know is rate-limited only by slots of
\* distinct submissions.
RetriesNeverStarve ==
    [][\A r \in Requests :
         /\ call[r].pc = "charge" /\ call'[r].refusal = "limited"
         /\ ~Known(r)
         /\ \A q \in Slots(home[r]) : sub[q].key # sub[r].key
         => \A q, s \in Slots(home[r]) : q # s => sub[q] # sub[s]]_vars
=============================================================================
