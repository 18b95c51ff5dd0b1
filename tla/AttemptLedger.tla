---------------------------- MODULE AttemptLedger ----------------------------
(***************************************************************************)
(* What recording an attempt promises its callers (docs of                 *)
(* app/services/attempts.py, §6.3 idempotency): an append-only ledger in   *)
(* which a key names at most one attempt, and answers that agree with it.  *)
(***************************************************************************)
EXTENDS Integers, Sequences

CONSTANTS
    Requests,   \* POSTs of one lesson's attempts, retries included
    Keys,       \* idempotency keys
    Targets     \* (question, page) pairs a submission may name

VARIABLES
    sub,        \* what each request submits; never changes
    ledger,     \* committed attempts in commit order; an attempt's id is its index
    reply       \* what each request was answered

Submission == [key : Keys, target : Targets]

NoReply == [kind |-> "none", id |-> 0]

Init ==
    /\ sub \in [Requests -> Submission]
    /\ ledger = << >>
    /\ reply = [r \in Requests |-> NoReply]

Holds(i, s) == ledger[i].key = s.key /\ ledger[i].target = s.target

Known(key) == \E i \in DOMAIN ledger : ledger[i].key = key

Commit(r) ==
    /\ ~Known(sub[r].key)
    /\ ledger' = Append(ledger, sub[r])
    /\ UNCHANGED <<sub, reply>>

Reply(r, kind, id) ==
    /\ reply[r] = NoReply
    /\ reply' = [reply EXCEPT ![r] = [kind |-> kind, id |-> id]]
    /\ UNCHANGED <<sub, ledger>>

\* One request is told it recorded an attempt, the others that theirs is a
\* duplicate of it.
Recorded(r, i) ==
    /\ Holds(i, sub[r])
    /\ \A q \in Requests : reply[q] # [kind |-> "recorded", id |-> i]
    /\ Reply(r, "recorded", i)

Duplicate(r, i) == Holds(i, sub[r]) /\ Reply(r, "duplicate", i)

\* The key names another question or page.
Conflict(r) ==
    /\ \E i \in DOMAIN ledger : ledger[i].key = sub[r].key /\ ~Holds(i, sub[r])
    /\ Reply(r, "conflict", 0)

\* A durable outcome wins over every refusal.
Refuse(r, kind) ==
    /\ kind \in {"refused", "limited"}
    /\ ~Known(sub[r].key)
    /\ Reply(r, kind, 0)

\* An internal error, or a process that died: the client learns nothing.
Fail(r) == Reply(r, "failed", 0)

\* A process that dies takes down all its requests at once.
Lose(R) ==
    /\ \A r \in R : reply[r] = NoReply
    /\ reply' = [r \in Requests |-> IF r \in R THEN [kind |-> "failed", id |-> 0]
                                    ELSE reply[r]]
    /\ UNCHANGED <<sub, ledger>>

Next ==
    \/ \E r \in Requests :
         \/ Commit(r) \/ Conflict(r) \/ Fail(r)
         \/ \E i \in DOMAIN ledger : Recorded(r, i) \/ Duplicate(r, i)
         \/ \E kind \in {"refused", "limited"} : Refuse(r, kind)
    \/ \E R \in SUBSET Requests : Lose(R)

Spec == Init /\ [][Next]_<<sub, ledger, reply>>
=============================================================================
