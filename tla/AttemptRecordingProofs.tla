----------------------- MODULE AttemptRecordingProofs -----------------------
(* Proofs about AttemptRecording, for any requests, keys, processes and     *)
(* bounds: it implements AttemptLedger, attempt numbers are distinct, and   *)
(* only new writes stay charged to the window of their process.             *)
EXTENDS AttemptRecording, FiniteSetTheorems, TLAPS

Row == [key : Keys, target : Target]
RowFor(r) == [key |-> sub[r].key, target |-> sub[r].target]

CallRecord == [pc : {"early", "charge", "validate", "recheck", "enter", "insert", "project"},
               refusal : {"none", "refused", "limited"}, id : Nat, number : Nat]
ReplyRecord == [kind : {"none", "recorded", "duplicate", "conflict", "refused", "limited", "failed"},
                id : Nat, number : Nat]

Types ==
    /\ sub \in [Requests -> Submission]
    /\ ledger \in Seq(Row)
    /\ call \in [Requests -> CallRecord]
    /\ reply \in [Requests -> ReplyRecord]

\* What row i counts for its question, itself included.
NumberOf(rows, i) == Cardinality({j \in 1..i : rows[j].target.question = rows[i].target.question})

\* A request that committed a row claims it, first in its call and then in
\* its answer.
Claims(r) == call[r].pc = "project" \/ reply[r].kind = "recorded"
ClaimedId(r) == IF call[r].pc = "project" THEN call[r].id ELSE reply[r].id
ClaimedNumber(r) == IF call[r].pc = "project" THEN call[r].number ELSE reply[r].number

Owned(r) ==
    /\ ClaimedId(r) \in DOMAIN ledger
    /\ ledger[ClaimedId(r)] = RowFor(r)
    /\ ClaimedNumber(r) = NumberOf(ledger, ClaimedId(r))

Stages ==
    \A r \in Requests :
        /\ call[r].pc = "recheck" => call[r].refusal \in {"refused", "limited"}
        /\ call[r].pc = "project" => reply[r] = NoReply

\* Each claim is to a row of its own.
ClaimsHold ==
    /\ \A r \in Requests : Claims(r) => Owned(r)
    /\ \A r, q \in Requests : Claims(r) /\ Claims(q) /\ ClaimedId(r) = ClaimedId(q) => r = q

IInv == Types /\ Stages /\ ClaimsHold
-----------------------------------------------------------------------------
(* The invariant *)

LEMMA RowOfFinds ==
  ASSUME Types, NEW key
  PROVE  /\ RowOf(key) = 0 => \A i \in DOMAIN ledger : ledger[i].key # key
         /\ RowOf(key) # 0 => RowOf(key) \in DOMAIN ledger /\ ledger[RowOf(key)].key = key
<1>1. DOMAIN ledger = 1..Len(ledger) /\ Len(ledger) \in Nat
  BY DEF Types
<1>2. 0 \notin DOMAIN ledger
  BY <1>1
<1> QED
  BY <1>2 DEF RowOf

\* A step that commits nothing and adds no claim.
LEMMA NoNewClaim ==
  ASSUME IInv, ledger' = ledger, sub' = sub, Types', Stages',
         \A r \in Requests : Claims(r)' => /\ Claims(r)
                                           /\ ClaimedId(r)' = ClaimedId(r)
                                           /\ ClaimedNumber(r)' = ClaimedNumber(r)
  PROVE  IInv'
<1>1. ASSUME NEW r \in Requests, Claims(r)' PROVE Owned(r)'
  <2>1. Owned(r) /\ ClaimedId(r)' = ClaimedId(r) /\ ClaimedNumber(r)' = ClaimedNumber(r)
    BY <1>1 DEF IInv, ClaimsHold
  <2> QED
    BY <2>1 DEF Owned, RowFor
<1>2. \A r, q \in Requests : Claims(r)' /\ Claims(q)' /\ ClaimedId(r)' = ClaimedId(q)' => r = q
  BY DEF IInv, ClaimsHold
<1> QED
  BY <1>1, <1>2 DEF IInv, ClaimsHold

\* A call goes on, short of the commit.
LEMMA CallGoesOn ==
  ASSUME IInv, NEW r \in Requests, NEW c \in CallRecord, reply[r] = NoReply,
         call' = [call EXCEPT ![r] = c], reply' = reply, ledger' = ledger, sub' = sub,
         c.pc # "project", c.pc = "recheck" => c.refusal \in {"refused", "limited"}
  PROVE  IInv'
<1>1. call'[r] = c /\ \A q \in Requests \ {r} : call'[q] = call[q]
  BY DEF IInv, Types
<1>2. Types' /\ Stages'
  BY <1>1 DEF IInv, Types, Stages
<1>3. ~Claims(r)'
  BY <1>1 DEF Claims, NoReply
<1> QED
  BY <1>1, <1>2, <1>3, NoNewClaim DEF Claims, ClaimedId, ClaimedNumber

\* A call ends; one that had committed is told what it claims.
LEMMA CallEnds ==
  ASSUME IInv, NEW r \in Requests, NEW kind, NEW id \in Nat, NEW number \in Nat, reply[r] = NoReply,
         kind \in {"recorded", "duplicate", "conflict", "refused", "limited", "failed"},
         kind = "recorded" => call[r].pc = "project" /\ id = call[r].id /\ number = call[r].number,
         Answer(r, kind, id, number), ledger' = ledger, sub' = sub
  PROVE  IInv'
<1>1. /\ call'[r] = NewCall /\ reply'[r] = [kind |-> kind, id |-> id, number |-> number]
      /\ \A q \in Requests \ {r} : call'[q] = call[q] /\ reply'[q] = reply[q]
  BY DEF IInv, Types, Answer
<1>2. NewCall \in CallRecord /\ NewCall.pc = "early"
  BY DEF NewCall, CallRecord
<1>3. [kind |-> kind, id |-> id, number |-> number] \in ReplyRecord
  BY DEF ReplyRecord
<1>4. Types'
  BY <1>2, <1>3 DEF IInv, Types, Answer
<1>5. Stages'
  BY <1>1, <1>2 DEF IInv, Stages
<1>6. ASSUME NEW q \in Requests, Claims(q)'
      PROVE  Claims(q) /\ ClaimedId(q)' = ClaimedId(q) /\ ClaimedNumber(q)' = ClaimedNumber(q)
  <2>1. CASE q = r
    BY <2>1, <1>1, <1>2, <1>6 DEF Claims, ClaimedId, ClaimedNumber
  <2>2. CASE q # r
    BY <2>2, <1>1, <1>6 DEF Claims, ClaimedId, ClaimedNumber
  <2> QED
    BY <2>1, <2>2
<1> QED
  BY <1>4, <1>5, <1>6, NoNewClaim

LEMMA RefuseKeeps ==
  ASSUME IInv, NEW r \in Requests, reply[r] = NoReply, NEW refusal \in {"refused", "limited"},
         Refuse(r, refusal), ledger' = ledger, sub' = sub
  PROVE  IInv'
<1>1. call[r] \in CallRecord
  BY DEF IInv, Types
<1>2. [call[r] EXCEPT !.pc = "recheck", !.refusal = refusal] \in CallRecord
  BY <1>1 DEF CallRecord
<1>3. /\ [call[r] EXCEPT !.pc = "recheck", !.refusal = refusal].pc = "recheck"
      /\ [call[r] EXCEPT !.pc = "recheck", !.refusal = refusal].refusal = refusal
  BY <1>1 DEF CallRecord
<1>4. call' = [call EXCEPT ![r] = [call[r] EXCEPT !.pc = "recheck", !.refusal = refusal]]
      /\ reply' = reply
  BY DEF Refuse
<1> QED
  BY <1>2, <1>3, <1>4, CallGoesOn

LEMMA GotoKeeps ==
  ASSUME IInv, NEW r \in Requests, reply[r] = NoReply, NEW pc \in {"charge", "validate", "enter", "insert"},
         Goto(r, pc), ledger' = ledger, sub' = sub
  PROVE  IInv'
<1>1. call[r] \in CallRecord
  BY DEF IInv, Types
<1>2. [call[r] EXCEPT !.pc = pc] \in CallRecord /\ [call[r] EXCEPT !.pc = pc].pc = pc
  BY <1>1 DEF CallRecord
<1>3. call' = [call EXCEPT ![r] = [call[r] EXCEPT !.pc = pc]] /\ reply' = reply
  BY DEF Goto
<1> QED
  BY <1>2, <1>3, CallGoesOn
-----------------------------------------------------------------------------
(* The refinement *)

\* An answer is a reply of the abstract ledger.
LEMMA AnswerReplies ==
  ASSUME IInv, NEW r \in Requests, NEW kind, NEW id, NEW number, reply[r] = NoReply,
         Answer(r, kind, id, number), ledger' = ledger, sub' = sub
  PROVE  Ledger!Reply(r, kind, id)
<1> DEFINE shown == [q \in Requests |-> [kind |-> reply[q].kind, id |-> reply[q].id]]
           later == [q \in Requests |-> [kind |-> reply'[q].kind, id |-> reply'[q].id]]
<1>1. shown[r] = [kind |-> "none", id |-> 0]
  BY DEF NoReply
<1>2. reply'[r] = [kind |-> kind, id |-> id, number |-> number]
      /\ \A q \in Requests \ {r} : reply'[q] = reply[q]
  BY DEF Answer, IInv, Types
<1>3. later = [shown EXCEPT ![r] = [kind |-> kind, id |-> id]]
  <2>1. later[r] = [kind |-> kind, id |-> id]
    BY <1>2
  <2>2. \A q \in Requests \ {r} : later[q] = shown[q]
    BY <1>2
  <2>3. DOMAIN later = Requests /\ DOMAIN shown = Requests
        /\ later = [q \in Requests |-> later[q]]
    OBVIOUS
  <2>4. shown = [q \in Requests |-> shown[q]]
    OBVIOUS
  <2> HIDE DEF later, shown
  <2> QED
    BY <2>1, <2>2, <2>3, <2>4
<1> QED
  BY <1>1, <1>3 DEF Ledger!Reply, Ledger!NoReply

\* The key is held: the answer is the row's, or that the row is another's.
LEMMA ReplayReplies ==
  ASSUME IInv, NEW r \in Requests, reply[r] = NoReply, RowOf(sub[r].key) # 0,
         Replay(r), ledger' = ledger, sub' = sub
  PROVE  IInv' /\ Ledger!Next
<1> PICK i : i = RowOf(sub[r].key)
  OBVIOUS
<1>1. i \in DOMAIN ledger /\ ledger[i].key = sub[r].key /\ i \in Nat
  BY RowOfFinds DEF IInv, Types
<1>2. CASE SameTarget(r)
  <2>1. Answer(r, "duplicate", i, 0)
    BY <1>2 DEF Replay
  <2>2. Ledger!Reply(r, "duplicate", i)
    BY <2>1, AnswerReplies
  <2>3. Ledger!Holds(i, [key |-> sub[r].key, target |-> sub[r].target])
    BY <1>1, <1>2 DEF Ledger!Holds, SameTarget
  <2>4. Ledger!Duplicate(r, i)
    BY <2>2, <2>3 DEF Ledger!Duplicate
  <2>5. IInv'
    BY <2>1, <1>1, CallEnds
  <2> QED
    BY <1>1, <2>4, <2>5 DEF Ledger!Next
<1>3. CASE ~SameTarget(r)
  <2>1. Answer(r, "conflict", 0, 0)
    BY <1>3 DEF Replay
  <2>2. Ledger!Reply(r, "conflict", 0)
    BY <2>1, AnswerReplies
  <2>3. ~Ledger!Holds(i, [key |-> sub[r].key, target |-> sub[r].target])
    BY <1>1, <1>3 DEF Ledger!Holds, SameTarget
  <2>4. Ledger!Conflict(r)
    BY <1>1, <2>2, <2>3 DEF Ledger!Conflict
  <2>5. IInv'
    BY <2>1, CallEnds
  <2> QED
    BY <2>4, <2>5 DEF Ledger!Next
<1> QED
  BY <1>2, <1>3

\* The key is not held: a refusal hides nothing.
LEMMA RefusalReplies ==
  ASSUME IInv, NEW r \in Requests, reply[r] = NoReply, RowOf(sub[r].key) = 0,
         NEW kind \in {"refused", "limited"}, Answer(r, kind, 0, 0), ledger' = ledger, sub' = sub
  PROVE  IInv' /\ Ledger!Next
<1>1. IInv'
  BY CallEnds
<1>2. Ledger!Reply(r, kind, 0)
  BY AnswerReplies
<1>3. ~Ledger!Known(sub[r].key)
  BY RowOfFinds DEF Ledger!Known, IInv
<1>4. Ledger!Refuse(r, kind)
  BY <1>2, <1>3 DEF Ledger!Refuse
<1> QED
  BY <1>1, <1>4 DEF Ledger!Next
-----------------------------------------------------------------------------
(* The steps *)

LEMMA CheckKeeps ==
  ASSUME IInv, NEW r \in Requests, EarlyCheck(r) \/ Recheck(r)
  PROVE  IInv' /\ (Ledger!Next \/ UNCHANGED <<sub, ledger, reply>>)
<1>1. reply[r] = NoReply /\ ledger' = ledger /\ sub' = sub
  BY DEF EarlyCheck, Recheck, At, request
<1>2. CASE RowOf(sub[r].key) # 0
  <2>1. Replay(r)
    BY <1>2 DEF EarlyCheck, Recheck, Known
  <2> QED
    BY <1>1, <1>2, <2>1, ReplayReplies
<1>3. CASE RowOf(sub[r].key) = 0 /\ EarlyCheck(r)
  <2>1. Goto(r, "charge")
    BY <1>3 DEF EarlyCheck
  <2>2. reply' = reply
    BY <2>1 DEF Goto
  <2> QED
    BY <1>1, <2>1, <2>2, GotoKeeps
<1>4. CASE RowOf(sub[r].key) = 0 /\ Recheck(r)
  <2>1. PICK refusal : refusal = call[r].refusal
    OBVIOUS
  <2>2. refusal \in {"refused", "limited"}
    BY <1>4, <2>1 DEF Recheck, At, IInv, Stages
  <2>3. Answer(r, refusal, 0, 0)
    BY <1>4, <2>1 DEF Recheck, Known
  <2> QED
    BY <1>1, <1>4, <2>2, <2>3, RefusalReplies
<1> QED
  BY <1>2, <1>3, <1>4

LEMMA ChargeKeeps ==
  ASSUME IInv, NEW r \in Requests, Charge(r) \/ Validate(r)
  PROVE  IInv' /\ UNCHANGED <<sub, ledger, reply>>
<1>1. reply[r] = NoReply /\ ledger' = ledger /\ sub' = sub
  BY DEF Charge, Validate, At, request
<1>2. \/ Goto(r, "validate") \/ Goto(r, "enter")
      \/ Refuse(r, "limited") \/ Refuse(r, "refused")
  BY DEF Charge, Validate
<1>3. reply' = reply
  BY <1>2 DEF Goto, Refuse
<1> QED
  BY <1>1, <1>2, <1>3, GotoKeeps, RefuseKeeps

LEMMA EnterKeeps ==
  ASSUME IInv, NEW r \in Requests, Enter(r)
  PROVE  IInv' /\ (Ledger!Next \/ UNCHANGED <<sub, ledger, reply>>)
<1>1. reply[r] = NoReply /\ ledger' = ledger /\ sub' = sub
  BY DEF Enter, At, request
<1>2. CASE RowOf(sub[r].key) # 0
  BY <1>1, <1>2, ReplayReplies DEF Enter
<1>3. CASE RowOf(sub[r].key) = 0 /\ sub[r].large
  BY <1>1, <1>3, RefusalReplies DEF Enter
<1>4. CASE RowOf(sub[r].key) = 0 /\ ~sub[r].large
  <2>1. Goto(r, "insert") /\ reply' = reply
    BY <1>4 DEF Enter, Goto
  <2> QED
    BY <1>1, <2>1, GotoKeeps
<1> QED
  BY <1>2, <1>3, <1>4

\* Appending a row changes no number before it, and counts for its own.
LEMMA NumbersStay ==
  ASSUME NEW rows \in Seq(Row), NEW row \in Row
  PROVE  /\ \A i \in DOMAIN rows : NumberOf(Append(rows, row), i) = NumberOf(rows, i)
         /\ CountOf(Append(rows, row), row.target) = NumberOf(Append(rows, row), Len(rows) + 1)
<1> DEFINE more == Append(rows, row)
<1>1. /\ Len(rows) \in Nat /\ DOMAIN rows = 1..Len(rows) /\ DOMAIN more = 1..(Len(rows) + 1)
      /\ more[Len(rows) + 1] = row /\ \A i \in 1..Len(rows) : more[i] = rows[i]
  OBVIOUS
<1> HIDE DEF more
<1>2. ASSUME NEW i \in DOMAIN rows PROVE NumberOf(more, i) = NumberOf(rows, i)
  <2>1. {j \in 1..i : more[j].target.question = more[i].target.question}
        = {j \in 1..i : rows[j].target.question = rows[i].target.question}
    BY <1>1
  <2> QED
    BY <2>1 DEF NumberOf
<1>3. CountOf(more, row.target) = NumberOf(more, Len(rows) + 1)
  BY <1>1 DEF CountOf, NumberOf
<1> QED
  BY <1>2, <1>3 DEF more

LEMMA InsertKeeps ==
  ASSUME IInv, NEW r \in Requests, Insert(r)
  PROVE  IInv' /\ Ledger!Next
<1>1. reply[r] = NoReply /\ call[r].pc = "insert" /\ sub' = sub
  BY DEF Insert, At, request
<1>2. CASE KeyTaken(r)
  <2>1. ledger' = ledger /\ Replay(r) /\ RowOf(sub[r].key) # 0
    BY <1>2 DEF Insert, KeyTaken
  <2> QED
    BY <1>1, <2>1, ReplayReplies
<1>3. CASE ~KeyTaken(r)
  <2> PICK row, number, n : row = RowFor(r) /\ number = CountOf(ledger', sub[r].target) /\ n = Len(ledger)
    OBVIOUS
  <2>1. row \in Row /\ row.target = sub[r].target
    BY DEF IInv, Types, Submission, Row, RowFor
  <2>2. /\ ledger' = Append(ledger, row) /\ reply' = reply
        /\ call' = [call EXCEPT ![r] = [call[r] EXCEPT !.pc = "project", !.id = Len(ledger'), !.number = number]]
    BY <1>3 DEF Insert, RowFor
  <2>3. /\ n \in Nat /\ ledger \in Seq(Row) /\ ledger' \in Seq(Row) /\ Len(ledger') = n + 1
        /\ DOMAIN ledger = 1..n /\ DOMAIN ledger' = 1..(n + 1)
        /\ ledger'[n + 1] = row /\ \A i \in 1..n : ledger'[i] = ledger[i]
    BY <2>1, <2>2 DEF IInv, Types
  <2>4. /\ \A i \in 1..n : NumberOf(ledger', i) = NumberOf(ledger, i)
        /\ number = NumberOf(ledger', n + 1)
    BY <2>1, <2>2, <2>3, NumbersStay
  <2>5. number \in Nat
    <3> DEFINE same == {j \in 1..(n + 1) : ledger'[j].target.question = ledger'[n + 1].target.question}
    <3>1. IsFiniteSet(1..(n + 1)) /\ same \in SUBSET (1..(n + 1))
      BY <2>3, FS_Interval
    <3>2. IsFiniteSet(same)
      <4> HIDE DEF same
      <4> QED
        BY <3>1, FS_Subset
    <3> QED
      BY <3>2, <2>4, FS_CardinalityType DEF NumberOf
  <2> DEFINE c == [call[r] EXCEPT !.pc = "project", !.id = Len(ledger'), !.number = number]
  <2>6. c \in CallRecord /\ c.pc = "project" /\ c.id = n + 1 /\ c.number = number
    <3>1. call[r] \in CallRecord
      BY DEF IInv, Types
    <3>2. Len(ledger') = n + 1 /\ n + 1 \in Nat
      BY <2>3
    <3> QED
      BY <3>1, <3>2, <2>5 DEF CallRecord
  <2>7. call' = [call EXCEPT ![r] = c]
    BY <2>2
  <2> HIDE DEF c
  <2>8. call'[r] = c /\ \A q \in Requests \ {r} : call'[q] = call[q]
    BY <2>7 DEF IInv, Types
  <2>9. Types' /\ Stages'
    BY <1>1, <2>2, <2>3, <2>6, <2>7, <2>8 DEF IInv, Types, Stages
  <2>10. Owned(r)' /\ ClaimedId(r)' = n + 1
    BY <1>1, <2>3, <2>4, <2>6, <2>8 DEF Owned, ClaimedId, ClaimedNumber, RowFor
  <2>11. ASSUME NEW q \in Requests \ {r}, Claims(q)'
         PROVE  /\ Claims(q) /\ ClaimedId(q)' = ClaimedId(q) /\ ClaimedId(q) \in 1..n
                /\ Owned(q)'
    <3>1. Claims(q) /\ ClaimedId(q)' = ClaimedId(q) /\ ClaimedNumber(q)' = ClaimedNumber(q)
      BY <2>2, <2>8, <2>11 DEF Claims, ClaimedId, ClaimedNumber
    <3>2. Owned(q)
      BY <3>1 DEF IInv, ClaimsHold
    <3> QED
      BY <1>1, <3>1, <3>2, <2>3, <2>4 DEF Owned, RowFor
  <2>12. ClaimsHold'
    <3>1. \A q \in Requests : Claims(q)' => Owned(q)'
      BY <2>10, <2>11
    <3>2. ASSUME NEW p \in Requests, NEW q \in Requests, Claims(p)', Claims(q)',
                 ClaimedId(p)' = ClaimedId(q)', p # q
          PROVE  FALSE
      <4>1. CASE p # r /\ q # r
        BY <3>2, <4>1, <2>11 DEF IInv, ClaimsHold
      <4>2. CASE p = r
        <5>1. q \in Requests \ {r} /\ ClaimedId(q)' \in 1..n
          BY <3>2, <4>2, <2>11
        <5>2. ClaimedId(q)' = n + 1
          BY <3>2, <4>2, <2>10
        <5> QED
          BY <5>1, <5>2, <2>3
      <4>3. CASE q = r
        BY <3>2, <4>3, <2>3, <2>10, <2>11
      <4> QED
        BY <4>1, <4>2, <4>3
    <3> QED
      BY <3>1, <3>2 DEF ClaimsHold
  <2>13. Ledger!Commit(r)
    <3>1. ~Ledger!Known(sub[r].key)
      BY <1>3, RowOfFinds DEF Ledger!Known, IInv, KeyTaken
    <3> QED
      BY <1>1, <2>2, <3>1 DEF Ledger!Commit, RowFor
  <2> QED
    BY <2>9, <2>12, <2>13 DEF IInv, Ledger!Next
<1> QED
  BY <1>2, <1>3

\* Only the request that committed a row is told it recorded it.
LEMMA ProjectKeeps ==
  ASSUME IInv, NEW r \in Requests, Project(r)
  PROVE  IInv' /\ Ledger!Next
<1> PICK id, number : id = call[r].id /\ number = call[r].number
  OBVIOUS
<1>1. /\ reply[r] = NoReply /\ call[r].pc = "project" /\ Answer(r, "recorded", id, number)
      /\ ledger' = ledger /\ sub' = sub
  BY DEF Project, At, AnsweredNumber, request
<1>2. id \in Nat /\ number \in Nat
  BY DEF IInv, Types, CallRecord
<1>3. IInv'
  BY <1>1, <1>2, CallEnds
<1>4. Claims(r) /\ ClaimedId(r) = id
  BY <1>1 DEF Claims, ClaimedId
<1>5. id \in DOMAIN ledger /\ ledger[id] = RowFor(r)
  BY <1>4 DEF IInv, ClaimsHold, Owned
<1>6. ASSUME NEW q \in Requests, reply[q].kind = "recorded", reply[q].id = id PROVE FALSE
  <2>1. call[q].pc # "project"
    BY <1>6 DEF IInv, Stages, NoReply
  <2>2. Claims(q) /\ ClaimedId(q) = id
    BY <1>6, <2>1 DEF Claims, ClaimedId
  <2>3. q = r
    BY <1>4, <2>2 DEF IInv, ClaimsHold
  <2> QED
    BY <1>1, <1>6, <2>3 DEF NoReply
<1>7. Ledger!Reply(r, "recorded", id)
  BY <1>1, AnswerReplies
<1>8. Ledger!Recorded(r, id)
  BY <1>5, <1>6, <1>7 DEF Ledger!Recorded, Ledger!Holds, RowFor
<1> QED
  BY <1>3, <1>5, <1>8 DEF Ledger!Next

LEMMA ErrorKeeps ==
  ASSUME IInv, NEW r \in Requests, Error(r)
  PROVE  IInv' /\ Ledger!Next
<1>1. reply[r] = NoReply /\ Answer(r, "failed", 0, 0) /\ ledger' = ledger /\ sub' = sub
  BY DEF Error, request
<1>2. Ledger!Reply(r, "failed", 0)
  BY <1>1, AnswerReplies
<1>3. IInv'
  BY <1>1, CallEnds
<1> QED
  BY <1>2, <1>3 DEF Ledger!Next, Ledger!Fail

\* A process that dies answers its requests with silence and unclaims what
\* they had not yet told.
LEMMA CrashKeeps ==
  ASSUME IInv, NEW p \in Procs, Crash(p)
  PROVE  IInv' /\ Ledger!Next
<1> PICK dead : dead = {r \in Requests : home[r] = p /\ reply[r] = NoReply /\ call[r] # NewCall}
  OBVIOUS
<1>1. /\ dead \subseteq Requests /\ \A r \in dead : reply[r] = NoReply
      /\ reply' = [r \in Requests |-> IF r \in dead THEN [NoReply EXCEPT !.kind = "failed"] ELSE reply[r]]
      /\ call' = [r \in Requests |-> IF r \in dead THEN NewCall ELSE call[r]]
      /\ ledger' = ledger /\ sub' = sub
  BY DEF Crash, request
<1>2. NewCall \in CallRecord /\ NewCall.pc = "early"
  BY DEF NewCall, CallRecord
<1>3. [NoReply EXCEPT !.kind = "failed"] = [kind |-> "failed", id |-> 0, number |-> 0]
  BY DEF NoReply
<1>4. [kind |-> "failed", id |-> 0, number |-> 0] \in ReplyRecord
  BY DEF ReplyRecord
<1>5. Types'
  BY <1>1, <1>2, <1>3, <1>4 DEF IInv, Types
<1>6. Stages'
  BY <1>1, <1>2 DEF IInv, Stages
<1>7. \A r \in Requests : Claims(r)' => /\ Claims(r)
                                        /\ ClaimedId(r)' = ClaimedId(r)
                                        /\ ClaimedNumber(r)' = ClaimedNumber(r)
  BY <1>1, <1>2, <1>3 DEF Claims, ClaimedId, ClaimedNumber
<1>8. IInv'
  BY <1>1, <1>5, <1>6, <1>7, NoNewClaim
<1>9. Ledger!Lose(dead)
  BY <1>1, <1>3 DEF Ledger!Lose, Ledger!NoReply, NoReply
<1> QED
  BY <1>1, <1>8, <1>9 DEF Ledger!Next
-----------------------------------------------------------------------------
(* The specification *)

LEMMA InitHolds ==
  ASSUME Init
  PROVE  IInv /\ Ledger!Init
<1>1. NewCall \in CallRecord /\ NewCall.pc = "early" /\ NoReply \in ReplyRecord /\ NoReply.kind = "none"
      /\ NoReply.id = 0
  BY DEF NewCall, CallRecord, NoReply, ReplyRecord
<1>2. << >> \in Seq(Row)
  OBVIOUS
<1>3. Types
  BY <1>1, <1>2 DEF Init, Types
<1>4. Stages /\ ClaimsHold
  BY <1>1 DEF Init, Stages, ClaimsHold, Claims
<1>5. Ledger!Init
  <2>1. \A r \in Requests : [key |-> sub[r].key, target |-> sub[r].target] \in Ledger!Submission
    BY DEF Init, Submission, Ledger!Submission
  <2> QED
    BY <1>1, <2>1 DEF Init, Ledger!Init, Ledger!NoReply
<1> QED
  BY <1>3, <1>4, <1>5 DEF IInv

LEMMA StepHolds ==
  ASSUME IInv, [Next]_vars
  PROVE  IInv' /\ (Ledger!Next \/ UNCHANGED <<sub, ledger, reply>>)
<1>1. CASE UNCHANGED vars
  BY <1>1 DEF vars, IInv, Types, Stages, ClaimsHold, Claims, ClaimedId, ClaimedNumber, Owned, RowFor
<1>2. ASSUME NEW r \in Requests, Step(r) \/ Error(r)
      PROVE  IInv' /\ (Ledger!Next \/ UNCHANGED <<sub, ledger, reply>>)
  BY <1>2, CheckKeeps, ChargeKeeps, EnterKeeps, InsertKeeps, ProjectKeeps, ErrorKeeps DEF Step
<1>3. ASSUME NEW p \in Procs, Expire(p)
      PROVE  IInv' /\ (Ledger!Next \/ UNCHANGED <<sub, ledger, reply>>)
  BY <1>3 DEF Expire, request, IInv, Types, Stages, ClaimsHold, Claims, ClaimedId, ClaimedNumber, Owned, RowFor
<1> QED
  BY <1>1, <1>2, <1>3, CrashKeeps DEF Next

LEMMA Inductive == Spec => []IInv
<1>1. Init => IInv
  BY InitHolds
<1>2. IInv /\ [Next]_vars => IInv'
  BY StepHolds
<1> QED
  BY <1>1, <1>2, PTL DEF Spec

\* record_attempt over processes that share only the database implements the
\* ledger it promises: one row per key whatever is retried, answers that agree
\* with the rows, and no refusal that hides a durable outcome.
THEOREM KeepsLedger == Spec => LedgerKept
<1>1. Init => Ledger!Init
  BY InitHolds
<1>2. IInv /\ [Next]_vars => Ledger!Next \/ UNCHANGED <<sub, ledger, reply>>
  BY StepHolds
<1>3. UNCHANGED <<sub, ledger, reply>> =>
        UNCHANGED <<[r \in Requests |-> [key |-> sub[r].key, target |-> sub[r].target]], ledger,
                    [r \in Requests |-> [kind |-> reply[r].kind, id |-> reply[r].id]]>>
  OBVIOUS
<1>4. IInv /\ [Next]_vars =>
        [Ledger!Next]_<<[r \in Requests |-> [key |-> sub[r].key, target |-> sub[r].target]], ledger,
                        [r \in Requests |-> [kind |-> reply[r].kind, id |-> reply[r].id]]>>
  BY <1>2, <1>3
<1> QED
  BY <1>1, <1>4, Inductive, PTL DEF Spec, LedgerKept, Ledger!Spec

\* attempt_number: no two recorded answers for one question share a number,
\* whichever processes counted them.
THEOREM DistinctNumbers == Spec => []NumbersDistinct
<1> DEFINE before(i) == {j \in 1..i : ledger[j].target.question = ledger[i].target.question}
<1>1. ASSUME IInv, NEW i \in DOMAIN ledger, NEW j \in DOMAIN ledger, i < j,
             ledger[i].target.question = ledger[j].target.question
      PROVE  NumberOf(ledger, i) # NumberOf(ledger, j)
  <2>1. i \in Nat /\ j \in Nat
    BY <1>1 DEF IInv, Types
  <2>2. before(j) \in SUBSET (1..j) /\ before(i) \in SUBSET before(j) /\ j \in before(j) /\ j \notin before(i)
    BY <1>1, <2>1
  <2> HIDE DEF before
  <2>3. IsFiniteSet(before(j))
    <3>1. IsFiniteSet(1..j)
      BY <2>1, FS_Interval
    <3> QED
      BY <2>2, <3>1, FS_Subset
  <2>4. Cardinality(before(i)) # Cardinality(before(j))
    BY <2>2, <2>3, FS_Subset
  <2> QED
    BY <2>4 DEF NumberOf, before
<1>2. ASSUME IInv, NEW r \in Requests, NEW q \in Requests, r # q,
             reply[r].kind = "recorded", reply[q].kind = "recorded",
             sub[r].target.question = sub[q].target.question
      PROVE  reply[r].number # reply[q].number
  <2>1. ASSUME NEW s \in Requests, reply[s].kind = "recorded"
        PROVE  /\ Claims(s) /\ ClaimedId(s) = reply[s].id /\ reply[s].id \in DOMAIN ledger
               /\ ledger[reply[s].id].target = sub[s].target
               /\ reply[s].number = NumberOf(ledger, reply[s].id)
    <3>1. call[s].pc # "project"
      BY <1>2, <2>1 DEF IInv, Stages, NoReply
    <3>2. Claims(s) /\ Owned(s)
      BY <1>2, <2>1 DEF Claims, IInv, ClaimsHold
    <3> QED
      BY <3>1, <3>2 DEF Owned, ClaimedId, ClaimedNumber, RowFor
  <2> PICK i, j : i = reply[r].id /\ j = reply[q].id
    OBVIOUS
  <2>2. i # j
    BY <1>2, <2>1 DEF IInv, ClaimsHold
  <2>3. i \in DOMAIN ledger /\ j \in DOMAIN ledger /\ i \in Nat /\ j \in Nat
    BY <1>2, <2>1 DEF IInv, Types
  <2>4. ledger[i].target.question = ledger[j].target.question
    BY <1>2, <2>1
  <2>5. i < j \/ j < i
    BY <2>2, <2>3
  <2>6. NumberOf(ledger, i) # NumberOf(ledger, j)
    BY <1>1, <1>2, <2>3, <2>4, <2>5
  <2> QED
    BY <1>2, <2>1, <2>6
<1>3. IInv => NumbersDistinct
  BY <1>2 DEF NumbersDistinct
<1> QED
  BY <1>3, Inductive, PTL
-----------------------------------------------------------------------------
(* The rate window *)

Different(slots) == \A i, j \in DOMAIN slots : slots[i] = slots[j] => i = j

\* Of slots that are all different, one goes and the others stay.
LEMMA WithoutRemoves ==
  ASSUME NEW S, NEW slots \in Seq(S), Different(slots), NEW x
  PROVE  /\ Without(slots, x) \in Seq(S) /\ Different(Without(slots, x))
         /\ \A i \in DOMAIN Without(slots, x) :
              Without(slots, x)[i] # x /\ \E j \in DOMAIN slots : Without(slots, x)[i] = slots[j]
<1>1. PICK n \in Nat : n = Len(slots) /\ DOMAIN slots = 1 .. n
  OBVIOUS
<1>2. CASE ~ \E i \in DOMAIN slots : slots[i] = x
  BY <1>2 DEF Without
<1>3. CASE \E i \in DOMAIN slots : slots[i] = x
  <2>1. PICK at \in 1 .. n : slots[at] = x /\ at = CHOOSE i \in DOMAIN slots : slots[i] = x
    BY <1>1, <1>3
  <2> DEFINE left == [i \in 1 .. n - 1 |-> slots[IF i < at THEN i ELSE i + 1]]
  <2>2. Without(slots, x) = left
    BY <1>1, <1>3, <2>1 DEF Without
  <2>3. n - 1 \in Nat /\ DOMAIN left = 1 .. n - 1
    BY <2>1
  <2>4. ASSUME NEW i \in 1 .. n - 1 PROVE (IF i < at THEN i ELSE i + 1) \in (1 .. n) \ {at}
    <3>1. at \in Int /\ 1 <= at /\ at <= n /\ i \in Int /\ 1 <= i /\ i <= n - 1
      BY <2>1
    <3>2. CASE i < at
      BY <3>1, <3>2
    <3>3. CASE ~(i < at)
      BY <3>1, <3>3
    <3> QED
      BY <3>2, <3>3
  <2>5. \A i \in 1 .. n : slots[i] \in S
    BY <1>1
  <2>6. left \in Seq(S)
    <3>1. left \in [1 .. n - 1 -> S]
      BY <2>4, <2>5
    <3>2. \A m \in Nat : \A f \in [1 .. m -> S] : f \in Seq(S)
      OBVIOUS
    <3> HIDE DEF left
    <3> QED
      BY <2>3, <3>1, <3>2
  <2>7. \A i \in 1 .. n - 1 : left[i] # x
    BY <1>1, <2>1, <2>4 DEF Different
  <2>8. \A i, j \in 1 .. n - 1 : left[i] = left[j] => i = j
    BY <1>1, <2>1, <2>4 DEF Different
  <2> HIDE DEF left
  <2>9. \A i \in 1 .. n - 1 : \E j \in 1 .. n : left[i] = slots[j]
    BY <2>4 DEF left
  <2> QED
    BY <1>1, <2>2, <2>3, <2>6, <2>7, <2>8, <2>9 DEF Different
<1> QED
  BY <1>2, <1>3

\* An appended slot that is new leaves them all different; so does the loss
\* of the oldest.
LEMMA AppendAndTail ==
  ASSUME NEW S, NEW slots \in Seq(S), Different(slots)
  PROVE  /\ \A x \in S : (\A i \in DOMAIN slots : slots[i] # x) =>
              /\ Append(slots, x) \in Seq(S) /\ Different(Append(slots, x))
              /\ \A i \in DOMAIN Append(slots, x) :
                   Append(slots, x)[i] = x \/ \E j \in DOMAIN slots : Append(slots, x)[i] = slots[j]
         /\ slots # << >> =>
              /\ Tail(slots) \in Seq(S) /\ Different(Tail(slots))
              /\ \A i \in DOMAIN Tail(slots) : \E j \in DOMAIN slots : Tail(slots)[i] = slots[j]
<1>1. PICK n \in Nat : n = Len(slots) /\ DOMAIN slots = 1 .. n
  OBVIOUS
<1>2. ASSUME NEW x \in S, \A i \in DOMAIN slots : slots[i] # x
      PROVE  /\ Append(slots, x) \in Seq(S) /\ Different(Append(slots, x))
             /\ \A i \in DOMAIN Append(slots, x) :
                  Append(slots, x)[i] = x \/ \E j \in DOMAIN slots : Append(slots, x)[i] = slots[j]
  <2> DEFINE more == Append(slots, x)
  <2>1. more \in Seq(S) /\ DOMAIN more = 1 .. n + 1 /\ more[n + 1] = x /\ \A i \in 1 .. n : more[i] = slots[i]
    BY <1>1
  <2> HIDE DEF more
  <2>2. Different(more)
    BY <1>1, <1>2, <2>1 DEF Different
  <2>3. \A i \in DOMAIN more : more[i] = x \/ \E j \in DOMAIN slots : more[i] = slots[j]
    BY <1>1, <2>1
  <2> QED
    BY <2>1, <2>2, <2>3 DEF more
<1>3. ASSUME slots # << >>
      PROVE  /\ Tail(slots) \in Seq(S) /\ Different(Tail(slots))
             /\ \A i \in DOMAIN Tail(slots) : \E j \in DOMAIN slots : Tail(slots)[i] = slots[j]
  <2> DEFINE less == Tail(slots)
  <2>1. n > 0 /\ less \in Seq(S) /\ DOMAIN less = 1 .. n - 1 /\ \A i \in 1 .. n - 1 : less[i] = slots[i + 1]
    BY <1>1, <1>3
  <2> HIDE DEF less
  <2>2. Different(less)
    BY <1>1, <2>1 DEF Different
  <2>3. \A i \in DOMAIN less : \E j \in DOMAIN slots : less[i] = slots[j]
    BY <1>1, <2>1
  <2> QED
    BY <2>1, <2>2, <2>3 DEF less
<1> QED
  BY <1>2, <1>3

\* A slot is charged by a request of that process that is past _check_rate,
\* and it is not there any more when the request is answered as no new write.
Holds(p, r) ==
    /\ home[r] = p
    /\ reply[r].kind \notin {"duplicate", "conflict"}
    /\ reply[r] = NoReply => call[r].pc \notin {"early", "charge"}

Windows ==
    /\ home \in [Requests -> Procs]
    /\ window \in [Procs -> Seq(Requests)]
    /\ \A p \in Procs : Different(window[p]) /\ \A i \in DOMAIN window[p] : Holds(p, window[p][i])

\* A step of one request: only its own slot can have to do with it.
LEMMA OneWindow ==
  ASSUME Windows, NEW r \in Requests, home' = home,
         \A q \in Requests \ {r} : call'[q] = call[q] /\ reply'[q] = reply[q],
         NEW slots \in Seq(Requests), Different(slots),
         window' = [window EXCEPT ![home[r]] = slots],
         \A i \in DOMAIN slots : \/ slots[i] # r /\ \E j \in DOMAIN window[home[r]] : slots[i] = window[home[r]][j]
                                 \/ slots[i] = r /\ Holds(home[r], r)'
  PROVE  Windows'
<1>1. home[r] \in Procs
  BY DEF Windows
<1>2. window' \in [Procs -> Seq(Requests)] /\ window'[home[r]] = slots
      /\ \A p \in Procs \ {home[r]} : window'[p] = window[p]
  BY <1>1 DEF Windows
<1>3. ASSUME NEW p \in Procs
      PROVE  (Different(window[p]) /\ \A i \in DOMAIN window[p] : Holds(p, window[p][i]))'
  <2>1. \A i \in DOMAIN window[p] : window[p][i] \in Requests
    BY DEF Windows
  <2>2. \A q \in Requests \ {r} : Holds(p, q) => Holds(p, q)'
    BY DEF Holds
  <2>3. CASE p = home[r]
    <3>1. ASSUME NEW i \in DOMAIN slots PROVE Holds(p, slots[i])'
      <4>1. CASE slots[i] = r
        BY <2>3, <4>1
      <4>2. CASE slots[i] # r
        <5>1. PICK j \in DOMAIN window[p] : slots[i] = window[p][j]
          BY <2>3, <4>2
        <5>2. slots[i] \in Requests \ {r} /\ Holds(p, slots[i])
          BY <4>2, <5>1, <2>1 DEF Windows
        <5> QED
          BY <5>2, <2>2
      <4> QED
        BY <4>1, <4>2
    <3>2. window'[p] = slots
      BY <1>2, <2>3
    <3> QED
      BY <2>3, <3>1, <3>2 DEF Holds
  <2>4. CASE p # home[r]
    <3> PICK same : same = window[p]
      OBVIOUS
    <3>1. ASSUME NEW i \in DOMAIN same PROVE Holds(p, same[i])'
      <4>1. Holds(p, same[i]) /\ same[i] \in Requests
        BY <2>1 DEF Windows
      <4>2. same[i] # r
        BY <2>4, <4>1 DEF Holds
      <4> QED
        BY <4>1, <4>2, <2>2
    <3>2. Different(same)
      BY DEF Windows
    <3>3. window'[p] = same
      BY <1>2, <2>4
    <3> QED
      BY <3>1, <3>2, <3>3 DEF Holds
  <2> QED
    BY <2>3, <2>4
<1> QED
  BY <1>2, <1>3 DEF Windows

\* The request may keep the slot it has.
LEMMA WindowStays ==
  ASSUME Windows, NEW r \in Requests, home' = home, window' = window,
         \A q \in Requests \ {r} : call'[q] = call[q] /\ reply'[q] = reply[q],
         Holds(home[r], r) => Holds(home[r], r)'
  PROVE  Windows'
<1>1. home[r] \in Procs /\ window[home[r]] \in Seq(Requests) /\ Different(window[home[r]])
      /\ window' = [window EXCEPT ![home[r]] = window[home[r]]]
  BY DEF Windows
<1>2. \A i \in DOMAIN window[home[r]] : window[home[r]][i] = r => Holds(home[r], r)
  BY <1>1 DEF Windows
<1> QED
  BY <1>1, <1>2, OneWindow

LEMMA RefundLeaves ==
  ASSUME Windows, NEW r \in Requests, home' = home, Refund(r),
         \A q \in Requests \ {r} : call'[q] = call[q] /\ reply'[q] = reply[q]
  PROVE  Windows'
<1> DEFINE before == window[home[r]]
<1>1. home[r] \in Procs /\ before \in Seq(Requests) /\ Different(before)
  BY DEF Windows
<1> PICK slots : slots = Without(before, r)
  OBVIOUS
<1>2. /\ slots \in Seq(Requests) /\ Different(slots)
      /\ \A i \in DOMAIN slots : slots[i] # r /\ \E j \in DOMAIN before : slots[i] = before[j]
  BY <1>1, WithoutRemoves
<1>3. window' = [window EXCEPT ![home[r]] = slots]
  BY <1>1 DEF Refund, Windows
<1> QED
  BY <1>2, <1>3, OneWindow

LEMMA WindowsKept ==
  ASSUME IInv, Windows, [Next]_vars
  PROVE  Windows'
<1>1. ASSUME NEW r \in Requests, Step(r) \/ Error(r)
      PROVE  Windows'
  <2>1. reply[r] = NoReply /\ home' = home /\ call[r] \in CallRecord
    BY <1>1 DEF Step, Error, EarlyCheck, Charge, Validate, Recheck, Enter, Insert, Project, At, request, IInv, Types
  <2>2. ASSUME NEW kind, NEW id, NEW number, Answer(r, kind, id, number)
        PROVE  /\ \A q \in Requests \ {r} : call'[q] = call[q] /\ reply'[q] = reply[q]
               /\ reply'[r].kind = kind /\ (kind # "none" => reply'[r] # NoReply)
    BY <2>2 DEF Answer, IInv, Types, NoReply
  <2>3. ASSUME Replay(r)
        PROVE  \A q \in Requests \ {r} : call'[q] = call[q] /\ reply'[q] = reply[q]
    BY <2>2, <2>3 DEF Replay
  <2>4. ASSUME NEW kind, NEW id, NEW number, Answer(r, kind, id, number), window' = window,
               kind \in {"recorded", "refused", "limited", "failed"}
        PROVE  Windows'
    BY <2>1, <2>2, <2>4, WindowStays DEF Holds
  <2>5. ASSUME Replay(r), Refund(r) PROVE Windows'
    BY <2>1, <2>3, <2>5, RefundLeaves
  <2>6. ASSUME NEW c \in CallRecord, call' = [call EXCEPT ![r] = c], reply' = reply, window' = window,
               c.pc \in {"early", "charge"} => call[r].pc \in {"early", "charge"}
        PROVE  Windows'
    <3>1. call'[r] = c /\ \A q \in Requests \ {r} : call'[q] = call[q]
      BY <2>6 DEF IInv, Types
    <3> QED
      BY <2>1, <2>6, <3>1, WindowStays DEF Holds
  <2>7. ASSUME NEW pc \in {"charge", "validate", "enter", "insert"}, Goto(r, pc), window' = window,
               pc = "charge" => call[r].pc = "early"
        PROVE  Windows'
    <3>1. [call[r] EXCEPT !.pc = pc] \in CallRecord /\ [call[r] EXCEPT !.pc = pc].pc = pc
      BY <2>1 DEF CallRecord
    <3> QED
      BY <2>6, <2>7, <3>1 DEF Goto
  <2>8. ASSUME NEW refusal \in {"refused", "limited"}, Refuse(r, refusal), window' = window
        PROVE  Windows'
    <3>1. [call[r] EXCEPT !.pc = "recheck", !.refusal = refusal] \in CallRecord
          /\ [call[r] EXCEPT !.pc = "recheck", !.refusal = refusal].pc = "recheck"
      BY <2>1 DEF CallRecord
    <3> QED
      BY <2>6, <2>8, <3>1 DEF Refuse
  <2>9. CASE EarlyCheck(r)
    <3>1. CASE Goto(r, "charge")
      BY <2>7, <2>9, <3>1 DEF EarlyCheck, At
    <3>2. CASE Replay(r)
      <4>1. ~Holds(home[r], r)
        BY <2>9 DEF EarlyCheck, At, Holds
      <4> QED
        BY <2>1, <2>3, <2>9, <3>2, <4>1, WindowStays DEF EarlyCheck
    <3> QED
      BY <2>9, <3>1, <3>2 DEF EarlyCheck
  <2>10. CASE Charge(r)
    <3>1. CASE Refuse(r, "limited") /\ window' = window
      BY <2>8, <3>1
    <3>2. CASE ~(Refuse(r, "limited") /\ window' = window)
      <4> DEFINE before == window[home[r]]
      <4>1. /\ home[r] \in Procs /\ before \in Seq(Requests) /\ Different(before)
            /\ \A i \in DOMAIN before : before[i] # r
        BY <2>10 DEF Windows, Charge, At, Holds
      <4> PICK slots : slots = Append(before, r)
        OBVIOUS
      <4>2. /\ slots \in Seq(Requests) /\ Different(slots)
            /\ \A i \in DOMAIN slots : slots[i] = r \/ \E j \in DOMAIN before : slots[i] = before[j]
        BY <4>1, AppendAndTail
      <4>3. window' = [window EXCEPT ![home[r]] = slots] /\ Goto(r, "validate")
        BY <2>10, <3>2, <4>1 DEF Charge, Windows
      <4>4. /\ call'[r].pc = "validate" /\ reply' = reply
            /\ \A q \in Requests \ {r} : call'[q] = call[q]
        BY <4>3, <2>1 DEF Goto, IInv, Types, CallRecord
      <4>5. Holds(home[r], r)'
        BY <2>1, <4>4 DEF Holds, NoReply
      <4> QED
        BY <2>1, <4>2, <4>3, <4>4, <4>5, OneWindow
    <3> QED
      BY <3>1, <3>2
  <2>11. CASE Validate(r)
    BY <2>7, <2>8, <2>11 DEF Validate
  <2>12. CASE Recheck(r)
    <3>1. CASE Known(r)
      BY <2>5, <2>12, <3>1 DEF Recheck
    <3>2. CASE ~Known(r)
      <4>1. PICK refusal : refusal = call[r].refusal
        OBVIOUS
      <4>2. refusal \in {"refused", "limited"}
        BY <2>12, <4>1 DEF Recheck, At, IInv, Stages
      <4> QED
        BY <2>4, <2>12, <3>2, <4>1, <4>2 DEF Recheck
    <3> QED
      BY <3>1, <3>2
  <2>13. CASE Enter(r)
    BY <2>4, <2>5, <2>7, <2>13 DEF Enter
  <2>14. CASE Insert(r)
    <3>1. CASE KeyTaken(r)
      BY <2>5, <2>14, <3>1 DEF Insert
    <3>2. CASE ~KeyTaken(r)
      <4>1. PICK c : /\ c = [call[r] EXCEPT !.pc = "project", !.id = Len(ledger'),
                                           !.number = CountOf(ledger', sub[r].target)]
        OBVIOUS
      <4>2. /\ call' = [call EXCEPT ![r] = c] /\ window' = window /\ reply' = reply
        BY <2>14, <3>2, <4>1 DEF Insert
      <4>3. c.pc = "project"
        BY <2>1, <4>1 DEF CallRecord
      <4>4. call'[r] = c /\ \A q \in Requests \ {r} : call'[q] = call[q]
        BY <4>2 DEF IInv, Types
      <4> QED
        BY <2>1, <4>2, <4>3, <4>4, WindowStays DEF Holds
    <3> QED
      BY <3>1, <3>2
  <2>15. CASE Project(r)
    BY <2>4, <2>15 DEF Project
  <2>16. CASE Error(r)
    BY <2>4, <2>16 DEF Error
  <2> QED
    BY <1>1, <2>9, <2>10, <2>11, <2>12, <2>13, <2>14, <2>15, <2>16 DEF Step
<1>2. ASSUME NEW p \in Procs, Expire(p)
      PROVE  Windows'
  <2>1. window[p] \in Seq(Requests) /\ Different(window[p]) /\ window[p] # << >>
    BY <1>2 DEF Expire, Windows
  <2> PICK slots : slots = Tail(window[p])
    OBVIOUS
  <2>2. /\ slots \in Seq(Requests) /\ Different(slots)
        /\ \A i \in DOMAIN slots : \E j \in DOMAIN window[p] : slots[i] = window[p][j]
    BY <2>1, AppendAndTail
  <2>3. window' = [window EXCEPT ![p] = slots] /\ home' = home /\ call' = call /\ reply' = reply
    BY <1>2 DEF Expire, request
  <2>4. \A i \in DOMAIN slots : Holds(p, slots[i])
    BY <2>2 DEF Windows
  <2> QED
    BY <2>2, <2>3, <2>4 DEF Windows, Holds
<1>3. ASSUME NEW p \in Procs, Crash(p)
      PROVE  Windows'
  <2>1. /\ window' = [window EXCEPT ![p] = << >>] /\ home' = home
        /\ \A r \in Requests : home[r] # p => call'[r] = call[r] /\ reply'[r] = reply[r]
    BY <1>3 DEF Crash, request, IInv, Types
  <2>2. << >> \in Seq(Requests) /\ DOMAIN << >> = {}
    OBVIOUS
  <2>3. ASSUME NEW o \in Procs
        PROVE  (Different(window[o]) /\ \A i \in DOMAIN window[o] : Holds(o, window[o][i]))'
    <3>1. CASE o = p
      BY <2>1, <2>2, <3>1 DEF Windows, Different
    <3>2. CASE o # p
      <4> PICK same : same = window[o]
        OBVIOUS
      <4>1. window'[o] = same /\ Different(same)
        BY <2>1, <3>2 DEF Windows
      <4>2. ASSUME NEW i \in DOMAIN same PROVE Holds(o, same[i])'
        <5>1. same[i] \in Requests /\ Holds(o, same[i])
          BY DEF Windows
        <5> QED
          BY <5>1, <3>2, <2>1 DEF Holds
      <4> QED
        BY <4>1, <4>2 DEF Holds
    <3> QED
      BY <3>1, <3>2
  <2>4. window' \in [Procs -> Seq(Requests)]
    BY <2>1, <2>2 DEF Windows
  <2> QED
    BY <2>1, <2>3, <2>4 DEF Windows
<1>4. CASE UNCHANGED vars
  BY <1>4 DEF vars, Windows, Holds
<1> QED
  BY <1>1, <1>2, <1>3, <1>4 DEF Next

Rest == lock \in [Procs -> Requests \union {NoRequest}] /\ crashes \in 0 .. MaxCrashes

LEMMA RestKept ==
  ASSUME Rest, Windows, [Next]_vars
  PROVE  Rest'
<1>1. ASSUME NEW r \in Requests, Step(r) \/ Error(r)
      PROVE  Rest'
  <2>1. crashes' = crashes /\ (lock' = lock \/ Release(r) \/ Acquire(r))
    BY <1>1 DEF Step, Error, EarlyCheck, Charge, Validate, Recheck, Enter, Insert, Project, request
  <2> QED
    BY <2>1 DEF Rest, Release, Acquire
<1>2. ASSUME NEW p \in Procs, Expire(p) \/ Crash(p)
      PROVE  Rest'
  BY <1>2, RecordingAssumption DEF Expire, Crash, Rest
<1>3. CASE UNCHANGED vars
  BY <1>3 DEF vars, Rest
<1> QED
  BY <1>1, <1>2, <1>3 DEF Next

LEMMA WindowsHold == Spec => [](IInv /\ Windows /\ Rest)
<1>1. Init => IInv /\ Windows /\ Rest
  <2> SUFFICES ASSUME Init PROVE Windows /\ Rest
    BY InitHolds
  <2>1. << >> \in Seq(Requests) /\ DOMAIN << >> = {}
    OBVIOUS
  <2>2. \A p \in Procs : window[p] = << >>
    BY DEF Init
  <2>3. Windows
    BY <2>1, <2>2 DEF Init, Windows, Different
  <2>4. Rest
    BY RecordingAssumption DEF Init, Rest
  <2> QED
    BY <2>3, <2>4
<1>2. IInv /\ Windows /\ Rest /\ [Next]_vars => (IInv /\ Windows /\ Rest)'
  BY StepHolds, WindowsKept, RestKept
<1> QED
  BY <1>1, <1>2, PTL DEF Spec

\* Requests, rows, windows, locks, calls and answers have their types.
THEOREM TypeCorrect == Spec => []TypeOK
<1>1. IInv /\ Windows /\ Rest => TypeOK
  BY DEF IInv, Types, Row, CallRecord, ReplyRecord, Windows, Rest, TypeOK
<1> QED
  BY <1>1, WindowsHold, PTL

\* "Replays and key conflicts are not charged", and no two recorded answers for
\* one question share an attempt number.
THEOREM Counts == Spec => []CountsHonest
<1>1. IInv /\ Windows => OnlyNewWritesCharged
  BY DEF Windows, Holds, OnlyNewWritesCharged, Slots
<1> QED
  BY <1>1, WindowsHold, DistinctNumbers, PTL DEF CountsHonest
=============================================================================
