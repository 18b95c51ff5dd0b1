------------------------- MODULE ArtifactSaveProofs -------------------------
(* Proofs about ArtifactSave, for any finite set of calls, any texts and    *)
(* any number of direct writes and crashes: what a read returns, that saves *)
(* exclude each other, the save window and the order of the ledger.         *)
EXTENDS ArtifactSave, FiniteSetTheorems, TLAPS

Content == Texts \union {Absent, Unsafe, Binary}
Opened == [content : Content, id : Nat]
CallRecord == [kind : Kinds, data : Texts \union {Absent}, base : Texts \union {Absent},
               pc : Locked \union {"new", "queued", "done"}, opened : Opened,
               answer : {"none", "rate-limited", "invalid", "refused", "unsafe-file", "missing", "read",
                         "invalid-encoding", "file-conflict", "snapshot", "unchanged", "saved", "crashed"}]

Types ==
    /\ file \in [content : Content, id : Nat]
    /\ call \in [Calls -> CallRecord]
    /\ file.id = 0 => file.content = Absent

\* What call c knows of the file at each stage.
Sound(c) ==
    \* An identity stands for one content, and 0 for no file.
    /\ call[c].opened.id = file.id => call[c].opened.content = file.content
    /\ call[c].opened.id = 0 => call[c].opened.content = Absent
    \* Only a save goes on without a file, and nothing unsafe is read.
    /\ call[c].pc = "reading" \/ (call[c].pc = "resolve" /\ call[c].kind # "save")
         => call[c].opened.content \in Texts \union {Binary}
    /\ call[c].kind = "run" => call[c].base \in Texts
    \* A save that passed its checks replaces what its author named.
    /\ call[c].pc \in {"check", "publish"} => call[c].base = call[c].opened.content
    /\ call[c].pc = "publish" => file.content = call[c].base \/ c \in raced
    \* What is handed out was read whole.
    /\ call[c].answer \in {"read", "snapshot"} => call[c].data \in Texts
    /\ call[c].answer = "snapshot" => call[c].data = call[c].base

\* The bundle lock has one holder.
OneHolder == \A c, d \in Calls : call[c].pc \in Locked /\ call[d].pc \in Locked => c = d

IInv == Types /\ OneHolder /\ \A c \in Calls : Sound(c)
-----------------------------------------------------------------------------
(* Identities *)

\* Among one more identities than can be held, one is free.
LEMMA FreshIdIsFresh ==
  ASSUME Types
  PROVE  /\ FreshId \in Nat \ {0, file.id}
         /\ \A c \in Calls : FreshId # call[c].opened.id
<1> DEFINE N == Cardinality(Calls)
           opened == {call[c].opened.id : c \in Calls}
           held == {file.id} \union opened
           f == [c \in Calls |-> call[c].opened.id]
<1>1. IsFiniteSet(Calls) /\ N \in Nat
  BY ArtifactAssumption, FS_CardinalityType
<1>2. f \in Surjection(Calls, opened)
  BY DEF Surjection
<1>3. IsFiniteSet(opened) /\ Cardinality(opened) <= N
  <2> HIDE DEF opened, f, N
  <2> QED
    BY <1>1, <1>2, FS_Surjection DEF N
<1>4. IsFiniteSet(held) /\ Cardinality(held) <= N + 1
  <2> HIDE DEF opened, N
  <2>1. IsFiniteSet(opened \union {file.id})
        /\ Cardinality(opened \union {file.id}) \in {Cardinality(opened), Cardinality(opened) + 1}
    BY <1>3, FS_AddElement
  <2>2. Cardinality(opened) \in Nat
    BY <1>3, FS_CardinalityType
  <2>3. held = opened \union {file.id}
    OBVIOUS
  <2> QED
    BY <2>1, <2>2, <2>3, <1>1, <1>3
<1>5. \E id \in 1 .. N + 2 : id \notin held
  <2> SUFFICES ASSUME \A id \in 1 .. N + 2 : id \in held PROVE FALSE
    OBVIOUS
  <2> HIDE DEF held, N
  <2>1. 1 .. N + 2 \in SUBSET held
    OBVIOUS
  <2>2. Cardinality(1 .. N + 2) <= Cardinality(held)
    BY <2>1, <1>4, FS_Subset
  <2>3. Cardinality(1 .. N + 2) = N + 2
    BY <1>1, FS_Interval
  <2>4. Cardinality(held) \in Nat
    BY <1>4, FS_CardinalityType
  <2> QED
    BY <2>2, <2>3, <2>4, <1>4, <1>1
<1>6. FreshId \in 1 .. N + 2 /\ FreshId \notin held
  BY <1>5 DEF FreshId
<1> QED
  BY <1>6, <1>1
-----------------------------------------------------------------------------
(* A step of one call that leaves the file alone. *)

\* It is enough to look at that call, and that it takes the lock when free.
LEMMA OneCall ==
  ASSUME IInv, NEW c \in Calls, NEW r \in CallRecord,
         call' = [call EXCEPT ![c] = r], file' = file, raced' = raced,
         r.pc \in Locked => call[c].pc \in Locked \/ LockFree,
         Sound(c)'
  PROVE  IInv'
<1>1. call' \in [Calls -> CallRecord] /\ call'[c] = r
  BY DEF IInv, Types
<1>2. \A d \in Calls \ {c} : call'[d] = call[d]
  BY DEF IInv, Types
<1>3. Types'
  BY <1>1 DEF IInv, Types
<1>4. OneHolder'
  <2> SUFFICES ASSUME NEW d \in Calls, NEW e \in Calls, call'[d].pc \in Locked, call'[e].pc \in Locked
               PROVE  d = e
    BY DEF OneHolder
  <2> QED
    BY <1>1, <1>2 DEF IInv, OneHolder, LockFree
<1>5. ASSUME NEW d \in Calls PROVE Sound(d)'
  <2>1. CASE d = c
    BY <2>1
  <2>2. CASE d # c
    <3>1. call'[d] = call[d] /\ Sound(d)
      BY <1>2, <2>2 DEF IInv
    <3> QED
      BY <3>1 DEF Sound
  <2> QED
    BY <2>1, <2>2
<1> QED
  BY <1>3, <1>4, <1>5 DEF IInv

\* A call that is answered, with anything but data.
LEMMA AnsweredKeeps ==
  ASSUME IInv, NEW c \in Calls,
         NEW code \in {"rate-limited", "invalid", "refused", "unsafe-file", "missing", "invalid-encoding",
                       "file-conflict", "unchanged", "saved"},
         Answered(c, code), file' = file, raced' = raced
  PROVE  IInv'
<1> DEFINE r == [call[c] EXCEPT !.pc = "done", !.answer = code, !.opened = Nothing]
<1>1. call[c] \in CallRecord /\ Sound(c)
  BY DEF IInv, Types
<1>2. Nothing \in Opened /\ Nothing.id = 0 /\ Nothing.content = Absent
  BY DEF Nothing, Opened, Content
<1>3. /\ r \in CallRecord
      /\ r.pc = "done" /\ r.answer = code /\ r.opened = Nothing
      /\ r.kind = call[c].kind /\ r.base = call[c].base
  BY <1>1, <1>2 DEF CallRecord
<1>4. call' = [call EXCEPT ![c] = r]
  BY DEF Answered
<1>5. call'[c] = r
  BY <1>4 DEF IInv, Types
<1> HIDE DEF r
<1>6. file.id = 0 => file.content = Absent
  BY DEF IInv, Types
<1>7. Sound(c)'
  BY <1>1, <1>2, <1>3, <1>5, <1>6 DEF Sound
<1> QED
  BY <1>3, <1>4, <1>7, OneCall DEF Locked

\* A call that goes on, with what it opened before.
LEMMA StepKeeps ==
  ASSUME IInv, NEW c \in Calls, NEW pc \in Locked \union {"queued"},
         Step(c, pc), file' = file, raced' = raced,
         pc \in Locked => call[c].pc \in Locked \/ LockFree,
         pc \notin {"reading", "resolve"},
         pc \in {"check", "publish"} => call[c].base = call[c].opened.content,
         pc = "publish" => file.content = call[c].base \/ c \in raced
  PROVE  IInv'
<1> DEFINE r == [call[c] EXCEPT !.pc = pc]
<1>1. call[c] \in CallRecord /\ Sound(c)
  BY DEF IInv, Types
<1>2. /\ r \in CallRecord /\ r.pc = pc /\ r.answer = call[c].answer /\ r.opened = call[c].opened
      /\ r.kind = call[c].kind /\ r.base = call[c].base /\ r.data = call[c].data
  BY <1>1 DEF CallRecord
<1>3. call' = [call EXCEPT ![c] = r]
  BY DEF Step
<1>4. call'[c] = r
  BY <1>3 DEF IInv, Types
<1> HIDE DEF r
<1>5. Sound(c)'
  BY <1>1, <1>2, <1>4 DEF Sound
<1> QED
  BY <1>2, <1>3, <1>5, OneCall
-----------------------------------------------------------------------------
(* The steps of a call. *)

LEMMA RefuseKeeps ==
  ASSUME IInv, NEW c \in Calls,
         NEW code \in {"refused", "unsafe-file", "missing", "invalid-encoding", "file-conflict"},
         Refuse(c, code)
  PROVE  IInv'
  BY AnsweredKeeps DEF Refuse, history

\* While the identity of a file stays, so does its content.
LEMMA NameMatchesMeans ==
  ASSUME IInv, NEW c \in Calls, NameMatches(c)
  PROVE  file.content = call[c].opened.content
  BY DEF IInv, Sound, NameMatches

LEMMA ArrivalKeeps ==
  ASSUME IInv, NEW c \in Calls, Charge(c) \/ Arrive(c) \/ ManifestRefuses(c)
  PROVE  IInv'
<1>1. Step(c, "queued") /\ file' = file /\ raced' = raced => IInv'
  BY StepKeeps DEF Locked
<1>2. (Answered(c, "invalid") \/ Answered(c, "rate-limited")) /\ file' = file /\ raced' = raced => IInv'
  BY AnsweredKeeps
<1>3. CASE Charge(c)
  BY <1>3, <1>1, <1>2 DEF Charge, history
<1>4. CASE Arrive(c)
  BY <1>4, <1>1, <1>2 DEF Arrive, history
<1>5. CASE ManifestRefuses(c)
  BY <1>5, RefuseKeeps DEF ManifestRefuses
<1> QED
  BY <1>3, <1>4, <1>5

\* What is opened is the file as it is, and never one that is unsafe.
LEMMA OpenKeeps ==
  ASSUME IInv, NEW c \in Calls, Open(c)
  PROVE  IInv'
<1>1. CASE \E code \in {"unsafe-file", "missing"} : Refuse(c, code)
  BY <1>1, RefuseKeeps
<1>2. CASE ~ \E code \in {"unsafe-file", "missing"} : Refuse(c, code)
  <2> DEFINE pc == IF file.content = Absent THEN "resolve" ELSE "reading"
             r == [call[c] EXCEPT !.opened = file, !.pc = pc]
  <2>1. /\ LockFree /\ file.content # Unsafe
        /\ file.content = Absent => call[c].kind = "save"
        /\ call' = [call EXCEPT ![c] = r] /\ file' = file /\ raced' = raced
    BY <1>2 DEF Open, history
  <2>2. call[c] \in CallRecord /\ Sound(c) /\ file \in Opened /\ pc \in {"resolve", "reading"}
    BY DEF IInv, Types, Opened
  <2>3. file.content \in Content /\ (file.id = 0 => file.content = Absent)
    BY DEF IInv, Types
  <2>4. /\ r \in CallRecord /\ r.pc = pc /\ r.answer = call[c].answer /\ r.opened = file
        /\ r.kind = call[c].kind /\ r.base = call[c].base /\ r.data = call[c].data
    BY <2>2 DEF CallRecord, Locked
  <2>5. call'[c] = r
    BY <2>1 DEF IInv, Types
  <2>6. /\ pc = "reading" => file.content \in Texts \union {Binary}
        /\ pc = "resolve" => call[c].kind = "save"
    BY <2>1, <2>3 DEF Content
  <2> HIDE DEF r, pc
  <2>7. Sound(c)'
    BY <2>1, <2>2, <2>3, <2>4, <2>5, <2>6 DEF Sound
  <2> QED
    BY <2>1, <2>4, <2>7, OneCall
<1> QED
  BY <1>1, <1>2

\* The second fstat saw the identity of the first: the bytes are one state's.
LEMMA FinishReadKeeps ==
  ASSUME IInv, NEW c \in Calls, FinishRead(c)
  PROVE  IInv'
<1>1. CASE ReadChanged(c)
  BY <1>1, RefuseKeeps DEF FinishRead
<1>2. CASE ~ReadChanged(c)
  <2> DEFINE r == [call[c] EXCEPT !.pc = "resolve"]
  <2>1. call[c] \in CallRecord /\ Sound(c) /\ call[c].pc = "reading" /\ call[c].opened \in Opened
    BY DEF IInv, Types, CallRecord, FinishRead
  <2>2. Bytes(c) = call[c].opened.content
    BY <1>2 DEF Bytes, ReadChanged
  <2>3. [call[c].opened EXCEPT !.content = Bytes(c)] = call[c].opened
    BY <2>1, <2>2 DEF Opened
  <2>4. [call[c] EXCEPT !.pc = "resolve", !.opened.content = Bytes(c)] = r
    BY <2>1, <2>3 DEF CallRecord
  <2>5. call' = [call EXCEPT ![c] = [call[c] EXCEPT !.pc = "resolve", !.opened.content = Bytes(c)]]
        /\ file' = file /\ raced' = raced
    BY <1>2 DEF FinishRead, history
  <2>6. call' = [call EXCEPT ![c] = r]
    BY <2>4, <2>5
  <2>7. /\ r \in CallRecord /\ r.pc = "resolve" /\ r.answer = call[c].answer
        /\ r.opened = call[c].opened /\ r.kind = call[c].kind /\ r.base = call[c].base
        /\ r.data = call[c].data
    BY <2>1 DEF CallRecord, Locked
  <2>8. call'[c] = r
    BY <2>6 DEF IInv, Types
  <2> HIDE DEF r
  <2>9. Sound(c)'
    BY <2>1, <2>5, <2>7, <2>8 DEF Sound
  <2>10. call[c].pc \in Locked
    BY <2>1 DEF Locked
  <2> QED
    BY <2>5, <2>6, <2>7, <2>9, <2>10, OneCall
<1> QED
  BY <1>1, <1>2

\* A call that is answered with what it read.
LEMMA HandedKeeps ==
  ASSUME IInv, NEW c \in Calls, NEW answer \in {"read", "snapshot"},
         call[c].opened.content \in Texts,
         answer = "snapshot" => call[c].base = call[c].opened.content,
         call' = [call EXCEPT ![c].pc = "done", ![c].answer = answer,
                              ![c].data = call[c].opened.content, ![c].opened = Nothing],
         file' = file, raced' = raced
  PROVE  IInv'
<1> DEFINE r == [call[c] EXCEPT !.pc = "done", !.answer = answer,
                                !.data = call[c].opened.content, !.opened = Nothing]
<1>1. call[c] \in CallRecord /\ Sound(c)
  BY DEF IInv, Types
<1>2. Nothing \in Opened /\ Nothing.id = 0 /\ Nothing.content = Absent
  BY DEF Nothing, Opened, Content
<1>3. /\ r \in CallRecord
      /\ r.pc = "done" /\ r.answer = answer /\ r.opened = Nothing
      /\ r.kind = call[c].kind /\ r.base = call[c].base /\ r.data = call[c].opened.content
  BY <1>1, <1>2 DEF CallRecord
<1>4. call' = [call EXCEPT ![c] = r]
  OBVIOUS
<1>5. call'[c] = r
  BY <1>4 DEF IInv, Types
<1> HIDE DEF r
<1>6. file.id = 0 => file.content = Absent
  BY DEF IInv, Types
<1>7. Sound(c)'
  BY <1>1, <1>2, <1>3, <1>5, <1>6 DEF Sound
<1> QED
  BY <1>3, <1>4, <1>7, OneCall DEF Locked

LEMMA GetKeeps ==
  ASSUME IInv, NEW c \in Calls, Get(c)
  PROVE  IInv'
<1>1. CASE call[c].opened.content = Binary
  BY <1>1, RefuseKeeps DEF Get
<1>2. CASE call[c].opened.content # Binary
  <2>1. call[c].opened.content \in Texts
    BY <1>2 DEF Get, IInv, Sound
  <2> QED
    BY <1>2, <2>1, HandedKeeps DEF Get, history
<1> QED
  BY <1>1, <1>2

\* The revision a run names is of a text, and so is what it gets.
LEMMA SnapshotKeeps ==
  ASSUME IInv, NEW c \in Calls, Snapshot(c)
  PROVE  IInv'
<1>1. CASE \E code \in {"invalid-encoding", "file-conflict"} : Refuse(c, code)
  BY <1>1, RefuseKeeps
<1>2. CASE ~ \E code \in {"invalid-encoding", "file-conflict"} : Refuse(c, code)
  <2>1. call[c].base = call[c].opened.content /\ call[c].base \in Texts
    BY <1>2 DEF Snapshot, IInv, Sound
  <2> QED
    BY <1>2, <2>1, HandedKeeps DEF Snapshot, history
<1> QED
  BY <1>1, <1>2

LEMMA UnchangedKeeps ==
  ASSUME IInv, NEW c \in Calls, Unchanged(c)
  PROVE  IInv'
  BY RefuseKeeps, AnsweredKeeps DEF Unchanged, history

LEMMA StageKeeps ==
  ASSUME IInv, NEW c \in Calls, Stage(c)
  PROVE  IInv'
<1>1. CASE Refuse(c, "file-conflict")
  BY <1>1, RefuseKeeps
<1>2. CASE ~Refuse(c, "file-conflict")
  <2>1. /\ call[c].pc = "resolve" /\ call[c].base = call[c].opened.content
        /\ file' = file /\ raced' = raced
        /\ Step(c, "check") \/ Answered(c, "unsafe-file")
    BY <1>2 DEF Stage, history
  <2> QED
    BY <2>1, StepKeeps, AnsweredKeeps DEF Locked
<1> QED
  BY <1>1, <1>2

\* What still has its name has the content it was read with.
LEMMA CheckKeeps ==
  ASSUME IInv, NEW c \in Calls, Check(c)
  PROVE  IInv'
<1>1. CASE ~NameMatches(c)
  BY <1>1, RefuseKeeps DEF Check
<1>2. CASE NameMatches(c)
  <2>1. file.content = call[c].opened.content
    BY <1>2, NameMatchesMeans
  <2>2. call[c].pc = "check" /\ call[c].base = call[c].opened.content
    BY DEF Check, IInv, Sound
  <2>3. Step(c, "publish") /\ file' = file /\ raced' = raced
    BY <1>2 DEF Check, history
  <2> QED
    BY <2>1, <2>2, <2>3, StepKeeps DEF Locked
<1> QED
  BY <1>1, <1>2

LEMMA SyncKeeps ==
  ASSUME IInv, NEW c \in Calls, Sync(c) \/ Record(c)
  PROVE  IInv'
<1>1. CASE Sync(c)
  BY <1>1, RefuseKeeps, StepKeeps DEF Sync, history, Locked
<1>2. CASE Record(c)
  BY <1>2, AnsweredKeeps DEF Record, history
<1> QED
  BY <1>1, <1>2
-----------------------------------------------------------------------------
(* The steps that change the file, and the crash. *)

\* The new file has an identity no call holds, so that no call mistakes it
\* for the one it read; and no other call is about to publish.
LEMMA PublishKeeps ==
  ASSUME IInv, NEW c \in Calls, Publish(c)
  PROVE  IInv'
<1>1. CASE Refuse(c, "unsafe-file")
  BY <1>1, RefuseKeeps
<1>2. CASE ~Refuse(c, "unsafe-file")
  <2> DEFINE r == [call[c] EXCEPT !.pc = "sync"]
  <2>1. /\ call[c].pc = "publish" /\ file' = [content |-> call[c].data, id |-> FreshId]
        /\ call' = [call EXCEPT ![c] = r] /\ raced' = raced
    BY <1>2 DEF Publish, Step
  <2>2. /\ FreshId \in Nat \ {0, file.id}
        /\ \A d \in Calls : FreshId # call[d].opened.id
    BY FreshIdIsFresh DEF IInv
  <2>3. call[c] \in CallRecord /\ call[c].data \in Content
    BY DEF IInv, Types, CallRecord, Content
  <2>4. r \in CallRecord /\ r.pc = "sync" /\ r.answer = call[c].answer /\ r.opened = call[c].opened
        /\ r.kind = call[c].kind /\ r.base = call[c].base /\ r.data = call[c].data
    BY <2>3 DEF CallRecord, Locked
  <2>5. call'[c] = r /\ call' \in [Calls -> CallRecord] /\ \A d \in Calls \ {c} : call'[d] = call[d]
    BY <2>1, <2>4 DEF IInv, Types
  <2> HIDE DEF r
  <2>6. /\ file' \in [content : Content, id : Nat] /\ file'.id \notin {0, file.id}
        /\ \A d \in Calls : call'[d].opened.id # file'.id
    BY <2>1, <2>2, <2>3, <2>4, <2>5
  <2>7. Types'
    BY <2>5, <2>6 DEF Types
  <2>8. OneHolder'
    <3>1. call[c].pc \in Locked /\ OneHolder
      BY <2>1 DEF Locked, IInv
    <3> QED
      BY <3>1, <2>5 DEF OneHolder
  <2>9. ASSUME NEW d \in Calls \ {c} PROVE Sound(d)'
    <3>1. call[d].pc \notin Locked
      BY <2>1 DEF IInv, OneHolder, Locked
    <3>2. Sound(d) /\ call'[d] = call[d]
      BY <2>5 DEF IInv
    <3> QED
      BY <3>1, <3>2, <2>6 DEF Sound, Locked
  <2>10. Sound(c)'
    <3>1. Sound(c)
      BY DEF IInv
    <3> QED
      BY <3>1, <2>4, <2>5, <2>6 DEF Sound
  <2> QED
    BY <2>7, <2>8, <2>9, <2>10 DEF IInv
<1> QED
  BY <1>1, <1>2

\* A direct writer respects no lock: a save past its last check is raced,
\* every other call sees another identity, or no file.
LEMMA DirectKeeps ==
  ASSUME IInv, Direct
  PROVE  IInv'
<1>1. PICK content \in Texts \union {Absent, Unsafe, Binary} :
         file' = [content |-> content, id |-> IF content = Absent THEN 0 ELSE FreshId]
  BY DEF Direct
<1>2. call' = call /\ raced' = raced \union {c \in Calls : call[c].pc = "publish"}
  BY DEF Direct
<1>3. FreshId \in Nat /\ \A c \in Calls : FreshId # call[c].opened.id
  BY FreshIdIsFresh DEF IInv
<1>4. Types'
  BY <1>1, <1>2, <1>3, FreshIdIsFresh DEF IInv, Types, Content
<1>5. ASSUME NEW c \in Calls PROVE Sound(c)'
  <2>1. Sound(c)
    BY DEF IInv
  <2>2. file'.id = call[c].opened.id => file'.content = call[c].opened.content
    BY <1>1, <1>3, <2>1 DEF Sound
  <2>3. call[c].pc = "publish" => c \in raced'
    BY <1>2
  <2> QED
    BY <1>2, <2>1, <2>2, <2>3 DEF Sound
<1>6. OneHolder'
  BY <1>2 DEF IInv, OneHolder
<1> QED
  BY <1>4, <1>5, <1>6 DEF IInv

LEMMA CrashKeeps ==
  ASSUME IInv, Crash
  PROVE  IInv'
<1> DEFINE r(c) == [call[c] EXCEPT !.pc = "done", !.answer = "crashed", !.opened = Nothing]
<1>1. /\ call' = [c \in Calls |-> IF call[c].pc \in {"new", "done"} THEN call[c] ELSE r(c)]
      /\ file' = file /\ raced' = raced
  BY DEF Crash, history
<1>2. Nothing \in Opened /\ Nothing.id = 0 /\ Nothing.content = Absent
  BY DEF Nothing, Opened, Content
<1>3. ASSUME NEW c \in Calls
      PROVE  /\ r(c) \in CallRecord /\ r(c).pc = "done" /\ r(c).answer = "crashed"
             /\ r(c).opened = Nothing /\ r(c).kind = call[c].kind /\ r(c).base = call[c].base
  <2>1. call[c] \in CallRecord
    BY DEF IInv, Types
  <2> QED
    BY <1>2, <2>1 DEF CallRecord
<1> HIDE DEF r
<1>4. Types'
  BY <1>1, <1>3 DEF IInv, Types
<1>5. ASSUME NEW c \in Calls PROVE call'[c].pc \notin Locked /\ Sound(c)'
  <2>1. Sound(c) /\ (file.id = 0 => file.content = Absent)
    BY DEF IInv, Types
  <2>2. CASE call[c].pc \in {"new", "done"}
    BY <2>1, <2>2, <1>1 DEF Sound, Locked
  <2>3. CASE call[c].pc \notin {"new", "done"}
    <3>1. call'[c] = r(c)
      BY <2>3, <1>1
    <3> QED
      BY <3>1, <2>1, <1>1, <1>2, <1>3 DEF Sound, Locked
  <2> QED
    BY <2>2, <2>3
<1>6. OneHolder'
  BY <1>5 DEF OneHolder
<1> QED
  BY <1>4, <1>5, <1>6 DEF IInv
-----------------------------------------------------------------------------
(* The specification *)

LEMMA InitSound ==
  ASSUME Init
  PROVE  IInv
<1>1. PICK ask \in [Calls -> Requests] :
         call = [c \in Calls |-> [kind |-> ask[c].kind, data |-> ask[c].data, base |-> ask[c].base,
                                 pc |-> "new", opened |-> Nothing, answer |-> "none"]]
  BY DEF Init
<1>2. Nothing \in Opened /\ Nothing.id = 0 /\ Nothing.content = Absent
  BY DEF Nothing, Opened, Content
<1>3. ASSUME NEW c \in Calls
      PROVE  /\ call[c] \in CallRecord /\ call[c].pc = "new" /\ call[c].answer = "none"
             /\ call[c].opened = Nothing /\ (call[c].kind = "run" => call[c].base \in Texts)
  <2>1. /\ ask[c].kind \in Kinds /\ ask[c].data \in Texts \union {Absent}
        /\ ask[c].base \in Texts \union {Absent} /\ (ask[c].kind = "run" => ask[c].base \in Texts)
    BY DEF Requests, Kinds
  <2> QED
    BY <1>1, <1>2, <2>1 DEF CallRecord
<1>4. file \in [content : Content, id : Nat] /\ (file.id = 0 => file.content = Absent)
  BY DEF Init, Nothing, Content
<1>5. Types
  BY <1>1, <1>3, <1>4 DEF Types
<1>6. OneHolder
  BY <1>3 DEF OneHolder, Locked
<1>7. ASSUME NEW c \in Calls PROVE Sound(c)
  BY <1>2, <1>3, <1>4 DEF Sound
<1> QED
  BY <1>5, <1>6, <1>7 DEF IInv

LEMMA NextKeeps ==
  ASSUME IInv, [Next]_vars
  PROVE  IInv'
<1>1. ASSUME NEW c \in Calls, CallStep(c) PROVE IInv'
  <2>1. CASE SlotExpires(c) \/ UNCHANGED vars
    BY <2>1 DEF SlotExpires, history, vars, IInv, Types, OneHolder, Sound
  <2> QED
    BY <1>1, <2>1, ArrivalKeeps, OpenKeeps, FinishReadKeeps, GetKeeps, SnapshotKeeps, UnchangedKeeps,
       StageKeeps, CheckKeeps, PublishKeeps, SyncKeeps DEF CallStep
<1>2. CASE UNCHANGED vars
  BY <1>2 DEF vars, IInv, Types, OneHolder, Sound
<1> QED
  BY <1>1, <1>2, DirectKeeps, CrashKeeps DEF Next

LEMMA Inductive == Spec => []IInv
<1>1. Init => IInv
  BY InitSound
<1>2. IInv /\ [Next]_vars => IInv'
  BY NextKeeps
<1> QED
  BY <1>1, <1>2, PTL DEF Spec

\* get_artifact and get_run_snapshot: what is handed out was the whole content
\* of the file at one moment, and a run gets the revision it asked for.
THEOREM WholeReads == Spec => []ReadsAreWhole
<1>1. IInv => ReadsAreWhole
  BY DEF IInv, Sound, ReadsAreWhole
<1> QED
  BY <1>1, Inductive, PTL

\* save_artifact: a save replaces the content its author named, unless a
\* direct writer came after its last check.
THEOREM StrictExclusion == Spec => ConflictExclusion
<1>1. ASSUME IInv
      PROVE  \A c \in Calls : call[c].pc = "publish" /\ call'[c].pc = "sync" =>
                 file.content = call[c].base \/ c \in raced
  BY <1>1 DEF IInv, Sound
<1>2. IInv => [\A c \in Calls : call[c].pc = "publish" /\ call'[c].pc = "sync" =>
                 file.content = call[c].base \/ c \in raced]_vars
  BY <1>1
<1> QED
  BY <1>2, Inductive, PTL DEF ConflictExclusion
-----------------------------------------------------------------------------
(* The window and the ledger, given what is known of the calls. *)

Slots ==
    /\ window \subseteq Calls /\ Cardinality(window) <= RateMax
    /\ temps \subseteq Calls
    /\ events \in Seq(Calls) /\ published \in Seq(Calls)

\* A call past its rename is the last that published, and its event is the
\* last thing it does.
Ledger ==
    /\ EventsInSaveOrder
    /\ \A c \in Calls : call[c].pc \in {"sync", "event"} =>
          published # <<>> /\ published[Len(published)] = c
    /\ \A i \in DOMAIN events : call[events[i]].pc = "done"

LEMMA SlotsKept ==
  ASSUME IInv, Slots, [Next]_vars
  PROVE  Slots'
<1>1. \A w \in SUBSET Calls : IsFiniteSet(w) /\ Cardinality(w) \in Nat
  BY ArtifactAssumption, FS_Subset, FS_CardinalityType
<1>2. RateMax \in Nat
  BY ArtifactAssumption
<1>3. window' \subseteq Calls /\ temps' \subseteq Calls /\ events' \in Seq(Calls) /\ published' \in Seq(Calls)
  <2>1. ASSUME NEW c \in Calls, CallStep(c)
        PROVE  window' \subseteq Calls /\ temps' \subseteq Calls /\ events' \in Seq(Calls) /\ published' \in Seq(Calls)
    <3>1. Refund(c) => window' \subseteq Calls
      BY DEF Refund, Slots
    <3>2. ASSUME NEW code, Refuse(c, code)
          PROVE  window' = window /\ temps' \subseteq Calls /\ events' = events /\ published' = published
      BY <3>2 DEF Refuse, history, Slots
    <3>3. CASE Charge(c) \/ Arrive(c) \/ ManifestRefuses(c) \/ Open(c)
      BY <3>2, <3>3 DEF Charge, Arrive, ManifestRefuses, Open, Slots, history
    <3>4. CASE FinishRead(c) \/ Get(c) \/ Snapshot(c)
      BY <3>2, <3>4 DEF FinishRead, Get, Snapshot, Slots, history
    <3>5. CASE Unchanged(c) \/ Stage(c) \/ Check(c)
      BY <3>1, <3>2, <3>5 DEF Unchanged, Stage, Check, Slots, history
    <3>6. \A q \in Seq(Calls) : Append(q, c) \in Seq(Calls)
      OBVIOUS
    <3>7. CASE Publish(c)
      BY <3>2, <3>6, <3>7 DEF Publish, Slots
    <3>8. CASE Sync(c) \/ Record(c) \/ SlotExpires(c)
      BY <3>2, <3>6, <3>8 DEF Sync, Record, SlotExpires, Slots, history
    <3> QED
      BY <2>1, <3>3, <3>4, <3>5, <3>7, <3>8 DEF CallStep
  <2>2. CASE Direct \/ Crash \/ UNCHANGED vars
    BY <2>2 DEF Direct, Crash, vars, Slots, history
  <2> QED
    BY <2>1, <2>2 DEF Next
<1>4. Cardinality(window') <= RateMax
  <2>1. \/ window' \in SUBSET window
        \/ \E c \in Calls : window' = window \union {c} /\ ~(Cardinality(window) >= RateMax)
    <3>1. ASSUME NEW c \in Calls, CallStep(c), ~(window' \in SUBSET window)
          PROVE  window' = window \union {c} /\ ~(Cardinality(window) >= RateMax)
      <4>1. \A code : Refuse(c, code) => window' = window
        BY DEF Refuse
      <4>2. Charge(c)
        BY <3>1, <4>1 DEF CallStep, Arrive, ManifestRefuses, Open, FinishRead, Get, Snapshot, Unchanged, Refund,
           Stage, Check, Publish, Sync, Record, SlotExpires
      <4> QED
        BY <3>1, <4>2 DEF Charge
    <3>2. CASE Direct \/ Crash \/ UNCHANGED vars
      BY <3>2 DEF Direct, Crash, vars
    <3> QED
      BY <3>1, <3>2 DEF Next
  <2>2. CASE window' \in SUBSET window
    <3>1. IsFiniteSet(window) /\ Cardinality(window) \in Nat /\ Cardinality(window) <= RateMax
      BY <1>1 DEF Slots
    <3>2. Cardinality(window') <= Cardinality(window) /\ Cardinality(window') \in Nat
      BY <2>2, <3>1, FS_Subset, FS_CardinalityType
    <3> QED
      BY <3>1, <3>2, <1>2
  <2>3. CASE \E c \in Calls : window' = window \union {c} /\ ~(Cardinality(window) >= RateMax)
    <3>1. PICK c \in Calls : window' = window \union {c} /\ ~(Cardinality(window) >= RateMax)
      BY <2>3
    <3>2. IsFiniteSet(window) /\ Cardinality(window) \in Nat
      BY <1>1 DEF Slots
    <3>3. Cardinality(window \union {c}) \in {Cardinality(window), Cardinality(window) + 1}
      BY <3>2, FS_AddElement
    <3> QED
      BY <3>1, <3>2, <3>3, <1>2
  <2> QED
    BY <2>1, <2>2, <2>3
<1> QED
  BY <1>3, <1>4 DEF Slots

\* An event that is appended takes the place of the last save, or is lost.
LEMMA RecordKeepsOrder ==
  ASSUME IInv, Slots, Ledger, NEW c \in Calls, Record(c)
  PROVE  Ledger'
<1>1. /\ call[c].pc = "event" /\ published' = published
      /\ call' = [call EXCEPT ![c].pc = "done", ![c].answer = "saved", ![c].opened = Nothing]
      /\ events' = Append(events, c) \/ events' = events
  BY DEF Record, Answered, history
<1>2. call'[c].pc = "done" /\ \A d \in Calls \ {c} : call'[d] = call[d]
  BY <1>1 DEF IInv, Types, CallRecord
<1>3. \A i \in DOMAIN events : events[i] \in Calls /\ events[i] # c
  BY <1>1 DEF Slots, Ledger
<1>4. published # <<>> /\ published[Len(published)] = c /\ events \in Seq(Calls) /\ published \in Seq(Calls)
  BY <1>1 DEF Ledger, Slots
<1>5. EventsInSaveOrder'
  <2>1. CASE events' = events
    BY <2>1, <1>1 DEF Ledger, EventsInSaveOrder
  <2>2. CASE events' = Append(events, c)
    <3>1. PICK place \in [DOMAIN events -> DOMAIN published] :
            /\ \A i \in DOMAIN events : published[place[i]] = events[i]
            /\ \A i, j \in DOMAIN events : i < j => place[i] < place[j]
      BY DEF Ledger, EventsInSaveOrder
    <3>2. PICK n \in Nat : n = Len(published) /\ DOMAIN published = 1 .. n /\ n > 0
      BY <1>4
    <3>3. PICK e \in Nat : e = Len(events) /\ DOMAIN events = 1 .. e /\ DOMAIN events' = 1 .. e + 1
      BY <1>4, <2>2
    <3>4. events'[e + 1] = c /\ \A i \in 1 .. e : events'[i] = events[i]
      BY <1>4, <2>2, <3>3
    <3>5. \A i \in 1 .. e : place[i] \in 1 .. n /\ place[i] # n
      BY <1>3, <1>4, <3>1, <3>2, <3>3
    <3> DEFINE after == [i \in 1 .. e + 1 |-> IF i <= e THEN place[i] ELSE n]
    <3>6. after \in [DOMAIN events' -> DOMAIN published']
      BY <1>1, <3>2, <3>3, <3>5
    <3>7. \A i \in DOMAIN events' : published'[after[i]] = events'[i]
      BY <1>1, <1>4, <3>1, <3>2, <3>3, <3>4
    <3>8. \A i, j \in DOMAIN events' : i < j => after[i] < after[j]
      BY <3>1, <3>3, <3>5
    <3> QED
      BY <3>6, <3>7, <3>8 DEF EventsInSaveOrder
  <2> QED
    BY <1>1, <2>1, <2>2
<1>6. \A d \in Calls : call'[d].pc \in {"sync", "event"} =>
          published' # <<>> /\ published'[Len(published')] = d
  BY <1>1, <1>2 DEF Ledger
<1>7. \A i \in DOMAIN events' : call'[events'[i]].pc = "done"
  <2>1. CASE events' = events
    BY <2>1, <1>2, <1>3 DEF Ledger
  <2>2. CASE events' = Append(events, c)
    <3>1. \A i \in DOMAIN events' : events'[i] = c \/ (i \in DOMAIN events /\ events'[i] = events[i])
      BY <2>2, <1>4
    <3> QED
      BY <3>1, <1>2, <1>3 DEF Ledger
  <2> QED
    BY <1>1, <2>1, <2>2
<1> QED
  BY <1>5, <1>6, <1>7 DEF Ledger

\* The lock keeps a second call from publishing before the first has recorded.
LEMMA PublishKeepsOrder ==
  ASSUME IInv, Slots, Ledger, NEW c \in Calls, Publish(c), ~Refuse(c, "unsafe-file")
  PROVE  Ledger'
<1>1. /\ call[c].pc = "publish" /\ published' = Append(published, c) /\ events' = events
      /\ call' = [call EXCEPT ![c].pc = "sync"]
  BY DEF Publish, Step
<1>2. call'[c].pc = "sync" /\ \A d \in Calls \ {c} : call'[d] = call[d]
  BY <1>1 DEF IInv, Types, CallRecord
<1>3. \A d \in Calls \ {c} : call[d].pc \notin {"sync", "event"}
  BY <1>1 DEF IInv, OneHolder, Locked
<1>4a. published \in Seq(Calls)
  BY DEF Slots
<1>4b. PICK n \in Nat : n = Len(published) /\ DOMAIN published = 1 .. n
  BY <1>4a
<1>4. /\ DOMAIN published' = 1 .. n + 1 /\ published' # <<>> /\ Len(published') = n + 1
      /\ published'[n + 1] = c /\ \A i \in 1 .. n : published'[i] = published[i]
  BY <1>1, <1>4a, <1>4b
<1>5. EventsInSaveOrder'
  <2>1. PICK place \in [DOMAIN events -> DOMAIN published] :
            /\ \A i \in DOMAIN events : published[place[i]] = events[i]
            /\ \A i, j \in DOMAIN events : i < j => place[i] < place[j]
    BY DEF Ledger, EventsInSaveOrder
  <2>2. place \in [DOMAIN events' -> DOMAIN published']
    BY <1>1, <1>4b, <1>4, <2>1
  <2>3. \A i \in DOMAIN events' : published'[place[i]] = events'[i]
    BY <1>1, <1>4b, <1>4, <2>1
  <2> QED
    BY <1>1, <2>1, <2>2, <2>3 DEF EventsInSaveOrder
<1>6. \A i \in DOMAIN events' : call'[events'[i]].pc = "done"
  <2>1. \A i \in DOMAIN events : events[i] \in Calls /\ call[events[i]].pc = "done"
    BY DEF Slots, Ledger
  <2> QED
    BY <1>1, <1>2, <2>1
<1> QED
  BY <1>2, <1>3, <1>4, <1>5, <1>6 DEF Ledger

\* Every other step leaves both sequences alone, answers for good, and brings
\* no call past its rename.
LEMMA OthersKeepOrder ==
  ASSUME IInv, Slots, Ledger, events' = events, published' = published,
         \A d \in Calls : /\ call[d].pc = "done" => call'[d].pc = "done"
                          /\ call'[d].pc \in {"sync", "event"} => call[d].pc \in {"sync", "event"}
  PROVE  Ledger'
<1>1. \A i \in DOMAIN events : events[i] \in Calls
  BY DEF Slots
<1>2. EventsInSaveOrder'
  <2>1. EventsInSaveOrder
    BY DEF Ledger
  <2> QED
    BY <2>1 DEF EventsInSaveOrder
<1>3. \A i \in DOMAIN events : call[events[i]].pc = "done"
  BY DEF Ledger
<1>4. \A i \in DOMAIN events' : call'[events'[i]].pc = "done"
  BY <1>1, <1>3
<1>5. \A c \in Calls : call'[c].pc \in {"sync", "event"} =>
          published' # <<>> /\ published'[Len(published')] = c
  BY DEF Ledger
<1> QED
  BY <1>2, <1>4, <1>5 DEF Ledger

LEMMA LedgerKept ==
  ASSUME IInv, Slots, Ledger, [Next]_vars
  PROVE  Ledger'
<1>1. ASSUME NEW c \in Calls, call[c].pc # "done",
             NEW r, call' = [call EXCEPT ![c] = r], events' = events, published' = published,
             r.pc \in {"sync", "event"} => call[c].pc \in {"sync", "event"}
      PROVE  Ledger'
  <2>1. call'[c] = r /\ \A d \in Calls \ {c} : call'[d] = call[d]
    BY <1>1 DEF IInv, Types
  <2> QED
    BY <1>1, <2>1, OthersKeepOrder
<1>2. ASSUME NEW c \in Calls, CallStep(c)
      PROVE  Ledger'
  <2> DEFINE Quiet == events' = events /\ published' = published
  <2>1. call[c] \in CallRecord
    BY DEF IInv, Types
  <2>2. ASSUME NEW code, Answered(c, code), call[c].pc # "done", Quiet PROVE Ledger'
    <3> DEFINE r == [call[c] EXCEPT !.pc = "done", !.answer = code, !.opened = Nothing]
    <3>1. r.pc = "done"
      BY <2>1 DEF CallRecord
    <3>2. call' = [call EXCEPT ![c] = r]
      BY <2>2 DEF Answered
    <3> HIDE DEF r
    <3> QED
      BY <2>2, <3>1, <3>2, <1>1
  <2>3. ASSUME NEW code, Refuse(c, code), call[c].pc # "done" PROVE Ledger'
    BY <2>2, <2>3 DEF Refuse, history
  <2>4. ASSUME NEW pc, Step(c, pc), call[c].pc # "done", Quiet,
               pc \in {"sync", "event"} => call[c].pc \in {"sync", "event"}
        PROVE  Ledger'
    <3>1. [call[c] EXCEPT !.pc = pc].pc = pc
      BY <2>1 DEF CallRecord
    <3> QED
      BY <2>4, <3>1, <1>1 DEF Step
  <2>5. CASE Charge(c)
    BY <2>5, <2>2, <2>4 DEF Charge, history
  <2>6. CASE Arrive(c) \/ ManifestRefuses(c)
    BY <2>6, <2>2, <2>3, <2>4 DEF Arrive, ManifestRefuses, history
  <2>7. CASE Open(c)
    <3>1. CASE \E code : Refuse(c, code)
      BY <3>1, <2>3, <2>7 DEF Open
    <3>2. CASE ~ \E code : Refuse(c, code)
      <4> DEFINE pc == IF file.content = Absent THEN "resolve" ELSE "reading"
                 r == [call[c] EXCEPT !.opened = file, !.pc = pc]
      <4>1. call' = [call EXCEPT ![c] = r] /\ Quiet /\ call[c].pc = "queued"
        BY <2>7, <3>2 DEF Open, history
      <4>2. r.pc \in {"resolve", "reading"}
        BY <2>1 DEF CallRecord
      <4> HIDE DEF r
      <4> QED
        BY <4>1, <4>2, <1>1
    <3> QED
      BY <3>1, <3>2
  <2>8. CASE FinishRead(c)
    <3>1. CASE \E code : Refuse(c, code)
      BY <3>1, <2>3, <2>8 DEF FinishRead
    <3>2. CASE ~ \E code : Refuse(c, code)
      <4> DEFINE r == [call[c] EXCEPT !.pc = "resolve", !.opened.content = Bytes(c)]
      <4>1. call' = [call EXCEPT ![c] = r] /\ Quiet /\ call[c].pc = "reading"
        BY <2>8, <3>2 DEF FinishRead, history
      <4>2. r.pc = "resolve"
        BY <2>1 DEF CallRecord
      <4> HIDE DEF r
      <4> QED
        BY <4>1, <4>2, <1>1
    <3> QED
      BY <3>1, <3>2
  <2>9. CASE Get(c) \/ Snapshot(c)
    <3>1. CASE \E code : Refuse(c, code)
      BY <3>1, <2>3, <2>9 DEF Get, Snapshot
    <3>2. CASE ~ \E code : Refuse(c, code)
      <4>1. PICK answer \in {"read", "snapshot"} :
              call' = [call EXCEPT ![c].pc = "done", ![c].answer = answer,
                                   ![c].data = call[c].opened.content, ![c].opened = Nothing]
        BY <2>9, <3>2 DEF Get, Snapshot
      <4> DEFINE r == [call[c] EXCEPT !.pc = "done", !.answer = answer,
                                      !.data = call[c].opened.content, !.opened = Nothing]
      <4>2. Quiet /\ call[c].pc = "resolve"
        BY <2>9, <3>2 DEF Get, Snapshot, history
      <4>3. r.pc = "done"
        BY <2>1 DEF CallRecord
      <4>4. call' = [call EXCEPT ![c] = r]
        BY <4>1
      <4> HIDE DEF r
      <4> QED
        BY <4>2, <4>3, <4>4, <1>1
    <3> QED
      BY <3>1, <3>2
  <2>10. CASE Unchanged(c)
    BY <2>10, <2>2, <2>3 DEF Unchanged, history
  <2>11. CASE Stage(c)
    BY <2>11, <2>2, <2>3, <2>4 DEF Stage, history
  <2>12. CASE Check(c)
    BY <2>12, <2>3, <2>4 DEF Check, history
  <2>13. CASE Publish(c)
    <3>1. CASE Refuse(c, "unsafe-file")
      BY <3>1, <2>13, <2>3 DEF Publish
    <3> QED
      BY <3>1, <2>13, PublishKeepsOrder
  <2>14. CASE Sync(c)
    BY <2>14, <2>3, <2>4 DEF Sync, history
  <2>15. CASE SlotExpires(c)
    BY <2>15, OthersKeepOrder DEF SlotExpires, history
  <2> QED
    BY <1>2, <2>5, <2>6, <2>7, <2>8, <2>9, <2>10, <2>11, <2>12, <2>13, <2>14, <2>15, RecordKeepsOrder DEF CallStep
<1>3. CASE Direct \/ UNCHANGED vars
  BY <1>3, OthersKeepOrder DEF Direct, vars
<1>4. CASE Crash
  <2>1. events' = events /\ published' = published
    BY <1>4 DEF Crash, history
  <2>2. ASSUME NEW d \in Calls
        PROVE  /\ call[d].pc = "done" => call'[d].pc = "done"
               /\ call'[d].pc \in {"sync", "event"} => call[d].pc \in {"sync", "event"}
    <3>1. call[d] \in CallRecord
      BY DEF IInv, Types
    <3> QED
      BY <1>4, <3>1 DEF Crash, CallRecord
  <2> QED
    BY <2>1, <2>2, OthersKeepOrder
<1> QED
  BY <1>2, <1>3, <1>4 DEF Next

LEMMA SlotsAndLedger == Spec => [](IInv /\ Slots /\ Ledger)
<1>1. Init => IInv /\ Slots /\ Ledger
  <2> SUFFICES ASSUME Init PROVE Slots /\ Ledger
    BY InitSound
  <2>1. Slots
    BY ArtifactAssumption, FS_EmptySet DEF Init, Slots
  <2>2. \A c \in Calls : call[c].pc = "new"
    BY DEF Init
  <2>3. events = <<>> /\ published = <<>> /\ DOMAIN events = {} /\ DOMAIN published = {}
    BY DEF Init
  <2>4. EventsInSaveOrder
    <3>1. [i \in {} |-> i] \in [DOMAIN events -> DOMAIN published]
      BY <2>3
    <3> QED
      BY <2>3, <3>1 DEF EventsInSaveOrder
  <2> QED
    BY <2>1, <2>2, <2>3, <2>4 DEF Ledger
<1>2. IInv /\ Slots /\ Ledger /\ [Next]_vars => (IInv /\ Slots /\ Ledger)'
  BY NextKeeps, SlotsKept, LedgerKept
<1> QED
  BY <1>1, <1>2, PTL DEF Spec

\* Every call, slot and event has its type, and the window never holds more
\* than RATE_MAX_PER_WINDOW slots.
THEOREM TypeCorrect == Spec => []TypeOK
<1>1. IInv /\ Slots => TypeOK
  BY DEF IInv, Types, Slots, CallRecord, Content, Opened, Locked, TypeOK
<1> QED
  BY <1>1, SlotsAndLedger, PTL

\* lesson_artifact_saved: the lock is held until the event is recorded or
\* lost, so the ledger tells of saves in the order of the renames.
THEOREM LedgerInOrder == Spec => []EventsInSaveOrder
  BY SlotsAndLedger, PTL DEF Ledger
=============================================================================
