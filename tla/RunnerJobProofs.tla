--------------------------- MODULE RunnerJobProofs ---------------------------
(* Proofs about RunnerJob, for every set of streams and watchers and every   *)
(* bound: its types, its ending, and that it implements RunnerJobPromise.    *)
EXTENDS RunnerJob, TLAPS

States == {"STARTING", "RUNNING", "TERMINATING", "FINISHED"}
Unread == {"drive", "spawn", "adopt", "kill", "read"}

StreamRecord == [pc : {"none", "read", "overflow", "killing", "dying", "closing", "done"},
                 read : 0..MaxChunks, eof : BOOLEAN]

\* What each stage of the driver, the readers and the killers knows.
Stages ==
    /\ state \in {"STARTING", "RUNNING"} <=> cause = "none"
    /\ \A s \in Streams : stream[s].eof => \/ stream[s].pc = "done"
                                           \/ stream[s].pc = "none" /\ driver = "done"
    /\ driver \in Unread => \A s \in Streams : stream[s].pc = "none"
    /\ driver = "done" => \A s \in Streams : stream[s].pc \in {"none", "done"}
    /\ \A s \in Streams : s \in killers => stream[s].pc \in {"killing", "dying"}
    /\ state = "FINISHED" => reaped /\ \A s \in Streams : stream[s].eof
    /\ reaped => driver \in {"record", "gather", "done"} /\ child \in {"none", "collected"}
    /\ driver \in {"drive", "spawn"} => child = "none"
    /\ driver \in {"drive", "spawn", "adopt"} => state # "RUNNING"
    /\ hook # "none" => state = "FINISHED"

IInv == TypeOK /\ Stages /\ EndingHonest
-----------------------------------------------------------------------------
(* The sections under the lock. *)

JobRecord == [state : States, cause : Causes \union {"none"}, released : Nat,
              events : Seq({"output", "exit"}), hook : {"none", "running", "done"},
              reaped : BOOLEAN]

\* A job is what its record says.
LEMMA JobFields ==
  ASSUME TypeOK
  PROVE  /\ Job \in JobRecord
         /\ Job.state = state /\ Job.cause = cause /\ Job.released = released
         /\ Job.events = events /\ Job.hook = hook /\ Job.reaped = reaped
  BY DEF Job, JobRecord, TypeOK, States

\* Only the first cause changes anything.
LEMMA BeginFields ==
  ASSUME NEW j \in JobRecord, NEW c \in Causes
  PROVE  /\ Begin(j, c) \in JobRecord
         /\ Begin(j, c).events = j.events /\ Begin(j, c).hook = j.hook
         /\ Begin(j, c).reaped = j.reaped
         /\ j.cause # "none" => Begin(j, c) = j
         /\ j.cause = "none" => Begin(j, c).state = "TERMINATING" /\ Begin(j, c).cause = c
<1>1. CASE Wins(j)
  <2> DEFINE b == [j EXCEPT !.state = "TERMINATING", !.cause = c, !.released = @ + 1]
  <2>1. Begin(j, c) = b /\ j.cause = "none"
    BY <1>1 DEF Begin, Wins
  <2>2. /\ b.state = "TERMINATING" /\ b.cause = c /\ b.events = j.events /\ b.hook = j.hook
        /\ b.reaped = j.reaped
    BY DEF JobRecord
  <2>3. "TERMINATING" \in States /\ c \in Causes \union {"none"} /\ j.released + 1 \in Nat
    BY DEF JobRecord, States
  <2>4. b \in JobRecord
    BY <2>3 DEF JobRecord
  <2> QED
    BY <2>1, <2>2, <2>4
<1>2. CASE ~Wins(j)
  BY <1>2 DEF Begin, Wins
<1> QED
  BY <1>1, <1>2

\* The terminal record is appended once, when all three have come.
LEMMA FinishFields ==
  ASSUME NEW j \in JobRecord, NEW eof
  PROVE  /\ Finish(j, eof) \in JobRecord
         /\ Finish(j, eof).cause = j.cause /\ Finish(j, eof).reaped = j.reaped
         /\ ~Complete(j, eof) => Finish(j, eof) = j
         /\ Complete(j, eof) => /\ Finish(j, eof).state = "FINISHED"
                                /\ Finish(j, eof).hook = "running"
                                /\ Finish(j, eof).events = Append(j.events, "exit")
<1>1. Append(j.events, "exit") \in Seq({"output", "exit"})
  BY DEF JobRecord
<1> QED
  BY <1>1 DEF Finish, JobRecord, States

LEMMA ReapedRecord ==
  ASSUME NEW j \in JobRecord
  PROVE  /\ [j EXCEPT !.reaped = TRUE] \in JobRecord
         /\ [j EXCEPT !.reaped = TRUE].reaped
         /\ [j EXCEPT !.reaped = TRUE].state = j.state /\ [j EXCEPT !.reaped = TRUE].cause = j.cause
         /\ [j EXCEPT !.reaped = TRUE].events = j.events /\ [j EXCEPT !.reaped = TRUE].hook = j.hook
  BY DEF JobRecord

\* What becomes of a job keeps the types of what it sets.
LEMMA BecomesTyped ==
  ASSUME TypeOK, NEW j \in JobRecord, Becomes(j)
  PROVE  /\ state' \in States /\ cause' \in Causes \union {"none"} /\ released' \in Nat
         /\ events' \in Seq({"output", "exit"}) /\ hook' \in {"none", "running", "done"}
         /\ reaped' \in BOOLEAN
         /\ watch' \in [Watchers -> [pc : {"poll", "register", "wait", "done"}, cursor : Nat]]
  BY DEF Becomes, Notify, Notified, JobRecord, TypeOK

LEMMA Begins ==
  ASSUME TypeOK, NEW c \in Causes, Becomes(Begin(Job, c))
  PROVE  /\ UNCHANGED <<events, hook, reaped>>
         /\ cause # "none" => UNCHANGED <<state, cause>>
         /\ cause = "none" => state' = "TERMINATING" /\ cause' = c
         /\ Begin(Job, c) \in JobRecord
  BY JobFields, BeginFields DEF Becomes

LEMMA Finishes ==
  ASSUME NEW j \in JobRecord, NEW eof, Becomes(Finish(j, eof))
  PROVE  /\ cause' = j.cause /\ reaped' = j.reaped
         /\ Complete(j, eof) => state' = "FINISHED" /\ hook' = "running" /\ events' = Append(j.events, "exit")
         /\ ~Complete(j, eof) => state' = j.state /\ hook' = j.hook /\ events' = j.events
         /\ Finish(j, eof) \in JobRecord
  BY FinishFields DEF Becomes
-----------------------------------------------------------------------------
(* Records of streams. *)

Pcs == {"none", "read", "overflow", "killing", "dying", "closing", "done"}

LEMMA StreamsTyped == TypeOK => stream \in [Streams -> StreamRecord]
  BY DEF TypeOK, StreamRecord

LEMMA RecordMoved ==
  ASSUME NEW r \in StreamRecord, NEW pc \in Pcs
  PROVE  /\ [r EXCEPT !.pc = pc] \in StreamRecord /\ [r EXCEPT !.eof = TRUE] \in StreamRecord
         /\ [r EXCEPT !.pc = pc].pc = pc /\ [r EXCEPT !.pc = pc].eof = r.eof
         /\ [r EXCEPT !.pc = pc].read = r.read
  BY DEF StreamRecord, Pcs

\* One stream moves on.
LEMMA StreamMoved ==
  ASSUME TypeOK, NEW s \in Streams, NEW pc \in Pcs, stream' = [stream EXCEPT ![s].pc = pc]
  PROVE  /\ stream' \in [Streams -> StreamRecord]
         /\ stream'[s].pc = pc /\ stream'[s].eof = stream[s].eof
         /\ \A t \in Streams \ {s} : stream'[t] = stream[t]
<1>1. PICK r : r = stream[s]
  OBVIOUS
<1>2. r \in StreamRecord
  BY <1>1, StreamsTyped
<1>3. stream' = [stream EXCEPT ![s] = [r EXCEPT !.pc = pc]]
  BY <1>1, StreamsTyped
<1>4. PICK q : q = [r EXCEPT !.pc = pc]
  OBVIOUS
<1>5. q \in StreamRecord /\ q.pc = pc /\ q.eof = r.eof
  BY <1>2, <1>4, RecordMoved
<1>6. stream' = [stream EXCEPT ![s] = q]
  BY <1>3, <1>4
<1> QED
  BY <1>1, <1>5, <1>6, StreamsTyped

LEMMA StreamsEnded ==
  ASSUME TypeOK, stream' = [s \in Streams |-> [stream[s] EXCEPT !.eof = TRUE]]
  PROVE  stream' \in [Streams -> StreamRecord]
<1>1. \A s \in Streams : stream[s] \in StreamRecord
  BY StreamsTyped
<1>2. "none" \in Pcs
  BY DEF Pcs
<1>3. \A s \in Streams : [stream[s] EXCEPT !.eof = TRUE] \in StreamRecord
  BY <1>1, <1>2, RecordMoved
<1> QED
  BY <1>3
-----------------------------------------------------------------------------
(* Records of watchers. *)

WatchRecord == [pc : {"poll", "register", "wait", "done"}, cursor : Nat]

LEMMA WatchesTyped ==
  ASSUME TypeOK
  PROVE  watch \in [Watchers -> WatchRecord] /\ Notified \in [Watchers -> WatchRecord]
<1>1. watch \in [Watchers -> WatchRecord]
  BY DEF TypeOK, WatchRecord
<1>2. ASSUME NEW r \in WatchRecord
      PROVE  [r EXCEPT !.pc = IF @ = "wait" THEN "poll" ELSE @] \in WatchRecord
  BY DEF WatchRecord
<1> QED
  BY <1>1, <1>2 DEF Notified
-----------------------------------------------------------------------------
(* The steps.  Each keeps the invariant and is a step of the promise.        *)

Promised == [Promise!Next]_<<state, cause, events>>
Good == IInv' /\ Promised

\* A step that leaves the records, the cause and the hook alone.
LEMMA Calm ==
  ASSUME UNCHANGED <<state, cause, events>>
  PROVE  Promised
  BY DEF Promised

LEMMA StepSpawn ==
  ASSUME IInv, Spawn
  PROVE  Good
<1>1. TypeOK'
  BY DEF IInv, TypeOK, Spawn, job, status
<1>2. Stages'
  BY DEF IInv, Stages, Spawn, job, status, Unread
<1>3. EndingHonest'
  BY DEF IInv, EndingHonest, CancelHonoured, FinishedMeansDead, StatusIsFinal, Stages, Spawn, job, status
<1> QED
  BY <1>1, <1>2, <1>3, Calm DEF Good, IInv, Spawn, job

LEMMA StepDrive ==
  ASSUME IInv, Drive
  PROVE  Good
<1> DEFINE j == [Job EXCEPT !.reaped = TRUE]
<1>1. CASE state = "STARTING"
  <2>1. driver = "drive" /\ driver' = "spawn" /\ UNCHANGED <<stream, hook, watch, job, child, killers, acked, shutdown, status>>
    BY <1>1 DEF Drive, job
  <2>2. TypeOK'
    BY <2>1 DEF IInv, TypeOK, job, status
  <2>3. Stages'
    BY <2>1 DEF IInv, Stages, job, status, Unread
  <2>4. EndingHonest'
    BY <2>1 DEF IInv, EndingHonest, CancelHonoured, FinishedMeansDead, StatusIsFinal, job, status
  <2> QED
    BY <2>1, <2>2, <2>3, <2>4, Calm DEF Good, IInv, job
<1>2. CASE state # "STARTING"
  <2>1. /\ driver = "drive" /\ driver' = "done" /\ Becomes(Finish(j, AllEOF))
        /\ stream' = [s \in Streams |-> [stream[s] EXCEPT !.eof = TRUE]]
        /\ UNCHANGED <<truncated, adopted, child, killers, acked, shutdown, status>>
    BY <1>2 DEF Drive
  <2>2. state = "TERMINATING" /\ hook = "none" /\ child = "none" /\ cause # "none"
    BY <1>2, <2>1 DEF IInv, Stages, TypeOK
  <2>3. j \in JobRecord /\ j.reaped /\ j.state = state /\ j.cause = cause /\ j.events = events
    BY JobFields, ReapedRecord DEF IInv
  <2>4. Complete(j, AllEOF)
    BY <2>2, <2>3 DEF Complete, AllEOF
  <2>5. /\ cause' = cause /\ reaped' /\ state' = "FINISHED" /\ hook' = "running"
        /\ events' = Append(events, "exit") /\ Finish(j, AllEOF) \in JobRecord
    BY <2>1, <2>3, <2>4, Finishes
  <2>a. stream' \in [Streams -> StreamRecord]
    BY <2>1, StreamsEnded DEF IInv
  <2>6. TypeOK'
    BY <2>1, <2>5, <2>a, BecomesTyped DEF IInv, TypeOK, States, StreamRecord, status
  <2>7. Stages'
    BY <2>1, <2>2, <2>5 DEF IInv, Stages, TypeOK, Unread
  <2>8. EndingHonest'
    BY <2>1, <2>2, <2>5 DEF IInv, EndingHonest, CancelHonoured, FinishedMeansDead, StatusIsFinal, status
  <2>9. Promised
    BY <2>2, <2>5 DEF Promised, Promise!Next, Promise!Finish
  <2> QED
    BY <2>5, <2>6, <2>7, <2>8, <2>9 DEF Good, IInv
<1> QED
  BY <1>1, <1>2

LEMMA StepDriverKills ==
  ASSUME IInv, DriverKills
  PROVE  Good
<1>1. TypeOK'
  BY DEF IInv, TypeOK, DriverKills, job, control, status, Kill
<1>2. Stages'
  BY DEF IInv, Stages, DriverKills, job, control, status, Unread, Kill
<1>3. EndingHonest'
  BY DEF IInv, EndingHonest, CancelHonoured, FinishedMeansDead, StatusIsFinal, Stages, DriverKills, job, control, status, Kill, TypeOK
<1> QED
  BY <1>1, <1>2, <1>3, Calm DEF Good, IInv, DriverKills, job

LEMMA StepCancelKills ==
  ASSUME IInv, CancelKills
  PROVE  Good
<1>1. TypeOK'
  BY DEF IInv, TypeOK, CancelKills, job, control, status, Kill
<1>2. Stages'
  BY DEF IInv, Stages, CancelKills, job, control, status, Unread, Kill
<1>3. EndingHonest'
  BY DEF IInv, EndingHonest, CancelHonoured, FinishedMeansDead, StatusIsFinal, Stages, CancelKills, job, control, status, Kill, TypeOK
<1> QED
  BY <1>1, <1>2, <1>3, Calm DEF Good, IInv, CancelKills, job

LEMMA StepShutdownKills ==
  ASSUME IInv, ShutdownKills
  PROVE  Good
<1>1. TypeOK'
  BY DEF IInv, TypeOK, ShutdownKills, job, control, status, Kill
<1>2. Stages'
  BY DEF IInv, Stages, ShutdownKills, job, control, status, Unread, Kill
<1>3. EndingHonest'
  BY DEF IInv, EndingHonest, CancelHonoured, FinishedMeansDead, StatusIsFinal, Stages, ShutdownKills, job, control, status, Kill, TypeOK
<1> QED
  BY <1>1, <1>2, <1>3, Calm DEF Good, IInv, ShutdownKills, job

LEMMA StepShutdownReturns ==
  ASSUME IInv, ShutdownReturns
  PROVE  Good
<1>1. TypeOK'
  BY DEF IInv, TypeOK, ShutdownReturns, job, control, status
<1>2. Stages'
  BY DEF IInv, Stages, ShutdownReturns, job, control, status, Unread
<1>3. EndingHonest'
  BY DEF IInv, EndingHonest, CancelHonoured, FinishedMeansDead, StatusIsFinal, Stages, ShutdownReturns, job, control, status
<1> QED
  BY <1>1, <1>2, <1>3, Calm DEF Good, IInv, ShutdownReturns, job

LEMMA StepChildExits ==
  ASSUME IInv, ChildExits
  PROVE  Good
<1>1. TypeOK'
  BY DEF IInv, TypeOK, ChildExits, job, control, status
<1>2. Stages'
  BY DEF IInv, Stages, ChildExits, job, control, status, Unread
<1>3. EndingHonest'
  BY DEF IInv, EndingHonest, CancelHonoured, FinishedMeansDead, StatusIsFinal, Stages, ChildExits, job, control, status
<1> QED
  BY <1>1, <1>2, <1>3, Calm DEF Good, IInv, ChildExits, job

LEMMA StepCollect ==
  ASSUME IInv, Collect
  PROVE  Good
<1>1. TypeOK'
  BY DEF IInv, TypeOK, Collect, job, control, status
<1>2. Stages'
  BY DEF IInv, Stages, Collect, job, control, status, Unread
<1>3. EndingHonest'
  BY DEF IInv, EndingHonest, CancelHonoured, FinishedMeansDead, StatusIsFinal, Stages, Collect, job, control, status
<1> QED
  BY <1>1, <1>2, <1>3, Calm DEF Good, IInv, Collect, job

LEMMA StepReap ==
  ASSUME IInv, Reap
  PROVE  Good
<1>1. TypeOK'
  BY DEF IInv, TypeOK, Reap, job, control, status
<1>2. Stages'
  BY DEF IInv, Stages, Reap, job, control, status, Unread
<1>3. EndingHonest'
  BY DEF IInv, EndingHonest, CancelHonoured, FinishedMeansDead, StatusIsFinal, Stages, Reap, job, control, status
<1> QED
  BY <1>1, <1>2, <1>3, Calm DEF Good, IInv, Reap, job

LEMMA StepRunHook ==
  ASSUME IInv, NEW ok \in BOOLEAN, RunHook(ok)
  PROVE  Good
<1>0. watch' \in [Watchers -> WatchRecord]
  BY WatchesTyped DEF IInv, RunHook
<1>1. TypeOK'
  BY <1>0 DEF IInv, TypeOK, RunHook, job, control, status, WatchRecord
<1>2. Stages'
  BY DEF IInv, Stages, RunHook, job, control, status, Unread
<1>3. EndingHonest'
  BY DEF IInv, EndingHonest, CancelHonoured, FinishedMeansDead, StatusIsFinal, Stages, RunHook, job, control, status, TypeOK
<1> QED
  BY <1>1, <1>2, <1>3, Calm DEF Good, IInv, RunHook, job

LEMMA StepPoll ==
  ASSUME IInv, NEW w \in Watchers, Poll(w)
  PROVE  Good
<1>1. TypeOK'
  BY DEF IInv, TypeOK, Poll, job, control, status
<1>2. Stages'
  BY DEF IInv, Stages, Poll, job, control, status, Unread
<1>3. EndingHonest'
  BY DEF IInv, EndingHonest, CancelHonoured, FinishedMeansDead, StatusIsFinal, Stages, Poll, job, control, status
<1> QED
  BY <1>1, <1>2, <1>3, Calm DEF Good, IInv, Poll, job

LEMMA StepRegister ==
  ASSUME IInv, NEW w \in Watchers, Register(w)
  PROVE  Good
<1>0. watch' \in [Watchers -> WatchRecord]
  <2>1. PICK q : q = [watch[w] EXCEPT !.pc = IF Missed(w) THEN "poll" ELSE "wait"]
    OBVIOUS
  <2>2. q \in WatchRecord
    BY <2>1, WatchesTyped DEF IInv, WatchRecord
  <2>3. watch' = [watch EXCEPT ![w] = q]
    BY <2>1, WatchesTyped DEF IInv, Register
  <2> QED
    BY <2>2, <2>3, WatchesTyped DEF IInv
<1>1. TypeOK'
  BY <1>0 DEF IInv, TypeOK, Register, job, control, status, WatchRecord
<1>2. Stages'
  BY DEF IInv, Stages, Register, job, control, status, Unread
<1>3. EndingHonest'
  BY DEF IInv, EndingHonest, CancelHonoured, FinishedMeansDead, StatusIsFinal, Stages, Register, job, control, status
<1> QED
  BY <1>1, <1>2, <1>3, Calm DEF Good, IInv, Register, job

LEMMA StepKeepalive ==
  ASSUME IInv, NEW w \in Watchers, Keepalive(w)
  PROVE  Good
<1>1. TypeOK'
  BY DEF IInv, TypeOK, Keepalive, job, control, status
<1>2. Stages'
  BY DEF IInv, Stages, Keepalive, job, control, status, Unread
<1>3. EndingHonest'
  BY DEF IInv, EndingHonest, CancelHonoured, FinishedMeansDead, StatusIsFinal, Stages, Keepalive, job, control, status
<1> QED
  BY <1>1, <1>2, <1>3, Calm DEF Good, IInv, Keepalive, job

LEMMA StepGetLessonRun ==
  ASSUME IInv, GetLessonRun
  PROVE  Good
<1>1. TypeOK'
  BY DEF IInv, TypeOK, GetLessonRun, job, control, status, Told
<1>2. Stages'
  BY DEF IInv, Stages, GetLessonRun, job, control, status, Unread
<1>3. EndingHonest'
  BY DEF IInv, EndingHonest, CancelHonoured, FinishedMeansDead, StatusIsFinal, Stages, GetLessonRun, job, control, status, Attempted, Told, TypeOK
<1> QED
  BY <1>1, <1>2, <1>3, Calm DEF Good, IInv, GetLessonRun, job

LEMMA StepAnswerStatus ==
  ASSUME IInv, AnswerStatus
  PROVE  Good
<1>1. TypeOK'
  BY DEF IInv, TypeOK, AnswerStatus, job, control, status, Told
<1>2. Stages'
  BY DEF IInv, Stages, AnswerStatus, job, control, status, Unread
<1>3. EndingHonest'
  BY DEF IInv, EndingHonest, CancelHonoured, FinishedMeansDead, StatusIsFinal, Stages, AnswerStatus, job, control, status, Attempted, Told, TypeOK
<1> QED
  BY <1>1, <1>2, <1>3, Calm DEF Good, IInv, AnswerStatus, job

\* A cause is named, and no more.
LEMMA BeginPromised ==
  ASSUME IInv, NEW c \in Causes, Becomes(Begin(Job, c))
  PROVE  Promised
  BY Begins DEF IInv, Stages, TypeOK, Promised, Promise!Next, Promise!Terminate

\* A job finishes, with the cause it had or with one it is given on the way.
LEMMA FinishPromised ==
  ASSUME IInv, NEW j \in JobRecord, NEW eof, Becomes(Finish(j, eof)), j.events = events,
         \/ j.state = state /\ j.cause = cause
         \/ cause = "none" /\ j.state = "TERMINATING" /\ j.cause \in Causes
  PROVE  Promised
<1>1. CASE Complete(j, eof)
  <2>1. state' = "FINISHED" /\ cause' = j.cause /\ events' = Append(events, "exit") /\ j.state = "TERMINATING"
    BY <1>1, Finishes DEF Complete
  <2>2. CASE j.state = state /\ j.cause = cause
    BY <2>1, <2>2 DEF Promised, Promise!Next, Promise!Finish
  <2>3. CASE cause = "none" /\ j.cause \in Causes
    BY <2>1, <2>3 DEF IInv, Stages, TypeOK, Promised, Promise!Next, Promise!TerminateAndFinish
  <2> QED
    BY <2>2, <2>3
<1>2. CASE ~Complete(j, eof)
  <2>1. state' = j.state /\ cause' = j.cause /\ events' = events
    BY <1>2, Finishes
  <2> QED
    BY <2>1 DEF IInv, Stages, TypeOK, Promised, Promise!Next, Promise!Terminate
<1> QED
  BY <1>1, <1>2

LEMMA StepSpawnFails ==
  ASSUME IInv, SpawnFails
  PROVE  Good
<1> DEFINE b == Begin(Job, "spawn-failed")
           j == [b EXCEPT !.reaped = TRUE]
<1>1. /\ driver = "spawn" /\ driver' = "done" /\ Becomes(Finish(j, AllEOF))
      /\ stream' = [s \in Streams |-> [stream[s] EXCEPT !.eof = TRUE]]
      /\ UNCHANGED <<truncated, adopted, child, killers, acked, shutdown, status>>
  BY DEF SpawnFails
<1>2. /\ state \in {"STARTING", "TERMINATING"} /\ hook = "none" /\ child = "none"
  BY <1>1 DEF IInv, Stages, TypeOK
<1>3. "spawn-failed" \in Causes
  BY DEF Causes
<1>4. /\ b \in JobRecord /\ b.events = events
      /\ cause # "none" => b.state = state /\ b.cause = cause
      /\ cause = "none" => b.state = "TERMINATING" /\ b.cause = "spawn-failed"
  BY <1>3, JobFields, BeginFields DEF IInv
<1> HIDE DEF b
<1>5. j \in JobRecord /\ j.reaped /\ j.state = b.state /\ j.cause = b.cause /\ j.events = events
  BY <1>4, ReapedRecord
<1> HIDE DEF j
<1>6. j.state = "TERMINATING" /\ j.cause # "none" /\ (acked => j.cause = cause)
  BY <1>2, <1>4, <1>5 DEF IInv, Stages, EndingHonest, CancelHonoured
<1>7. Complete(j, AllEOF)
  BY <1>5, <1>6 DEF Complete, AllEOF
<1>8. /\ cause' = j.cause /\ reaped' /\ state' = "FINISHED" /\ hook' = "running"
      /\ Finish(j, AllEOF) \in JobRecord
  BY <1>1, <1>5, <1>7, Finishes
<1>9. stream' \in [Streams -> StreamRecord]
  BY <1>1, StreamsEnded DEF IInv
<1>10. TypeOK'
  BY <1>1, <1>8, <1>9, BecomesTyped DEF IInv, TypeOK, States, StreamRecord, status
<1>11. Stages'
  BY <1>1, <1>2, <1>6, <1>8 DEF IInv, Stages, TypeOK, Unread
<1>12. EndingHonest'
  BY <1>1, <1>2, <1>6, <1>8 DEF IInv, EndingHonest, CancelHonoured, FinishedMeansDead, StatusIsFinal, status
<1>13. Promised
  BY <1>1, <1>3, <1>4, <1>5, FinishPromised
<1> QED
  BY <1>10, <1>11, <1>12, <1>13 DEF Good, IInv

LEMMA StepAdopt ==
  ASSUME IInv, Adopt
  PROVE  Good
<1>1. TypeOK'
  BY DEF IInv, TypeOK, Adopt, status
<1>2. Stages'
  BY DEF IInv, Stages, Adopt, Unread, TypeOK
<1>3. EndingHonest'
  BY DEF IInv, EndingHonest, CancelHonoured, FinishedMeansDead, StatusIsFinal, Adopt, status
<1>4. Promised
  BY DEF Adopt, Promised, Promise!Next, Promise!Run
<1> QED
  BY <1>1, <1>2, <1>3, <1>4 DEF Good, IInv

LEMMA StepStartReaders ==
  ASSUME IInv, StartReaders
  PROVE  Good
<1>1. \A s \in Streams : stream[s] \in StreamRecord /\ stream[s].pc = "none" /\ ~stream[s].eof
  BY StreamsTyped DEF IInv, Stages, StartReaders, Unread, StreamRecord
<1>2. "read" \in Pcs
  BY DEF Pcs
<1>3. \A s \in Streams : [stream[s] EXCEPT !.pc = "read"] \in StreamRecord
                          /\ [stream[s] EXCEPT !.pc = "read"].pc = "read"
                          /\ [stream[s] EXCEPT !.pc = "read"].eof = stream[s].eof
  BY <1>1, <1>2, RecordMoved
<1>4. /\ stream' \in [Streams -> StreamRecord]
      /\ \A s \in Streams : stream'[s].pc = "read" /\ ~stream'[s].eof
  BY <1>1, <1>3 DEF StartReaders
<1>5. TypeOK'
  BY <1>4 DEF IInv, TypeOK, StartReaders, StreamRecord, job, status
<1>6. \A s \in Streams : s \notin killers
  BY <1>1 DEF IInv, Stages
<1>7. driver = "read" /\ driver' = "wait" /\ UNCHANGED <<job, child, killers, hook>>
  BY DEF StartReaders
<1>7a. state # "FINISHED" /\ ~reaped
  BY <1>7 DEF IInv, Stages
<1>8. Stages'
  BY <1>4, <1>6, <1>7, <1>7a DEF IInv, Stages, Unread, job
<1>9. EndingHonest'
  BY DEF IInv, EndingHonest, CancelHonoured, FinishedMeansDead, StatusIsFinal, StartReaders, job, status
<1> QED
  BY <1>5, <1>8, <1>9, <1>7, Calm DEF Good, IInv, job

LEMMA StepInterrupt ==
  ASSUME IInv, NEW c \in {"timeout", "shutdown"}, Interrupt(c)
  PROVE  Good
<1>1. /\ driver = "wait" /\ driver' \in {"timeout", "rewait"} /\ Becomes(Begin(Job, c))
      /\ UNCHANGED <<truncated, adopted, child, stream, killers, acked, shutdown, status>>
  BY DEF Interrupt
<1>2. c \in Causes /\ c # "cancelled"
  BY DEF Causes
<1>3. /\ UNCHANGED <<events, hook, reaped>> /\ Begin(Job, c) \in JobRecord
      /\ cause # "none" => UNCHANGED <<state, cause>>
      /\ cause = "none" => state' = "TERMINATING" /\ cause' = c
  BY <1>1, <1>2, Begins DEF IInv
<1>4. TypeOK'
  BY <1>1, <1>3, BecomesTyped DEF IInv, TypeOK, States, status
<1>5. Stages'
  BY <1>1, <1>2, <1>3 DEF IInv, Stages, TypeOK, Unread
<1>6. EndingHonest'
  BY <1>1, <1>3 DEF IInv, EndingHonest, CancelHonoured, FinishedMeansDead, StatusIsFinal, Stages, TypeOK, status
<1> QED
  BY <1>1, <1>2, <1>3, <1>4, <1>5, <1>6, BeginPromised DEF Good, IInv

LEMMA StepRecord ==
  ASSUME IInv, NEW c \in {"exit", "signal"}, Record(c)
  PROVE  Good
<1> DEFINE j == Begin(Job, c)
<1>1. /\ driver = "record" /\ driver' = "gather" /\ Becomes(Finish(j, EOF))
      /\ UNCHANGED <<truncated, adopted, child, stream, killers, acked, shutdown, status>>
  BY DEF Record
<1>2. c \in Causes /\ c # "cancelled"
  BY DEF Causes
<1>3. /\ j \in JobRecord /\ j.events = events /\ j.hook = hook /\ j.reaped = reaped
      /\ cause # "none" => j.state = state /\ j.cause = cause
      /\ cause = "none" => j.state = "TERMINATING" /\ j.cause = c
  BY <1>2, JobFields, BeginFields DEF IInv
<1> HIDE DEF j
<1>4. /\ cause' = j.cause /\ reaped' = reaped /\ Finish(j, EOF) \in JobRecord
      /\ ~Complete(j, EOF) => state' = j.state /\ hook' = hook
      /\ Complete(j, EOF) => /\ state' = "FINISHED" /\ hook' = "running" /\ reaped
                             /\ j.state = "TERMINATING" /\ \A s \in Streams : stream[s].eof
  BY <1>1, <1>3, Finishes DEF Complete, EOF
<1>5. j.cause # "none" /\ j.cause \in Causes
  BY <1>2, <1>3 DEF IInv, TypeOK, Causes
<1>6. TypeOK'
  BY <1>1, <1>4, BecomesTyped DEF IInv, TypeOK, States, status
<1>7. Stages'
  BY <1>1, <1>3, <1>4, <1>5 DEF IInv, Stages, TypeOK, Unread
<1>8. EndingHonest'
  BY <1>1, <1>3, <1>4 DEF IInv, EndingHonest, CancelHonoured, FinishedMeansDead, StatusIsFinal, Stages, TypeOK, status
<1>9. Promised
  BY <1>1, <1>3, <1>5, FinishPromised
<1> QED
  BY <1>6, <1>7, <1>8, <1>9 DEF Good, IInv

\* Finishing the job as it is.
LEMMA FinishAsIs ==
  ASSUME IInv, NEW eof, Becomes(Finish(Job, eof))
  PROVE  /\ cause' = cause /\ reaped' = reaped /\ Promised /\ Finish(Job, eof) \in JobRecord
         /\ \/ UNCHANGED <<state, hook>>
            \/ /\ state = "TERMINATING" /\ state' = "FINISHED" /\ hook' = "running" /\ reaped
               /\ \A s \in Streams : eof[s]
<1>1. /\ Job \in JobRecord /\ Job.state = state /\ Job.cause = cause /\ Job.events = events
      /\ Job.hook = hook /\ Job.reaped = reaped
  BY JobFields DEF IInv
<1>2. Promised
  BY <1>1, FinishPromised
<1>3. /\ cause' = cause /\ reaped' = reaped /\ Finish(Job, eof) \in JobRecord
      /\ Complete(Job, eof) => state' = "FINISHED" /\ hook' = "running"
      /\ ~Complete(Job, eof) => state' = state /\ hook' = hook
  BY <1>1, Finishes
<1> QED
  BY <1>1, <1>2, <1>3 DEF Complete

LEMMA StepGather ==
  ASSUME IInv, Gather
  PROVE  Good
<1>1. /\ driver = "gather" /\ driver' = "done" /\ Becomes(Finish(Job, EOF))
      /\ \A s \in Streams : stream[s].pc = "done"
      /\ UNCHANGED <<truncated, adopted, child, stream, killers, acked, shutdown, status>>
  BY DEF Gather
<1>2. TypeOK'
  BY <1>1, FinishAsIs, BecomesTyped DEF IInv, TypeOK, States, status
<1>3. Stages'
  BY <1>1, FinishAsIs DEF IInv, Stages, Unread, EOF
<1>4. EndingHonest'
  BY <1>1, FinishAsIs DEF IInv, EndingHonest, CancelHonoured, FinishedMeansDead, StatusIsFinal, Stages, status
<1> QED
  BY <1>1, <1>2, <1>3, <1>4, FinishAsIs DEF Good, IInv

LEMMA StepCloseStream ==
  ASSUME IInv, NEW s \in Streams, CloseStream(s)
  PROVE  Good
<1>1. /\ stream[s].pc = "closing" /\ Becomes(Finish(Job, [EOF EXCEPT ![s] = TRUE]))
      /\ stream' = [stream EXCEPT ![s].pc = "done", ![s].eof = TRUE]
      /\ UNCHANGED <<truncated, adopted, child, driver, killers, acked, shutdown, status>>
  BY DEF CloseStream
<1>2. PICK q : q = [stream[s] EXCEPT !.pc = "done", !.eof = TRUE]
  OBVIOUS
<1>3. stream \in [Streams -> StreamRecord]
  BY StreamsTyped DEF IInv
<1>4. q \in StreamRecord /\ q.pc = "done" /\ q.eof
  BY <1>2, <1>3 DEF StreamRecord
<1>5. stream' = [stream EXCEPT ![s] = q]
  BY <1>1, <1>2, <1>3
<1>6. /\ stream' \in [Streams -> StreamRecord] /\ stream'[s].pc = "done" /\ stream'[s].eof
      /\ \A t \in Streams \ {s} : stream'[t] = stream[t]
  BY <1>3, <1>4, <1>5
<1>7. \A t \in Streams : [EOF EXCEPT ![s] = TRUE][t] => stream'[t].eof
  BY <1>6 DEF EOF
<1>8. TypeOK'
  BY <1>1, <1>6, FinishAsIs, BecomesTyped DEF IInv, TypeOK, States, StreamRecord, status
<1>9. driver \notin Unread /\ driver # "done" /\ s \notin killers
  BY <1>1 DEF IInv, Stages
<1>10. Stages'
  <2>1. PICK eof : eof = [EOF EXCEPT ![s] = TRUE]
    OBVIOUS
  <2>2. Becomes(Finish(Job, eof)) /\ \A t \in Streams : eof[t] => stream'[t].eof
    BY <1>1, <1>7, <2>1
  <2>3. /\ cause' = cause /\ reaped' = reaped
        /\ \/ UNCHANGED <<state, hook>>
           \/ /\ state = "TERMINATING" /\ state' = "FINISHED" /\ hook' = "running" /\ reaped
              /\ \A t \in Streams : eof[t]
    BY <2>2, FinishAsIs
  <2>4. /\ \A t \in Streams : stream'[t].eof => \/ stream'[t].pc = "done"
                                                \/ stream'[t].pc = "none" /\ driver = "done"
        /\ \A t \in Streams : t \in killers => stream'[t].pc \in {"killing", "dying"}
    BY <1>6, <1>9 DEF IInv, Stages
  <2>5. state' = "FINISHED" => reaped' /\ \A t \in Streams : stream'[t].eof
    BY <1>6, <2>2, <2>3 DEF IInv, Stages
  <2>6. state' \in {"STARTING", "RUNNING"} <=> cause' = "none"
    BY <2>3 DEF IInv, Stages
  <2> QED
    BY <1>1, <1>9, <2>3, <2>4, <2>5, <2>6 DEF IInv, Stages, Unread
<1>11. EndingHonest'
  BY <1>1, FinishAsIs DEF IInv, EndingHonest, CancelHonoured, FinishedMeansDead, StatusIsFinal, Stages, status
<1> QED
  BY <1>1, <1>8, <1>10, <1>11, FinishAsIs DEF Good, IInv

\* A stream's step that names no cause and ends no stream.
LEMMA StreamStep ==
  ASSUME IInv, NEW s \in Streams, stream[s].pc \in {"read", "overflow", "killing", "dying"},
         stream'[s].pc \in {"read", "overflow", "killing", "dying", "closing"}, stream'[s].eof = stream[s].eof,
         \A t \in Streams \ {s} : stream'[t] = stream[t],
         \A t \in Streams \ {s} : t \in killers' => t \in killers,
         s \in killers' => stream'[s].pc \in {"killing", "dying"},
         UNCHANGED <<reaped, driver, hook, recorded, client>>,
         state' # "FINISHED", state' \in {"STARTING", "RUNNING"} <=> cause' = "none",
         acked' => cause' = "cancelled", child' = child \/ child = "alive"
  PROVE  Stages' /\ EndingHonest'
<1>1. driver \notin Unread /\ driver # "done" /\ ~stream[s].eof /\ state # "FINISHED"
  BY DEF IInv, Stages, TypeOK
<1>2. /\ \A t \in Streams : stream'[t].eof => \/ stream'[t].pc = "done"
                                              \/ stream'[t].pc = "none" /\ driver = "done"
      /\ \A t \in Streams : t \in killers' => stream'[t].pc \in {"killing", "dying"}
  BY <1>1 DEF IInv, Stages
<1>3. Stages'
  BY <1>1, <1>2 DEF IInv, Stages, Unread
<1>4. EndingHonest'
  BY <1>1 DEF IInv, EndingHonest, CancelHonoured, FinishedMeansDead, StatusIsFinal, status
<1> QED
  BY <1>3, <1>4

\* Output while the job is not finished.
LEMMA OutputPromised ==
  ASSUME IInv, NEW s \in Streams, stream[s].pc \in {"read", "overflow", "killing", "dying"},
         UNCHANGED <<state, cause>>, events' \in {events, Append(events, "output")}
  PROVE  Promised
<1>1. state # "FINISHED"
  BY DEF IInv, Stages, TypeOK
<1> QED
  BY <1>1 DEF Promised, Promise!Next, Promise!Output

LEMMA NotifyTyped ==
  ASSUME TypeOK, Notify
  PROVE  watch' \in [Watchers -> WatchRecord]
  BY WatchesTyped DEF Notify

LEMMA OutputTyped == TypeOK => Append(events, "output") \in Seq({"output", "exit"})
  BY DEF TypeOK

LEMMA StepReadChunk ==
  ASSUME IInv, NEW s \in Streams, ReadChunk(s)
  PROVE  Good
<1>1. /\ stream[s].pc = "read" /\ stream[s].read < MaxChunks /\ Notify
      /\ UNCHANGED <<state, cause, released, reaped, adopted, child, driver, killers, acked, shutdown, hook, status>>
      /\ events' \in {events, Append(events, "output")} /\ truncated' \in {truncated, TRUE}
  BY DEF ReadChunk
<1>3. stream \in [Streams -> StreamRecord] /\ stream[s] \in StreamRecord
  BY StreamsTyped DEF IInv
<1>4. stream[s].read + 1 \in 0..MaxChunks
  BY <1>1, <1>3, JobAssumption DEF StreamRecord, JobAssumption
<1>5. /\ stream' \in [Streams -> StreamRecord]
      /\ stream'[s].pc \in {"read", "overflow"} /\ stream'[s].eof = stream[s].eof
      /\ \A t \in Streams \ {s} : stream'[t] = stream[t]
  <2>1. CASE OutputEvents < OutputLimit
    <3>1. stream' = [stream EXCEPT ![s].read = @ + 1]
      BY <2>1 DEF ReadChunk
    <3> QED
      BY <1>1, <1>3, <1>4, <3>1 DEF StreamRecord
  <2>2. CASE ~(OutputEvents < OutputLimit)
    <3>1. stream' = [stream EXCEPT ![s].read = @ + 1, ![s].pc = "overflow"]
      BY <2>2 DEF ReadChunk
    <3> QED
      BY <1>1, <1>3, <1>4, <3>1 DEF StreamRecord
  <2> QED
    BY <2>1, <2>2
<1>7. watch' \in [Watchers -> WatchRecord] /\ events' \in Seq({"output", "exit"})
  BY <1>1, NotifyTyped, OutputTyped DEF IInv, TypeOK
<1>7a. truncated' \in BOOLEAN
  BY <1>1 DEF IInv, TypeOK
<1>8. TypeOK'
  BY <1>1, <1>5, <1>7, <1>7a DEF IInv, TypeOK, StreamRecord, WatchRecord, status
<1>9. s \notin killers
  BY <1>1 DEF IInv, Stages
<1>9a. /\ UNCHANGED <<reaped, driver, hook, recorded, client>> /\ child' = child
       /\ \A t \in Streams \ {s} : t \in killers' => t \in killers
       /\ s \notin killers' /\ state' # "FINISHED" /\ (acked' => cause' = "cancelled")
       /\ state' \in {"STARTING", "RUNNING"} <=> cause' = "none"
  BY <1>1, <1>9 DEF status, IInv, Stages, EndingHonest, CancelHonoured
<1>10. Stages' /\ EndingHonest'
  BY <1>1, <1>5, <1>9a, StreamStep
<1> QED
  BY <1>1, <1>8, <1>10, OutputPromised DEF Good, IInv

LEMMA StepOverflow ==
  ASSUME IInv, NEW s \in Streams, Overflow(s)
  PROVE  Good
<1>1. /\ stream[s].pc = "overflow" /\ Becomes(Begin(Job, "output-limit"))
      /\ UNCHANGED <<truncated, adopted, child, driver, acked, shutdown, recorded, client>>
      /\ cause = "none" => killers' = killers \union {s} /\ stream' = [stream EXCEPT ![s].pc = "killing"]
      /\ cause # "none" => killers' = killers /\ stream' = [stream EXCEPT ![s].pc = "read"]
  BY DEF Overflow, Wins, Job, status
<1>2. "output-limit" \in Causes /\ "killing" \in Pcs /\ "read" \in Pcs
  BY DEF Causes, Pcs
<1>3. /\ UNCHANGED <<events, hook, reaped>> /\ Begin(Job, "output-limit") \in JobRecord
      /\ cause # "none" => UNCHANGED <<state, cause>>
      /\ cause = "none" => state' = "TERMINATING" /\ cause' = "output-limit"
  BY <1>1, <1>2, Begins DEF IInv
<1>4. /\ stream' \in [Streams -> StreamRecord] /\ stream'[s].eof = stream[s].eof
      /\ \A t \in Streams \ {s} : stream'[t] = stream[t]
      /\ cause = "none" => stream'[s].pc = "killing"
      /\ cause # "none" => stream'[s].pc = "read"
  <2>1. CASE cause = "none"
    BY <1>1, <1>2, <2>1, StreamMoved DEF IInv
  <2>2. CASE cause # "none"
    BY <1>1, <1>2, <2>2, StreamMoved DEF IInv
  <2> QED
    BY <2>1, <2>2
<1>5. killers' \subseteq Streams \union {"cancel"}
  BY <1>1 DEF IInv, TypeOK
<1>6. TypeOK'
  BY <1>1, <1>3, <1>4, <1>5, BecomesTyped DEF IInv, TypeOK, States, StreamRecord
<1>7. /\ s \notin killers /\ state # "FINISHED"
  BY <1>1 DEF IInv, Stages
<1>8. /\ \A t \in Streams \ {s} : t \in killers' => t \in killers
      /\ s \in killers' => stream'[s].pc \in {"killing", "dying"}
      /\ stream'[s].pc \in {"read", "overflow", "killing", "dying", "closing"}
  BY <1>1, <1>4, <1>7
<1>9. /\ state' # "FINISHED" /\ (acked' => cause' = "cancelled")
      /\ state' \in {"STARTING", "RUNNING"} <=> cause' = "none"
  BY <1>1, <1>3, <1>7 DEF IInv, Stages, EndingHonest, CancelHonoured
<1>10. Stages' /\ EndingHonest'
  BY <1>1, <1>3, <1>4, <1>8, <1>9, StreamStep
<1> QED
  BY <1>1, <1>2, <1>3, <1>6, <1>10, BeginPromised DEF Good, IInv

LEMMA StepReadFails ==
  ASSUME IInv, NEW s \in Streams, ReadFails(s)
  PROVE  Good
<1>1. /\ stream[s].pc = "read" /\ Becomes(Begin(Job, "spawn-failed"))
      /\ UNCHANGED <<truncated, adopted, child, driver, acked, shutdown, recorded, client>>
      /\ cause = "none" => killers' = killers \union {s} /\ stream' = [stream EXCEPT ![s].pc = "dying"]
      /\ cause # "none" => killers' = killers /\ stream' = [stream EXCEPT ![s].pc = "closing"]
  BY DEF ReadFails, Wins, Job, status
<1>2. "spawn-failed" \in Causes /\ "dying" \in Pcs /\ "closing" \in Pcs
  BY DEF Causes, Pcs
<1>3. /\ UNCHANGED <<events, hook, reaped>> /\ Begin(Job, "spawn-failed") \in JobRecord
      /\ cause # "none" => UNCHANGED <<state, cause>>
      /\ cause = "none" => state' = "TERMINATING" /\ cause' = "spawn-failed"
  BY <1>1, <1>2, Begins DEF IInv
<1>4. /\ stream' \in [Streams -> StreamRecord] /\ stream'[s].eof = stream[s].eof
      /\ \A t \in Streams \ {s} : stream'[t] = stream[t]
      /\ cause = "none" => stream'[s].pc = "dying"
      /\ cause # "none" => stream'[s].pc = "closing"
  <2>1. CASE cause = "none"
    BY <1>1, <1>2, <2>1, StreamMoved DEF IInv
  <2>2. CASE cause # "none"
    BY <1>1, <1>2, <2>2, StreamMoved DEF IInv
  <2> QED
    BY <2>1, <2>2
<1>5. killers' \subseteq Streams \union {"cancel"}
  BY <1>1 DEF IInv, TypeOK
<1>6. TypeOK'
  BY <1>1, <1>3, <1>4, <1>5, BecomesTyped DEF IInv, TypeOK, States, StreamRecord
<1>7. /\ s \notin killers /\ state # "FINISHED"
  BY <1>1 DEF IInv, Stages
<1>8. /\ \A t \in Streams \ {s} : t \in killers' => t \in killers
      /\ s \in killers' => stream'[s].pc \in {"killing", "dying"}
      /\ stream'[s].pc \in {"read", "overflow", "killing", "dying", "closing"}
  BY <1>1, <1>4, <1>7
<1>9. /\ state' # "FINISHED" /\ (acked' => cause' = "cancelled")
      /\ state' \in {"STARTING", "RUNNING"} <=> cause' = "none"
  BY <1>1, <1>3, <1>7 DEF IInv, Stages, EndingHonest, CancelHonoured
<1>10. Stages' /\ EndingHonest'
  BY <1>1, <1>3, <1>4, <1>8, <1>9, StreamStep
<1> QED
  BY <1>1, <1>2, <1>3, <1>6, <1>10, BeginPromised DEF Good, IInv

LEMMA StepReadEnd ==
  ASSUME IInv, NEW s \in Streams, NEW tail \in BOOLEAN, ReadEnd(s, tail)
  PROVE  Good
<1>1. /\ stream[s].pc = "read" /\ Notify /\ stream' = [stream EXCEPT ![s].pc = "closing"]
      /\ UNCHANGED <<state, cause, released, truncated, reaped, adopted, child, driver, killers,
                     acked, shutdown, hook, recorded, client>>
      /\ events' \in {events, Append(events, "output")}
  BY DEF ReadEnd, status
<1>2. "closing" \in Pcs
  BY DEF Pcs
<1>3. /\ stream' \in [Streams -> StreamRecord] /\ stream'[s].eof = stream[s].eof /\ stream'[s].pc = "closing"
      /\ \A t \in Streams \ {s} : stream'[t] = stream[t]
  BY <1>1, <1>2, StreamMoved DEF IInv
<1>4. watch' \in [Watchers -> WatchRecord] /\ events' \in Seq({"output", "exit"})
  BY <1>1, NotifyTyped, OutputTyped DEF IInv, TypeOK
<1>5. TypeOK'
  BY <1>1, <1>3, <1>4 DEF IInv, TypeOK, StreamRecord, WatchRecord
<1>6. /\ \A t \in Streams \ {s} : t \in killers' => t \in killers
      /\ s \notin killers' /\ state' # "FINISHED" /\ (acked' => cause' = "cancelled")
      /\ state' \in {"STARTING", "RUNNING"} <=> cause' = "none"
  BY <1>1 DEF IInv, Stages, EndingHonest, CancelHonoured
<1>7. Stages' /\ EndingHonest'
  BY <1>1, <1>3, <1>6, StreamStep
<1> QED
  BY <1>1, <1>5, <1>7, OutputPromised DEF Good, IInv

LEMMA StepStreamKills ==
  ASSUME IInv, NEW s \in Streams, StreamKills(s)
  PROVE  Good
<1>1. PICK pc : pc = IF stream[s].pc = "killing" THEN "read" ELSE "closing"
  OBVIOUS
<1>2. /\ s \in killers /\ killers' = killers \ {s}
      /\ child' = IF child = "alive" THEN "dead" ELSE child
      /\ UNCHANGED <<job, driver, acked, shutdown, hook, watch, recorded, client>>
  BY DEF StreamKills, Kill, status
<1>3. pc \in {"read", "closing"} /\ pc \in Pcs
  BY <1>1 DEF Pcs
<1>4. stream' = [stream EXCEPT ![s].pc = pc]
  BY <1>1 DEF StreamKills
<1>5. /\ stream' \in [Streams -> StreamRecord] /\ stream'[s].eof = stream[s].eof /\ stream'[s].pc = pc
      /\ \A t \in Streams \ {s} : stream'[t] = stream[t]
  BY <1>3, <1>4, StreamMoved DEF IInv
<1>6. TypeOK'
  BY <1>2, <1>5 DEF IInv, TypeOK, StreamRecord, job
<1>7. /\ stream[s].pc \in {"killing", "dying"}
  BY <1>2 DEF IInv, Stages
<1>8. /\ \A t \in Streams \ {s} : t \in killers' => t \in killers
      /\ s \notin killers' /\ state' # "FINISHED" /\ (acked' => cause' = "cancelled")
      /\ state' \in {"STARTING", "RUNNING"} <=> cause' = "none"
  BY <1>2, <1>7 DEF IInv, Stages, EndingHonest, CancelHonoured, job
<1>9. /\ stream'[s].pc \in {"read", "overflow", "killing", "dying", "closing"}
      /\ UNCHANGED <<reaped, driver, hook, recorded, client>> /\ (child' = child \/ child = "alive")
  BY <1>2, <1>3, <1>5 DEF job
<1>10. Stages' /\ EndingHonest'
  BY <1>5, <1>7, <1>8, <1>9, StreamStep
<1> QED
  BY <1>2, <1>6, <1>10, Calm DEF Good, IInv, job

LEMMA StepCancelLessonRun ==
  ASSUME IInv, CancelLessonRun
  PROVE  Good
<1>1. /\ Cancel /\ client' = [client EXCEPT !.pc = "ask"]
      /\ UNCHANGED <<truncated, adopted, child, driver, stream, shutdown, recorded>>
  BY DEF CancelLessonRun
<1>2. client' \in [pc : {"idle", "ask", "await"}, told : {"none", "yes", "no"}] /\ client'.told = client.told
  BY <1>1 DEF IInv, TypeOK
<1>3. CASE Over
  <2>1. UNCHANGED <<state, cause, released, events, hook, reaped, watch, acked, killers>>
    BY <1>1, <1>3 DEF Cancel
  <2>2. TypeOK'
    BY <1>1, <1>2, <2>1 DEF IInv, TypeOK
  <2>3. Stages'
    BY <1>1, <2>1 DEF IInv, Stages, Unread
  <2>4. EndingHonest'
    BY <1>1, <1>2, <2>1 DEF IInv, EndingHonest, CancelHonoured, FinishedMeansDead, StatusIsFinal
  <2> QED
    BY <2>1, <2>2, <2>3, <2>4, Calm DEF Good, IInv
<1>4. CASE ~Over
  <2>1. /\ Becomes(Begin(Job, "cancelled")) /\ "cancelled" \in Causes
        /\ acked' = (acked \/ cause = "none") /\ killers' \in {killers, killers \union {"cancel"}}
    BY <1>1, <1>4 DEF Cancel, Wins, Job, Causes
  <2>2. /\ UNCHANGED <<events, hook, reaped>> /\ Begin(Job, "cancelled") \in JobRecord
        /\ cause # "none" => UNCHANGED <<state, cause>>
        /\ cause = "none" => state' = "TERMINATING" /\ cause' = "cancelled"
    BY <2>1, Begins DEF IInv
  <2>3. acked' \in BOOLEAN /\ killers' \subseteq Streams \union {"cancel"}
    BY <2>1 DEF IInv, TypeOK
  <2>4. TypeOK'
    BY <1>1, <1>2, <2>1, <2>2, <2>3, BecomesTyped DEF IInv, TypeOK, States
  <2>5. \A s \in Streams : s \in killers' => s \in killers
    BY <2>1, JobAssumption DEF JobAssumption
  <2>6. Stages'
    BY <1>1, <2>2, <2>5 DEF IInv, Stages, Unread, TypeOK
  <2>7. state # "FINISHED" /\ state' # "FINISHED"
    BY <1>4, <2>2 DEF Over
  <2>8. EndingHonest'
    BY <1>1, <1>2, <2>1, <2>2, <2>7 DEF IInv, EndingHonest, CancelHonoured, FinishedMeansDead, StatusIsFinal
  <2> QED
    BY <2>1, <2>4, <2>6, <2>8, BeginPromised DEF Good, IInv
<1> QED
  BY <1>3, <1>4

LEMMA StepShutdown ==
  ASSUME IInv, Shutdown
  PROVE  Good
<1>1. UNCHANGED <<truncated, adopted, child, driver, stream, killers, acked, recorded, client>>
  BY DEF Shutdown, control, status
<1>2. CASE state = "FINISHED"
  <2>1. shutdown' = "hooks" /\ UNCHANGED <<state, cause, released, events, hook, reaped, watch>>
    BY <1>2 DEF Shutdown
  <2>2. TypeOK'
    BY <1>1, <2>1 DEF IInv, TypeOK
  <2>3. Stages'
    BY <1>1, <2>1 DEF IInv, Stages, Unread
  <2>4. EndingHonest'
    BY <1>1, <2>1 DEF IInv, EndingHonest, CancelHonoured, FinishedMeansDead, StatusIsFinal
  <2> QED
    BY <2>1, <2>2, <2>3, <2>4, Calm DEF Good, IInv
<1>3. CASE state # "FINISHED"
  <2>1. shutdown' \in {"kill", "join"} /\ Becomes(Begin(Job, "shutdown")) /\ "shutdown" \in Causes
    BY <1>3 DEF Shutdown, Causes
  <2>2. /\ UNCHANGED <<events, hook, reaped>> /\ Begin(Job, "shutdown") \in JobRecord
        /\ cause # "none" => UNCHANGED <<state, cause>>
        /\ cause = "none" => state' = "TERMINATING" /\ cause' = "shutdown"
    BY <2>1, Begins DEF IInv
  <2>3. TypeOK'
    BY <1>1, <2>1, <2>2, BecomesTyped DEF IInv, TypeOK, States
  <2>4. Stages'
    BY <1>1, <2>2 DEF IInv, Stages, Unread, TypeOK
  <2>5. state' # "FINISHED"
    BY <1>3, <2>2
  <2>6. EndingHonest'
    BY <1>1, <2>2, <2>5 DEF IInv, EndingHonest, CancelHonoured, FinishedMeansDead, StatusIsFinal
  <2> QED
    BY <2>1, <2>3, <2>4, <2>6, BeginPromised DEF Good, IInv
<1> QED
  BY <1>2, <1>3

LEMMA StepRests ==
  ASSUME IInv, UNCHANGED vars
  PROVE  Good
<1>1. TypeOK'
  BY DEF IInv, TypeOK, vars, job, control, status
<1>2. Stages'
  BY DEF IInv, Stages, vars, job, control, status, Unread
<1>3. EndingHonest'
  BY DEF IInv, EndingHonest, CancelHonoured, FinishedMeansDead, StatusIsFinal, vars, job, control, status
<1> QED
  BY <1>1, <1>2, <1>3, Calm DEF Good, IInv, vars, job

LEMMA EveryStep == IInv /\ [Next]_vars => Good
<1> SUFFICES ASSUME IInv, [Next]_vars PROVE Good
  OBVIOUS
<1>1. CASE Driver \/ Interrupt("shutdown")
  BY <1>1, StepDrive, StepSpawn, StepSpawnFails, StepAdopt, StepDriverKills, StepStartReaders,
     StepInterrupt, StepReap, StepRecord, StepGather DEF Driver
<1>2. CASE \E s \in Streams : Reader(s)
  BY <1>2, StepReadChunk, StepOverflow, StepReadFails, StepCloseStream, StepStreamKills, StepReadEnd DEF Reader
<1>3. CASE CancelLessonRun \/ CancelKills \/ GetLessonRun \/ AnswerStatus
  BY <1>3, StepCancelLessonRun, StepCancelKills, StepGetLessonRun, StepAnswerStatus
<1>4. CASE Shutdown \/ ShutdownKills \/ ShutdownReturns
  BY <1>4, StepShutdown, StepShutdownKills, StepShutdownReturns
<1>5. CASE ChildExits \/ Collect \/ \E ok \in BOOLEAN : RunHook(ok)
  BY <1>5, StepChildExits, StepCollect, StepRunHook
<1>6. CASE \E w \in Watchers : Poll(w) \/ Register(w) \/ Keepalive(w)
  BY <1>6, StepPoll, StepRegister, StepKeepalive
<1>7. CASE UNCHANGED vars
  BY <1>7, StepRests
<1> QED
  BY <1>1, <1>2, <1>3, <1>4, <1>5, <1>6, <1>7 DEF Next

LEMMA Start == Init => IInv
<1> SUFFICES ASSUME Init PROVE IInv
  OBVIOUS
<1>1. stream \in [Streams -> StreamRecord] /\ watch \in [Watchers -> WatchRecord]
  BY JobAssumption DEF Init, StreamRecord, WatchRecord, JobAssumption
<1>2. /\ events \in Seq({"output", "exit"})
      /\ client \in [pc : {"idle", "ask", "await"}, told : {"none", "yes", "no"}]
  BY DEF Init
<1>2a. cause \in Causes \union {"none"} /\ killers \subseteq Streams \union {"cancel"}
  BY DEF Init
<1>2b. TypeOK
  BY <1>1, <1>2, <1>2a DEF Init, TypeOK, StreamRecord, WatchRecord
<1>3. Stages /\ EndingHonest
  BY DEF Init, Stages, Unread, EndingHonest, CancelHonoured, FinishedMeansDead, StatusIsFinal
<1> QED
  BY <1>2b, <1>3 DEF IInv
-----------------------------------------------------------------------------
(* Claims and kills.  A process there is is adopted or about to be; one whose *)
(* exit is being recorded has been collected.                                 *)

Placed ==
    /\ ~adopted => child = "none" \/ driver = "adopt"
    /\ driver \in {"record", "gather"} => child = "collected"

Chased == KillFollowsClaim /\ Placed

\* A step that touches neither the cause, the process nor who is to kill it.
LEMMA Unclaimed ==
  ASSUME Chased, UNCHANGED <<cause, child, killers, driver, acked, adopted>>,
         shutdown' = "kill" <=> shutdown = "kill"
  PROVE  Chased'
  BY DEF Chased, KillFollowsClaim, KillUnderWay, Placed

\* A kill: no process is alive after it, a collected one stays collected.
LEMMA Killed ==
  ASSUME TypeOK, Chased, Kill, UNCHANGED <<cause, acked, adopted>>, killers' \subseteq killers,
         driver' = driver \/ (driver \in {"kill", "timeout"} /\ driver' \in {"read", "rewait"}),
         shutdown' = "kill" => shutdown = "kill"
  PROVE  Chased'
<1>1. child' # "alive" /\ (child = "collected" => child' = "collected") /\ (child = "none" => child' = "none")
  BY DEF Kill, TypeOK
<1>2. KillUnderWay' => KillUnderWay
  BY DEF KillUnderWay
<1> QED
  BY <1>1, <1>2 DEF Chased, KillFollowsClaim, Placed

\* A claim for a cause but the natural ones, by one who sees to the kill if
\* there is a process to kill: unless it is still to be adopted.
LEMMA Claimed ==
  ASSUME IInv, Chased, NEW c \in Causes \ {"exit", "signal"}, Becomes(Begin(Job, c)),
         UNCHANGED <<child, adopted>>, killers \subseteq killers',
         driver' = driver \/ (driver = "wait" /\ driver' \in {"timeout", "rewait"}),
         shutdown' = shutdown \/ shutdown = "no",
         cause = "none" /\ adopted => KillUnderWay',
         acked' => acked \/ (cause = "none" /\ (adopted => "cancel" \in killers'))
  PROVE  Chased'
<1>1. cause # "none" => cause' = cause
  BY Begins DEF IInv
<1>2. cause = "none" => cause' = c /\ c \notin {"none", "exit", "signal"}
  BY Begins DEF IInv, Causes
<1>3. cause' # "none" /\ child' = "alive" => KillUnderWay' \/ driver' = "adopt"
  <2>1. CASE cause = "none"
    BY <2>1 DEF Chased, Placed
  <2>2. CASE cause # "none"
    BY <2>2 DEF Chased, KillFollowsClaim, KillUnderWay
  <2> QED
    BY <2>1, <2>2
<1>4. acked' /\ child' = "alive" => "cancel" \in killers' \/ driver' \in {"adopt", "kill"}
  BY DEF Chased, KillFollowsClaim, Placed
<1>5. cause' # "none" /\ (cause' \in {"exit", "signal"} => child' = "collected")
  BY <1>1, <1>2 DEF Chased, KillFollowsClaim
<1>6. Placed'
  BY DEF Chased, Placed
<1> QED
  BY <1>3, <1>4, <1>5, <1>6 DEF Chased, KillFollowsClaim

\* A job that is finished as it is changes neither its cause nor its process.
LEMMA FinishedAsIs ==
  ASSUME IInv, Chased, NEW eof, Becomes(Finish(Job, eof)),
         UNCHANGED <<child, killers, acked, adopted, shutdown>>,
         driver' = driver \/ (driver = "gather" /\ driver' = "done")
  PROVE  Chased'
<1>1. cause' = cause
  BY FinishAsIs
<1>2. driver = "gather" => child = "collected"
  BY DEF Chased, Placed
<1> QED
  BY <1>1, <1>2 DEF Chased, KillFollowsClaim, KillUnderWay, Placed

\* The driver's own sections.
LEMMA ChasedDriver ==
  ASSUME IInv, Chased, Driver \/ Interrupt("shutdown")
  PROVE  Chased'
<1>1. CASE Drive
  <2>1. child' = "none" /\ driver' \in {"spawn", "done"} /\ UNCHANGED <<adopted, killers, acked, shutdown>>
    BY <1>1 DEF Drive, IInv, Stages
  <2>2. cause' = cause
    <3>1. CASE state = "STARTING"
      BY <1>1, <3>1 DEF Drive
    <3>2. CASE state # "STARTING"
      BY <1>1, <3>2, JobFields, ReapedRecord, Finishes DEF Drive, IInv
    <3> QED
      BY <3>1, <3>2
  <2>3. driver = "drive" /\ child = "none"
    BY <1>1 DEF Drive, IInv, Stages
  <2> QED
    BY <2>1, <2>2, <2>3 DEF Chased, KillFollowsClaim, KillUnderWay, Placed
<1>2. CASE Spawn
  BY <1>2 DEF Spawn, job, IInv, Stages, Chased, KillFollowsClaim, KillUnderWay, Placed
<1>3. CASE SpawnFails
  <2> DEFINE b == Begin(Job, "spawn-failed")
             j == [b EXCEPT !.reaped = TRUE]
  <2>1. Becomes(Finish(j, AllEOF)) /\ driver' = "done" /\ UNCHANGED <<child, adopted, killers, acked, shutdown>>
    BY <1>3 DEF SpawnFails
  <2>2. child = "none" /\ driver = "spawn"
    BY <1>3 DEF SpawnFails, IInv, Stages
  <2>3. "spawn-failed" \in Causes
    BY DEF Causes
  <2>4. /\ b \in JobRecord
        /\ cause # "none" => b.cause = cause
        /\ cause = "none" => b.cause = "spawn-failed"
    BY <2>3, JobFields, BeginFields DEF IInv
  <2> HIDE DEF b
  <2>5. j \in JobRecord /\ j.cause = b.cause
    BY <2>4, ReapedRecord
  <2> HIDE DEF j
  <2>6. cause' = j.cause
    BY <2>1, <2>5, Finishes
  <2>7. cause' # "none" /\ cause' \notin {"exit", "signal"}
    BY <2>2, <2>4, <2>5, <2>6 DEF Chased, KillFollowsClaim
  <2> QED
    BY <2>1, <2>2, <2>7 DEF Chased, KillFollowsClaim, KillUnderWay, Placed
<1>4. CASE Adopt
  <2>1. state = "STARTING" <=> cause = "none"
    BY <1>4 DEF Adopt, IInv, Stages
  <2>2. /\ driver = "adopt" /\ driver' = IF cause # "none" THEN "kill" ELSE "read"
        /\ adopted' /\ UNCHANGED <<cause, child, killers, acked, shutdown>>
    BY <1>4, <2>1 DEF Adopt, KillNow
  <2>3. acked => cause # "none"
    BY DEF IInv, EndingHonest, CancelHonoured
  <2> QED
    BY <2>2, <2>3 DEF Chased, KillFollowsClaim, KillUnderWay, Placed
<1>5. CASE DriverKills
  BY <1>5, Killed DEF DriverKills, IInv, job
<1>6. CASE StartReaders
  BY <1>6 DEF StartReaders, job, Chased, KillFollowsClaim, KillUnderWay, Placed
<1>7. ASSUME NEW c \in {"timeout", "shutdown"}, Interrupt(c)
      PROVE  Chased'
  <2>1. /\ driver = "wait" /\ Becomes(Begin(Job, c)) /\ driver' \in {"timeout", "rewait"}
        /\ cause = "none" => driver' = "timeout"
        /\ UNCHANGED <<adopted, child, killers, acked, shutdown>>
    BY <1>7 DEF Interrupt, Wins, Job
  <2>2. c \in Causes \ {"exit", "signal"}
    BY DEF Causes
  <2> QED
    BY <2>1, <2>2, Claimed DEF KillUnderWay
<1>8. CASE Reap
  BY <1>8 DEF Reap, Chased, KillFollowsClaim, KillUnderWay, Placed
<1>9. ASSUME NEW c \in {"exit", "signal"}, Record(c)
      PROVE  Chased'
  <2> DEFINE j == Begin(Job, c)
  <2>1. driver = "record" /\ driver' = "gather" /\ Becomes(Finish(j, EOF)) /\ UNCHANGED <<adopted, child, killers, acked, shutdown>>
    BY <1>9 DEF Record
  <2>2. j \in JobRecord /\ (cause # "none" => j.cause = cause) /\ (cause = "none" => j.cause = c)
    BY JobFields, BeginFields DEF IInv, Causes
  <2> HIDE DEF j
  <2>3. cause' # "none" /\ child' = "collected"
    BY <2>1, <2>2, Finishes DEF Chased, Placed
  <2> QED
    BY <2>1, <2>3 DEF Chased, KillFollowsClaim, KillUnderWay, Placed
<1>10. CASE Gather
  BY <1>10, FinishedAsIs DEF Gather
<1> QED
  BY <1>1, <1>2, <1>3, <1>4, <1>5, <1>6, <1>7, <1>8, <1>9, <1>10 DEF Driver

\* The readers' sections and kills.
LEMMA ChasedReader ==
  ASSUME IInv, Chased, NEW s \in Streams, Reader(s)
  PROVE  Chased'
<1>1. CASE ReadChunk(s) \/ \E tail \in BOOLEAN : ReadEnd(s, tail)
  BY <1>1, Unclaimed DEF ReadChunk, ReadEnd
<1>2. CASE Overflow(s)
  <2>1. /\ Becomes(Begin(Job, "output-limit")) /\ UNCHANGED <<child, adopted, driver, acked, shutdown>>
        /\ killers' = IF cause = "none" THEN killers \union {s} ELSE killers
    BY <1>2 DEF Overflow, Wins, Job
  <2>2. "output-limit" \in Causes \ {"exit", "signal"}
    BY DEF Causes
  <2> QED
    BY <2>1, <2>2, Claimed DEF KillUnderWay
<1>3. CASE ReadFails(s)
  <2>1. /\ Becomes(Begin(Job, "spawn-failed")) /\ UNCHANGED <<child, adopted, driver, acked, shutdown>>
        /\ killers' = IF cause = "none" THEN killers \union {s} ELSE killers
    BY <1>3 DEF ReadFails, Wins, Job
  <2>2. "spawn-failed" \in Causes \ {"exit", "signal"}
    BY DEF Causes
  <2> QED
    BY <2>1, <2>2, Claimed DEF KillUnderWay
<1>4. CASE CloseStream(s)
  <2>1. PICK eof : eof = [EOF EXCEPT ![s] = TRUE]
    OBVIOUS
  <2>2. Becomes(Finish(Job, eof)) /\ UNCHANGED <<child, killers, acked, adopted, shutdown, driver>>
    BY <1>4, <2>1 DEF CloseStream
  <2> QED
    BY <2>2, FinishedAsIs
<1>5. CASE StreamKills(s)
  BY <1>5, Killed DEF StreamKills, IInv, job
<1> QED
  BY <1>1, <1>2, <1>3, <1>4, <1>5 DEF Reader

\* A cancel, its kill, and those of the shutdown.
LEMMA ChasedEnders ==
  ASSUME IInv, Chased, CancelLessonRun \/ CancelKills \/ Shutdown \/ ShutdownKills \/ ShutdownReturns
  PROVE  Chased'
<1>1. CASE CancelLessonRun
  <2>1. Cancel /\ UNCHANGED <<adopted, child, driver, shutdown>>
    BY <1>1 DEF CancelLessonRun
  <2>2. CASE Over
    BY <2>1, <2>2, Unclaimed DEF Cancel
  <2>3. CASE ~Over
    <3>1. /\ Becomes(Begin(Job, "cancelled")) /\ (acked' <=> acked \/ cause = "none")
          /\ killers' = IF cause = "none" /\ adopted THEN killers \union {"cancel"} ELSE killers
      BY <2>1, <2>3 DEF Cancel, Wins, Job
    <3>2. "cancelled" \in Causes \ {"exit", "signal"}
      BY DEF Causes
    <3> QED
      BY <2>1, <3>1, <3>2, Claimed DEF KillUnderWay
  <2> QED
    BY <2>2, <2>3
<1>2. CASE CancelKills
  BY <1>2, Killed DEF CancelKills, IInv, job
<1>3. CASE Shutdown
  <2>1. shutdown = "no" /\ UNCHANGED <<adopted, child, driver, killers, acked>>
    BY <1>3 DEF Shutdown, control
  <2>2. CASE state = "FINISHED"
    BY <1>3, <2>1, <2>2, Unclaimed DEF Shutdown
  <2>3. CASE state # "FINISHED"
    <3>1. Becomes(Begin(Job, "shutdown")) /\ (adopted => shutdown' = "kill")
      BY <1>3, <2>3 DEF Shutdown
    <3>2. "shutdown" \in Causes \ {"exit", "signal"}
      BY DEF Causes
    <3> QED
      BY <2>1, <3>1, <3>2, Claimed DEF KillUnderWay
  <2> QED
    BY <2>2, <2>3
<1>4. CASE ShutdownKills
  BY <1>4, Killed DEF ShutdownKills, IInv, job, control
<1>5. CASE ShutdownReturns
  BY <1>5, Unclaimed DEF ShutdownReturns, job, control
<1> QED
  BY <1>1, <1>2, <1>3, <1>4, <1>5

LEMMA ChasedKept == IInv /\ Chased /\ [Next]_vars => Chased'
<1> SUFFICES ASSUME IInv, Chased, [Next]_vars PROVE Chased'
  OBVIOUS
<1>1. CASE ChildExits \/ Collect
  BY <1>1 DEF ChildExits, Collect, job, control, Chased, KillFollowsClaim, KillUnderWay, Placed
<1>2. CASE \/ GetLessonRun \/ AnswerStatus \/ \E ok \in BOOLEAN : RunHook(ok)
           \/ \E w \in Watchers : Poll(w) \/ Register(w) \/ Keepalive(w)
  BY <1>2, Unclaimed DEF GetLessonRun, AnswerStatus, RunHook, Poll, Register, Keepalive, job, control
<1>3. CASE UNCHANGED vars
  BY <1>3, Unclaimed DEF vars, job, control
<1> QED
  BY <1>1, <1>2, <1>3, ChasedDriver, ChasedReader, ChasedEnders DEF Next
-----------------------------------------------------------------------------
(* The theorems. *)

LEMMA Invariance == Spec => []IInv
<1>1. IInv /\ [Next]_vars => IInv'
  BY EveryStep DEF Good
<1> QED
  BY <1>1, Start, PTL DEF Spec

\* Every variable of a job keeps its type (runner.py, RunnerJob and its tasks).
THEOREM JobTyped == Spec => []TypeOK
<1>1. IInv => TypeOK
  BY DEF IInv
<1> QED
  BY <1>1, Invariance, PTL

\* A cancel answered True ends the job as cancelled, a finished job leaves no
\* process behind, and what a client was told of its event stays so.
THEOREM EndsHonestly == Spec => []EndingHonest
<1>1. IInv => EndingHonest
  BY DEF IInv
<1> QED
  BY <1>1, Invariance, PTL

\* No kill is sent before its sender holds the cause, an ended job has no process
\* that nobody is to kill, and a natural cause is that of a child whose exit the
\* loop has collected (runner.py: cancel, _drive_job, _read_stream and shutdown
\* race to claim the job, and its claimant kills it).
THEOREM KillsFollow == Spec => []KillFollowsClaim
<1>1. Init => Chased
  BY DEF Init, Chased, KillFollowsClaim, KillUnderWay, Placed
<1>2. Chased => KillFollowsClaim
  BY DEF Chased
<1> QED
  BY <1>1, <1>2, ChasedKept, Invariance, PTL DEF Spec

\* The job as the code runs it implements what it promises those who watch it:
\* first cause wins, records in order, one terminal record and it is the last.
THEOREM KeepsPromise == Spec => PromiseKept
<1>1. Init => Promise!Init
  BY DEF Init, Promise!Init
<1>2. IInv /\ [Next]_vars => Promised
  BY EveryStep DEF Good
<1> QED
  BY <1>1, <1>2, Invariance, PTL DEF Spec, PromiseKept, Promise!Spec, Promised
=============================================================================
