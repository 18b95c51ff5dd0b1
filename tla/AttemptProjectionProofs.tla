---------------------- MODULE AttemptProjectionProofs ----------------------
(* Proofs about AttemptProjection, for every set of processes, attempts and *)
(* seals, every number of edits and every number of crashes and restores.  *)
EXTENDS AttemptProjection, TLAPS

\* The cursor's anchor; a restore may break it and no later row repairs it.
CursorAnchored(st) ==
    \/ st.cursor = 0
    \/ st.cursor \in DOMAIN rows /\ rows[st.cursor].att = st.cursorAtt

\* No row up to the cursor sorts after the tail.
TailIsLast(st) == \A i \in 1..st.cursor : ~Before(st.tail, rows[i])

\* A state some projector wrote: its anchor was minted, so while it holds the
\* rows up to the cursor are the ones the projector saw.
StateOK(st) ==
    /\ st.cursor > 0 => st.cursorAtt \in minted
    /\ CursorAnchored(st) => TailIsLast(st)

Sealed(st) ==
    (Readable(st) /\ SealMatches(st) /\ CursorAnchored(st) /\ ~tampered)
      => IsProjectionOf(file.lines, st.cursor)

RowsMinted == \A i \in DOMAIN rows : rows[i].att \in minted

OnlyHolderWorks == \A p \in Procs : job[p].pc # "idle" => holder = p

Looking == {"anchor", "select", "open"}
Appending == {"open", "write", "stat", "verify", "publish"}
Rebuilding == {"replace", "recheck", "republish"}

\* What a projector between two steps relies on.
JobGood(j) ==
    LET n == j.st.cursor IN
    /\ j.pc \in Looking => Readable(j.st) /\ StateOK(j.st) /\ Sealed(j.st)
    /\ j.pc = "select" => CursorAnchored(j.st)
    /\ j.pc \in Appending =>
         /\ Readable(j.st) /\ StateOK(j.st) /\ CursorAnchored(j.st)
         /\ n + 1 \in DOMAIN rows
         /\ Successor(j.st, rows[n + 1])
    /\ (j.pc = "write" /\ j.named /\ ~tampered) =>
         IsProjectionOf(file.lines, n) /\ Len(file.lines) = j.size
    /\ (j.pc = "stat" /\ j.named /\ ~tampered) => IsProjectionOf(file.lines, n + 1)
    /\ (j.pc \in {"verify", "publish"} /\ file.stamp = j.seal /\ ~tampered) =>
         IsProjectionOf(file.lines, n + 1)
    /\ j.pc \in Rebuilding =>
         /\ Readable(j.st) /\ StateOK(j.st) /\ CursorAnchored(j.st)
         /\ IsProjectionOf(j.lines, n)
    /\ (j.pc \in {"recheck", "republish"} /\ file.stamp = j.seal) =>
         file.lines = j.lines /\ ~tampered
JobOK(p) == JobGood(job[p])

IInv ==
    /\ RowsMinted
    /\ OnlyHolderWorks
    /\ StateOK(sidecar)
    /\ Sealed(sidecar)
    /\ \A p \in Procs : JobOK(p)

\* Cursors only move forward: what a projector read of the sidecar is still
\* what the sidecar says, if it is readable at all; what a rebuild is about to
\* publish is no older than that; and either covers the row that is owed.
AheadOf(j, owes) ==
    /\ owes \in 0..Len(rows)
    /\ j.pc \in Looking \union Appending => sidecar \in {j.st, NoState}
    /\ j.pc \in Appending => owes <= j.st.cursor + 1
    /\ j.pc \in Rebuilding =>
         /\ owes <= j.st.cursor
         /\ Readable(sidecar) /\ CursorAnchored(sidecar) => sidecar.cursor <= j.st.cursor
Ahead == \A p \in Procs : AheadOf(job[p], owed[p])
-----------------------------------------------------------------------------
(* Type correctness. *)

LEMMA NoStateType == NoState \in State
  BY DEF NoState, State, Foreign

LEMMA IdleJobType == IdleJob \in Job
  BY NoStateType DEF IdleJob, Job

LEMMA LineType == \A l \in Line : l \in [at : Nat, att : Nat] /\ l.att \in Nat \ {0}
  BY ProjectionAssumption

LEMMA GotoType ==
  ASSUME CallsType, NEW p \in Procs, NEW pc, Goto(p, pc),
         pc \in {"inspect", "anchor", "select", "open", "write", "stat",
                  "verify", "publish", "rebuild", "replace", "recheck", "republish"}
  PROVE  CallsType'
<1>1. [IdleJob EXCEPT !.pc = pc] \in Job /\ [job[p] EXCEPT !.pc = pc] \in Job
  BY IdleJobType DEF CallsType, Job
<1>2. job' \in [Procs -> Job]
  BY <1>1 DEF Goto, CallsType
<1> QED
  BY <1>2 DEF CallsType, Goto, Silent

LEMMA ReturnType ==
  ASSUME CallsType, NEW p \in Procs, Return(p, "projected") \/ Return(p, "pending")
  PROVE  CallsType'
  BY IdleJobType DEF CallsType, Return

\* A process moves on with what it has read.
LEMMA StepType ==
  ASSUME CallsType, NEW p \in Procs, NEW j \in Job, job' = [job EXCEPT ![p] = j],
         holder' \in Procs \union {NoProc}, UNCHANGED owed, Silent
  PROVE  CallsType'
  BY DEF CallsType, Silent

LEMMA OrphanedType ==
  ASSUME CallsType
  PROVE  Orphaned(job) \in [Procs -> Job]
<1>1. \A p \in Procs : [job[p] EXCEPT !.named = FALSE] \in Job
  BY DEF CallsType, Job
<1> QED
  BY <1>1 DEF Orphaned

LEMMA EditedLinesType ==
  ASSUME FilesType
  PROVE  EditedLines \subseteq Seq(Line \union {Foreign})
<1> DEFINE T == Line \union {Foreign}
<1> DEFINE f == file.lines
<1>1. f \in Seq(T) /\ Foreign \in T
  BY DEF FilesType
<1>2. SubSeq(f, 1, Len(f) - 1) \in Seq(T)
  BY <1>1
<1>3. Append(f, Foreign) \in Seq(T)
  BY <1>1
<1>4. \A i \in DOMAIN f : [f EXCEPT ![i] = Foreign] \in Seq(T)
  BY <1>1
<1> QED
  BY <1>2, <1>3, <1>4 DEF EditedLines

LEMMA FileType ==
  ASSUME NEW there \in BOOLEAN, NEW s \in Stamps, NEW l \in Seq(Line \union {Foreign})
  PROVE  [there |-> there, stamp |-> s, lines |-> l]
           \in [there : BOOLEAN, stamp : Nat, lines : Seq(Line \union {Foreign})]
  BY ProjectionAssumption

\* What is left alone keeps its type.
LEMMA FrameType ==
  /\ DatabaseType /\ UNCHANGED <<rows, minted>> => DatabaseType'
  /\ FilesType /\ UNCHANGED <<file, sidecar, tampered>> => FilesType'
  /\ CallsType /\ UNCHANGED <<holder, owed, job>> /\ Silent => CallsType'
  /\ CountersType /\ UNCHANGED <<edits, faults>> => CountersType'
  BY DEF DatabaseType, FilesType, CallsType, CountersType, Silent

LEMMA TypeInit == Init => TypeOK
<1> SUFFICES ASSUME Init PROVE TypeOK
  OBVIOUS
<1>1. DatabaseType
  BY DEF Init, DatabaseType
<1>2. FilesType
  <2>1. file \in [there : BOOLEAN, stamp : Nat, lines : Seq(Line \union {Foreign})]
    BY DEF Init
  <2>2. tampered \in BOOLEAN
    BY DEF Init
  <2> QED
    BY <2>1, <2>2, NoStateType DEF Init, FilesType
<1>3. CallsType
  BY IdleJobType DEF Init, CallsType
<1>4. CountersType
  BY ProjectionAssumption DEF Init, CountersType
<1> QED
  BY <1>1, <1>2, <1>3, <1>4 DEF TypeOK

LEMMA TypeProjector ==
  ASSUME TypeOK, IInv, NEW p \in Procs, Projector(p)
  PROVE  TypeOK'
<1> USE DEF environment, disk
<1>1. DatabaseType /\ FilesType /\ CallsType /\ CountersType /\ job[p] \in Job
  BY DEF TypeOK, CallsType
<1>2. UNCHANGED <<rows, minted, edits, faults>>
  BY DEF Projector, LockRefused, Lock, Reconcile, Inspect, Anchor, Select, Open, Write,
         Stat, Verify, Publish, Render, Replace, Recheck, Republish, Fail, AppendFails
<1>3. DatabaseType' /\ CountersType'
  BY <1>1, <1>2, FrameType
<1>4. CallsType'
  <2>1. CASE LockRefused(p)
    BY <1>1, <2>1 DEF LockRefused, CallsType
  <2>2. CASE Lock(p)
    <3>1. [job[p] EXCEPT !.pc = "inspect"] \in Job
      BY <1>1 DEF Job
    <3> QED
      BY <1>1, <2>2, <3>1, StepType DEF Lock
  <2>3. CASE Reconcile(p)
    <3>1. [job[p] EXCEPT !.pc = "rebuild"] \in Job
      BY <1>1 DEF Job
    <3> QED
      BY <1>1, <2>3, <3>1, StepType DEF Reconcile
  <2>4. CASE Inspect(p)
    <3>1. [job[p] EXCEPT !.pc = "anchor", !.st = sidecar] \in Job
      BY <1>1 DEF Job, FilesType
    <3> QED
      BY <1>1, <2>4, <3>1, StepType, GotoType DEF Inspect, CallsType
  <2>5. CASE Anchor(p)
    BY <1>1, <2>5, GotoType DEF Anchor
  <2>6. CASE Select(p)
    BY <1>1, <2>6, GotoType, ReturnType DEF Select
  <2>7. CASE Open(p)
    <3>1. file.there \in BOOLEAN /\ Len(file.lines) \in Nat
      BY <1>1 DEF FilesType
    <3>2. [job[p] EXCEPT !.pc = "write", !.named = file.there, !.size = Len(file.lines)]
            \in Job
      BY <1>1, <3>1 DEF Job
    <3> QED
      BY <1>1, <2>7, <3>2, StepType, GotoType DEF Open, CallsType
  <2>8. CASE Write(p)
    BY <1>1, <2>8, GotoType DEF Write
  <2>9. CASE Stat(p)
    <3>1. [job[p] EXCEPT !.pc = "verify", !.seal = file.stamp] \in Job
      BY <1>1 DEF Job, FilesType
    <3> QED
      BY <1>1, <2>9, <3>1, StepType, GotoType DEF Stat, CallsType
  <2>10. CASE Verify(p)
    BY <1>1, <2>10, GotoType DEF Verify
  <2>11. CASE Publish(p)
    BY <1>1, <2>11, GotoType, ReturnType DEF Publish
  <2>12. CASE Render(p)
    <3>1. PICK s \in [1..Len(rows) -> {rows[i] : i \in 1..Len(rows)}] :
            job' = [job EXCEPT ![p] = [@ EXCEPT !.pc = "replace", !.lines = s,
                                                !.st = RenderedState(s)]]
      BY <2>12 DEF Render
    <3>2. s \in Seq(Line)
      BY <1>1 DEF DatabaseType
    <3>3. RenderedState(s) \in State
      <4>1. CASE rows = << >>
        BY <4>1 DEF RenderedState, State, Foreign
      <4>2. CASE rows # << >>
        <5>1. Len(rows) \in 1..Len(rows)
          BY <1>1, <4>2 DEF DatabaseType
        <5>2. rows[Len(rows)] \in Line /\ s[Len(rows)] \in Line
          BY <1>1, <5>1, <3>2 DEF DatabaseType
        <5> QED
          BY <1>1, <4>2, <5>1, <5>2, LineType DEF RenderedState, State, DatabaseType
      <4> QED
        BY <4>1, <4>2
    <3>4. [job[p] EXCEPT !.pc = "replace", !.lines = s, !.st = RenderedState(s)] \in Job
      BY <1>1, <3>2, <3>3 DEF Job
    <3> QED
      BY <1>1, <2>12, <3>1, <3>4, StepType DEF Render, CallsType
  <2>13. CASE Replace(p)
    <3>1. PICK s \in Stamps :
            job' = [Orphaned(job) EXCEPT ![p] = [@ EXCEPT !.pc = "recheck", !.seal = s]]
      BY <2>13 DEF Replace
    <3>2. Orphaned(job) \in [Procs -> Job] /\ s \in Nat
      BY <1>1, OrphanedType, ProjectionAssumption
    <3>3. [Orphaned(job)[p] EXCEPT !.pc = "recheck", !.seal = s] \in Job
      BY <3>2 DEF Job
    <3>4. job' \in [Procs -> Job]
      BY <3>1, <3>2, <3>3
    <3> QED
      BY <1>1, <2>13, <3>4 DEF Replace, CallsType, Silent
  <2>14. CASE Recheck(p)
    BY <1>1, <2>14, GotoType, ReturnType DEF Recheck
  <2>15. CASE Republish(p)
    BY <1>1, <2>15, ReturnType DEF Republish
  <2>16. CASE Fail(p)
    BY <1>1, <2>16, ReturnType DEF Fail
  <2>17. CASE AppendFails(p)
    BY <1>1, <2>17, GotoType DEF AppendFails
  <2> QED
    BY <2>1, <2>2, <2>3, <2>4, <2>5, <2>6, <2>7, <2>8, <2>9, <2>10, <2>11, <2>12,
       <2>13, <2>14, <2>15, <2>16, <2>17 DEF Projector
<1>5. FilesType'
  <2>1. CASE UNCHANGED <<file, sidecar, tampered>>
    BY <1>1, <2>1, FrameType
  <2>2. CASE Write(p)
    <3>1. PICK line \in {rows[job[p].st.cursor + 1], Foreign} :
            IF job[p].named
            THEN \E s \in Stamps :
                   Fresh(s) /\ file' = [file EXCEPT !.stamp = s, !.lines = Append(@, line)]
            ELSE file' = file
      BY <2>2 DEF Write
    <3>2. UNCHANGED <<sidecar, tampered>>
      BY <2>2 DEF Write
    <3>3. line \in Line \union {Foreign}
      <4>1. job[p].st.cursor + 1 \in DOMAIN rows
        BY <2>2 DEF Write, At, IInv, JobOK, JobGood, Appending
      <4> QED
        BY <1>1, <4>1 DEF DatabaseType
    <3>4. CASE file' = file
      BY <1>1, <3>2, <3>4, FrameType
    <3>5. CASE \E s \in Stamps :
                 file' = [file EXCEPT !.stamp = s, !.lines = Append(@, line)]
      <4>1. PICK s \in Stamps :
              file' = [file EXCEPT !.stamp = s, !.lines = Append(@, line)]
        BY <3>5
      <4>2. Append(file.lines, line) \in Seq(Line \union {Foreign}) /\ s \in Nat
        BY <1>1, <3>3, ProjectionAssumption DEF FilesType
      <4>3. file' \in [there : BOOLEAN, stamp : Nat, lines : Seq(Line \union {Foreign})]
        BY <1>1, <4>1, <4>2 DEF FilesType
      <4> QED
        BY <1>1, <3>2, <4>3 DEF FilesType
    <3> QED
      BY <3>1, <3>4, <3>5
  <2>3. ASSUME NEW st \in State, sidecar' = st, UNCHANGED <<file, tampered>>
        PROVE  FilesType'
    BY <1>1, <2>3 DEF FilesType
  <2>4. CASE Publish(p)
    <3>1. job[p].st.cursor + 1 \in DOMAIN rows
      BY <2>4 DEF Publish, At, IInv, JobOK, JobGood, Appending
    <3>2. rows[job[p].st.cursor + 1] \in Line
      BY <1>1, <3>1 DEF DatabaseType
    <3>3. AppendedState(p) \in State
      <4> DEFINE n == job[p].st.cursor + 1
      <4>1. n \in Int /\ job[p].seal \in Nat
        BY <1>1 DEF Job, State
      <4>2. rows[n] \in [at : Nat, att : Nat] /\ rows[n].att \in Nat
        BY <3>2, LineType
      <4> HIDE DEF n
      <4>3. [cursor |-> n, cursorAtt |-> rows[n].att, tail |-> rows[n], seal |-> job[p].seal]
              \in State
        BY <4>1, <4>2 DEF State
      <4> QED
        BY <4>3 DEF AppendedState, n
    <3> QED
      BY <1>1, <2>3, <2>4, <3>3, FrameType DEF Publish
  <2>5. CASE Replace(p)
    <3>1. PICK s \in Stamps : file' = [there |-> TRUE, stamp |-> s, lines |-> job[p].lines]
      BY <2>5 DEF Replace
    <3>2. job[p].lines \in Seq(Line \union {Foreign})
      BY <1>1 DEF Job
    <3>3. tampered' \in BOOLEAN /\ sidecar' = sidecar
      BY <2>5 DEF Replace
    <3> QED
      BY <1>1, <3>1, <3>2, <3>3, FileType DEF FilesType
  <2>6. CASE Republish(p)
    <3>1. [job[p].st EXCEPT !.seal = job[p].seal] \in State
      BY <1>1 DEF Job, State
    <3> QED
      BY <1>1, <2>3, <2>6, <3>1, FrameType DEF Republish
  <2> QED
    BY <2>1, <2>2, <2>4, <2>5, <2>6
       DEF Projector, LockRefused, Lock, Reconcile, Inspect, Anchor, Select, Open,
           Stat, Verify, Render, Recheck, Fail, AppendFails
<1> QED
  BY <1>3, <1>4, <1>5 DEF TypeOK

LEMMA TypeStep == TypeOK /\ IInv /\ [Next]_vars => TypeOK'
<1> SUFFICES ASSUME TypeOK, IInv, [Next]_vars PROVE TypeOK'
  OBVIOUS
<1> USE DEF environment, disk
<1>0. DatabaseType /\ FilesType /\ CallsType /\ CountersType
  BY DEF TypeOK
<1>1. ASSUME NEW p \in Procs, NEW l \in Line, Record(p, l) PROVE TypeOK'
  <2>1. DatabaseType'
    <3>1. rows' \in Seq(Line)
      BY <1>0, <1>1 DEF Record, DatabaseType
    <3>2. minted' \subseteq Nat \ {0}
      BY <1>0, <1>1, LineType DEF Record, DatabaseType
    <3> QED
      BY <3>1, <3>2 DEF DatabaseType
  <2>2. CallsType'
    BY <1>0, <1>1 DEF Record, CallsType, DatabaseType, Silent
  <2> QED
    BY <1>0, <1>1, <2>1, <2>2, FrameType DEF Record, TypeOK
<1>2. ASSUME NEW p \in Procs, Projector(p) PROVE TypeOK'
  BY <1>2, TypeProjector
<1>3. CASE Environment
  <2>1. ASSUME NEW p \in Procs, Crash(p) PROVE TypeOK'
    <3>1. CallsType'
      BY <1>0, <2>1, IdleJobType DEF Crash, CallsType, Silent
    <3>2. CountersType'
      BY <1>0, <2>1, ProjectionAssumption DEF Crash, CountersType
    <3> QED
      BY <1>0, <2>1, <3>1, <3>2, FrameType DEF Crash, TypeOK
  <2>2. ASSUME NEW n \in 0..Len(rows), RestoreDatabase(n) PROVE TypeOK'
    <3>1. DatabaseType'
      BY <1>0, <2>2 DEF RestoreDatabase, DatabaseType
    <3>2. CountersType'
      BY <1>0, <2>2, ProjectionAssumption DEF RestoreDatabase, CountersType
    <3> QED
      BY <1>0, <2>2, <3>1, <3>2, FrameType DEF RestoreDatabase, TypeOK
  <2>3. ASSUME NEW s \in EditedLines, EditInPlace(s) PROVE TypeOK'
    <3>1. s \in Seq(Line \union {Foreign})
      BY <1>0, EditedLinesType
    <3>2. PICK new \in Stamps : file' = [file EXCEPT !.stamp = new, !.lines = s]
      BY <2>3 DEF EditInPlace
    <3>3. tampered' \in BOOLEAN /\ sidecar' = sidecar
      BY <2>3 DEF EditInPlace, InAppendWindow
    <3>4. FilesType'
      BY <1>0, <3>1, <3>2, <3>3, ProjectionAssumption DEF FilesType
    <3>5. CountersType'
      BY <1>0, <2>3, ProjectionAssumption DEF EditInPlace, CountersType
    <3> QED
      BY <1>0, <2>3, <3>4, <3>5, FrameType DEF EditInPlace, TypeOK
  <2>4. ASSUME NEW there \in BOOLEAN, NEW s, s \in EditedLines \/ s = << >>,
               EditName(there, s)
        PROVE  TypeOK'
    <3>1. s \in Seq(Line \union {Foreign})
      <4>1. << >> \in Seq(Line \union {Foreign})
        OBVIOUS
      <4> QED
        BY <1>0, <2>4, <4>1, EditedLinesType
    <3>2. PICK new \in Stamps : file' = [there |-> there, stamp |-> new, lines |-> s]
      BY <2>4 DEF EditName
    <3>3. tampered' \in BOOLEAN /\ sidecar' = sidecar
      BY <2>4 DEF EditName
    <3>4. FilesType'
      BY <1>0, <3>1, <3>2, <3>3, FileType DEF FilesType
    <3>5. CallsType'
      BY <1>0, <2>4, OrphanedType DEF EditName, CallsType, Silent
    <3>6. CountersType'
      BY <1>0, <2>4, ProjectionAssumption DEF EditName, CountersType
    <3> QED
      BY <1>0, <2>4, <3>4, <3>5, <3>6, FrameType DEF EditName, TypeOK
  <2>5. CASE LoseSidecar
    <3>1. FilesType'
      BY <1>0, <2>5, NoStateType DEF LoseSidecar, FilesType
    <3>2. CountersType'
      BY <1>0, <2>5, ProjectionAssumption DEF LoseSidecar, CountersType
    <3> QED
      BY <1>0, <2>5, <3>1, <3>2, FrameType DEF LoseSidecar, TypeOK
  <2> QED
    BY <1>3, <2>1, <2>2, <2>3, <2>4, <2>5 DEF Environment
<1>4. CASE UNCHANGED vars
  BY <1>4 DEF vars, TypeOK, DatabaseType, FilesType, CallsType, CountersType
<1> QED
  BY <1>1, <1>2, <1>3, <1>4 DEF Next

-----------------------------------------------------------------------------
(* Facts about the order and the database. *)

\* A prefix of the authority that does not change has the same projections.
LEMMA PrefixProjection ==
  ASSUME NEW n \in Int, NEW s, NEW r1, NEW r2, \A i \in 1..n : r2[i] = r1[i]
  PROVE  ProjectionOf(r2, s, n) <=> ProjectionOf(r1, s, n)
  BY DEF ProjectionOf

\* The strict successor of the tail sorts after every row projected so far.
LEMMA SuccessorIsLast ==
  ASSUME TypeOK, NEW n \in Nat, n + 1 \in DOMAIN rows,
         NEW st \in State, st.cursor = n, TailIsLast(st), Successor(st, rows[n + 1])
  PROVE  /\ \A i \in 1..n : Before(rows[i], rows[n + 1])
         /\ \A i \in 1..(n + 1) : ~Before(rows[n + 1], rows[i])
<1> DEFINE c == rows[n + 1]
<1>1. /\ \A i \in 1..(n + 1) : rows[i] \in [at : Nat, att : Nat]
      /\ st.tail \in [at : Nat, att : Nat]
  BY LineType DEF TypeOK, DatabaseType, State
<1>2. \A i \in 1..n : Before(rows[i], c)
  <2> SUFFICES ASSUME NEW i \in 1..n PROVE Before(rows[i], c)
    OBVIOUS
  <2>1. ~Before(st.tail, rows[i]) /\ Before(st.tail, c)
    BY DEF TailIsLast, Successor
  <2>2. /\ rows[i].at \in Nat /\ rows[i].att \in Nat /\ c.at \in Nat /\ c.att \in Nat
        /\ st.tail.at \in Nat /\ st.tail.att \in Nat
    BY <1>1
  <2> QED
    BY <2>1, <2>2 DEF Before
<1>3. \A i \in 1..(n + 1) : ~Before(c, rows[i])
  <2> SUFFICES ASSUME NEW i \in 1..(n + 1) PROVE ~Before(c, rows[i])
    OBVIOUS
  <2>1. /\ rows[i].at \in Nat /\ rows[i].att \in Nat /\ c.at \in Nat /\ c.att \in Nat
    BY <1>1
  <2>2. i # n + 1 => Before(rows[i], c)
    BY <1>2
  <2> QED
    BY <2>1, <2>2 DEF Before
<1> QED
  BY <1>2, <1>3

\* Appending the strict successor of the tail extends a projection by one row.
LEMMA AppendProjection ==
  ASSUME TypeOK, NEW n \in Nat, n + 1 \in DOMAIN rows,
         NEW s \in Seq(Line \union {Foreign}), IsProjectionOf(s, n),
         NEW st \in State, st.cursor = n, TailIsLast(st), Successor(st, rows[n + 1])
  PROVE  IsProjectionOf(Append(s, rows[n + 1]), n + 1)
<1> DEFINE c == rows[n + 1]
<1> DEFINE t == Append(s, c)
<1>2. \A i \in 1..n : Before(rows[i], c)
  BY SuccessorIsLast
<1>3. /\ DOMAIN t = 1..(Len(s) + 1) /\ DOMAIN s = 1..Len(s) /\ Len(s) \in Nat
      /\ t[Len(s) + 1] = c
      /\ \A i \in 1..Len(s) : t[i] = s[i]
  OBVIOUS
<1>4. \A i \in 1..Len(s) : \E k \in 1..n : s[i] = rows[k]
  BY <1>3 DEF IsProjectionOf, ProjectionOf
<1>5. \A k \in 1..n : \E i \in 1..Len(s) : s[i] = rows[k]
  BY <1>3 DEF IsProjectionOf, ProjectionOf
<1>6. /\ \A i \in DOMAIN t : \E k \in 1..(n + 1) : t[i] = rows[k]
      /\ \A k \in 1..(n + 1) : \E i \in DOMAIN t : t[i] = rows[k]
  <2>1. ASSUME NEW i \in DOMAIN t PROVE \E k \in 1..(n + 1) : t[i] = rows[k]
    BY <1>3, <1>4
  <2>2. ASSUME NEW k \in 1..(n + 1) PROVE \E i \in DOMAIN t : t[i] = rows[k]
    <3>1. CASE k = n + 1
      BY <3>1, <1>3
    <3>2. CASE k # n + 1
      <4>1. PICK i \in 1..Len(s) : s[i] = rows[k]
        BY <3>2, <1>5
      <4> QED
        BY <4>1, <1>3
    <3> QED
      BY <3>1, <3>2
  <2> QED
    BY <2>1, <2>2
<1>7. \A i, j \in DOMAIN t : i < j => Before(t[i], t[j])
  <2> SUFFICES ASSUME NEW i \in DOMAIN t, NEW j \in DOMAIN t, i < j
               PROVE  Before(t[i], t[j])
    OBVIOUS
  <2>1. CASE j = Len(s) + 1
    BY <2>1, <1>2, <1>3, <1>4
  <2>2. CASE j # Len(s) + 1
    <3>1. i \in DOMAIN s /\ j \in DOMAIN s
      BY <2>2, <1>3
    <3>2. Before(s[i], s[j])
      BY <3>1 DEF IsProjectionOf, ProjectionOf
    <3> QED
      BY <1>3, <3>1, <3>2
  <2> QED
    BY <2>1, <2>2
<1> QED
  BY <1>6, <1>7 DEF IsProjectionOf, ProjectionOf

\* The last line of a projection is not before any row of it.
LEMMA LastIsLast ==
  ASSUME NEW n \in Nat \ {0}, NEW r, NEW s, DOMAIN s = 1..n, ProjectionOf(r, s, n),
         \A m \in 1..n : r[m].at \in Nat /\ r[m].att \in Nat
  PROVE  \A i \in 1..n : ~Before(s[n], r[i])
<1>1. /\ \A i \in 1..n : \E k \in 1..n : s[i] = r[k]
      /\ \A k \in 1..n : \E i \in 1..n : s[i] = r[k]
      /\ \A i \in 1..n : \A j \in 1..n : i < j => Before(s[i], s[j])
  BY DEF ProjectionOf
<1> SUFFICES ASSUME NEW i \in 1..n PROVE ~Before(s[n], r[i])
  OBVIOUS
<1>2. PICK k \in 1..n : s[k] = r[i]
  BY <1>1
<1>3. k # n => Before(s[k], s[n])
  BY <1>1
<1>4. s[k].at \in Nat /\ s[k].att \in Nat /\ s[n].at \in Nat /\ s[n].att \in Nat
  <2>0. n \in 1..n
    OBVIOUS
  <2>1. PICK m \in 1..n : s[n] = r[m]
    BY <1>1, <2>0
  <2> QED
    BY <1>2, <2>1
<1> QED
  BY <1>2, <1>3, <1>4 DEF Before

\* A commit or a restore keeps a written state sound: if its anchor holds
\* afterwards, it held before and the rows up to the cursor are the same.
LEMMA DatabaseStep ==
  ASSUME TypeOK, RowsMinted, NEW st \in State, StateOK(st),
         \/ \E l \in Line : /\ l.att \notin minted
                            /\ rows' = Append(rows, l)
                            /\ minted' = minted \union {l.att}
         \/ \E n \in 0..Len(rows) : rows' = SubSeq(rows, 1, n) /\ minted' = minted
         \/ UNCHANGED <<rows, minted>>
  PROVE  /\ StateOK(st)'
         /\ CursorAnchored(st)' =>
              CursorAnchored(st) /\ \A i \in 1..st.cursor : rows'[i] = rows[i]
<1>1. rows \in Seq(Line) /\ st.cursor \in Int
  BY DEF TypeOK, DatabaseType, State
<1>2. minted \subseteq minted'
  OBVIOUS
<1>3. ASSUME CursorAnchored(st)'
      PROVE  CursorAnchored(st) /\ \A i \in 1..st.cursor : rows'[i] = rows[i]
  <2>1. CASE st.cursor = 0
    BY <1>1, <2>1 DEF CursorAnchored
  <2>2. CASE st.cursor # 0 /\ UNCHANGED rows
    BY <1>3, <2>2 DEF CursorAnchored
  <2>3. CASE st.cursor # 0 /\ \E n \in 0..Len(rows) : rows' = SubSeq(rows, 1, n)
    <3>1. PICK n \in 0..Len(rows) : rows' = SubSeq(rows, 1, n)
      BY <2>3
    <3>2. Len(rows') = n /\ \A i \in 1..n : rows'[i] = rows[i]
      BY <1>1, <3>1
    <3>3. st.cursor \in 1..n /\ rows'[st.cursor].att = st.cursorAtt
      BY <1>1, <1>3, <2>3, <3>1, <3>2 DEF CursorAnchored
    <3> QED
      BY <1>1, <3>2, <3>3 DEF CursorAnchored
  <2>4. CASE st.cursor # 0 /\ \E l \in Line : l.att \notin minted /\ rows' = Append(rows, l)
    <3>1. PICK l \in Line : l.att \notin minted /\ rows' = Append(rows, l)
      BY <2>4
    <3>2. /\ DOMAIN rows' = 1..(Len(rows) + 1) /\ rows'[Len(rows) + 1] = l
          /\ \A i \in 1..Len(rows) : rows'[i] = rows[i]
      BY <1>1, <3>1
    <3>3. st.cursor \in 1..(Len(rows) + 1) /\ rows'[st.cursor].att = st.cursorAtt
      BY <1>3, <2>4, <3>2 DEF CursorAnchored
    <3>4. st.cursor # Len(rows) + 1
      BY <3>1, <3>2, <3>3 DEF StateOK
    <3> QED
      BY <1>1, <3>2, <3>3, <3>4 DEF CursorAnchored
  <2> QED
    BY <2>1, <2>2, <2>3, <2>4
<1>4. StateOK(st)'
  BY <1>1, <1>2, <1>3 DEF StateOK, TailIsLast
<1> QED
  BY <1>3, <1>4

-----------------------------------------------------------------------------
(* The inductive invariant. *)

LEMMA InvInit == Init => IInv
<1> SUFFICES ASSUME Init PROVE IInv
  OBVIOUS
<1>1. RowsMinted /\ OnlyHolderWorks /\ StateOK(sidecar) /\ Sealed(sidecar)
  BY DEF Init, RowsMinted, OnlyHolderWorks, IdleJob, NoState, StateOK, Sealed, Readable,
         CursorAnchored
<1>2. \A p \in Procs : JobOK(p)
  BY DEF Init, IdleJob, JobOK, JobGood, Looking, Appending, Rebuilding
<1> QED
  BY <1>1, <1>2 DEF IInv

\* A changed file matches no seal that is remembered.
LEMMA FreshSeal ==
  ASSUME TypeOK, NEW s, Fresh(s)
  PROVE  /\ s # file.stamp /\ s # sidecar.seal
         /\ \A p \in Procs : s # job[p].seal /\ s # job[p].st.seal
  BY DEF Fresh, Held

\* A commit: the rows grow at their end.
LEMMA InvRecord ==
  ASSUME TypeOK, IInv, NEW p \in Procs, NEW l \in Line, Record(p, l)
  PROVE  IInv'
<1> USE DEF environment, disk
<1>1. /\ rows \in Seq(Line) /\ l.att \notin minted /\ rows' = Append(rows, l)
      /\ minted' = minted \union {l.att}
      /\ UNCHANGED <<file, sidecar, tampered, holder, job>>
  BY DEF Record, TypeOK, DatabaseType
<1>2. /\ DOMAIN rows' = 1..(Len(rows) + 1) /\ DOMAIN rows = 1..Len(rows)
      /\ rows'[Len(rows) + 1] = l
      /\ \A i \in 1..Len(rows) : rows'[i] = rows[i]
  BY <1>1
<1>3. RowsMinted'
  BY <1>1, <1>2 DEF IInv, RowsMinted
<1>4. OnlyHolderWorks'
  BY <1>1 DEF IInv, OnlyHolderWorks
<1>5. ASSUME NEW st \in State, StateOK(st)
      PROVE  /\ StateOK(st)'
             /\ CursorAnchored(st)' =>
                  CursorAnchored(st) /\ \A i \in 1..st.cursor : rows'[i] = rows[i]
  BY <1>1, <1>5, DatabaseStep DEF IInv
<1>6. ASSUME NEW st \in State, StateOK(st), Sealed(st)
      PROVE  Sealed(st)'
  <2> SUFFICES ASSUME Readable(st)', SealMatches(st)', CursorAnchored(st)', ~tampered'
               PROVE  IsProjectionOf(file.lines, st.cursor)'
    BY DEF Sealed
  <2>1. CursorAnchored(st) /\ \A i \in 1..st.cursor : rows'[i] = rows[i]
    BY <1>5, <1>6
  <2>2. IsProjectionOf(file.lines, st.cursor)
    BY <1>1, <1>6, <2>1 DEF Sealed, Readable, SealMatches
  <2>3. st.cursor \in Int
    BY DEF State
  <2>4. IsProjectionOf(file.lines, st.cursor)' <=> IsProjectionOf(file.lines, st.cursor)
    BY <1>1, <2>1, <2>3, PrefixProjection DEF IsProjectionOf
  <2> QED
    BY <2>2, <2>4
<1>7. sidecar \in State /\ \A q \in Procs : job[q] \in Job /\ job[q].st \in State
  BY DEF TypeOK, FilesType, CallsType, Job
<1>8. StateOK(sidecar)' /\ Sealed(sidecar)'
  <2>1. StateOK(sidecar) /\ Sealed(sidecar)
    BY DEF IInv
  <2> QED
    BY <1>1, <1>5, <1>6, <1>7, <2>1 DEF StateOK, Sealed
<1>9. \A q \in Procs : JobOK(q)'
  <2> SUFFICES ASSUME NEW q \in Procs PROVE JobOK(q)'
    OBVIOUS
  <2>1. JobOK(q) /\ job' = job
    BY <1>1 DEF IInv
  <2>2. job[q].st \in State /\ job[q].st.cursor \in Int
    BY <1>7 DEF State
  <2>3. job[q].pc \in Looking =>
          Readable(job[q].st) /\ StateOK(job[q].st)' /\ Sealed(job[q].st)'
    BY <1>5, <1>6, <1>7, <2>1 DEF JobOK, JobGood
  <2> DEFINE j == job[q]
  <2> DEFINE n == job[q].st.cursor
  <2>4. CursorAnchored(j.st) /\ Readable(j.st) => n \in 0..Len(rows) /\ CursorAnchored(j.st)'
    BY <1>1, <1>2, <2>1, <2>2 DEF CursorAnchored, Readable
  <2>5. \A m \in 0..Len(rows) : \A s : ProjectionOf(rows', s, m) <=> ProjectionOf(rows, s, m)
    BY <1>2, PrefixProjection
  <2>6. j.pc = "select" => CursorAnchored(j.st)'
    BY <2>1, <2>3, <2>4 DEF JobOK, JobGood, Looking
  <2>7. j.pc \in Appending =>
          /\ Readable(j.st) /\ StateOK(j.st)' /\ CursorAnchored(j.st)'
          /\ n \in 0..Len(rows) /\ n + 1 \in 0..Len(rows) /\ n + 1 \in DOMAIN rows'
          /\ Successor(j.st, rows'[n + 1])
    <3> SUFFICES ASSUME j.pc \in Appending
                 PROVE  /\ Readable(j.st) /\ StateOK(j.st)' /\ CursorAnchored(j.st)'
                        /\ n \in 0..Len(rows) /\ n + 1 \in 0..Len(rows)
                        /\ n + 1 \in DOMAIN rows'
                        /\ Successor(j.st, rows'[n + 1])
      OBVIOUS
    <3>1. /\ Readable(j.st) /\ StateOK(j.st) /\ CursorAnchored(j.st)
          /\ n + 1 \in DOMAIN rows /\ Successor(j.st, rows[n + 1])
      BY <2>1 DEF JobOK, JobGood
    <3>2. StateOK(j.st)' /\ CursorAnchored(j.st)' /\ n \in 0..Len(rows)
      BY <1>5, <2>1, <2>2, <2>4, <3>1
    <3>3. n + 1 \in DOMAIN rows' /\ rows'[n + 1] = rows[n + 1] /\ n + 1 \in 0..Len(rows)
      BY <1>1, <1>2, <2>2, <3>1
    <3> QED
      BY <3>1, <3>2, <3>3
  <2>8. j.pc \in Rebuilding =>
          /\ Readable(j.st) /\ StateOK(j.st)' /\ CursorAnchored(j.st)'
          /\ ProjectionOf(rows', j.lines, n)
    <3> SUFFICES ASSUME j.pc \in Rebuilding
                 PROVE  /\ Readable(j.st) /\ StateOK(j.st)' /\ CursorAnchored(j.st)'
                        /\ ProjectionOf(rows', j.lines, n)
      OBVIOUS
    <3>1. /\ Readable(j.st) /\ StateOK(j.st) /\ CursorAnchored(j.st)
          /\ ProjectionOf(rows, j.lines, n)
      BY <2>1 DEF JobOK, JobGood, IsProjectionOf
    <3> QED
      BY <1>5, <2>1, <2>2, <2>4, <2>5, <3>1
  <2>9. /\ (j.pc = "write" /\ j.named /\ ~tampered) =>
             ProjectionOf(rows', file.lines, n) /\ Len(file.lines) = j.size
        /\ (j.pc = "stat" /\ j.named /\ ~tampered) => ProjectionOf(rows', file.lines, n + 1)
        /\ (j.pc \in {"verify", "publish"} /\ file.stamp = j.seal /\ ~tampered) =>
             ProjectionOf(rows', file.lines, n + 1)
    BY <2>1, <2>5, <2>7 DEF JobOK, JobGood, IsProjectionOf, Appending
  <2>10. (j.pc \in {"recheck", "republish"} /\ file.stamp = j.seal) =>
           file.lines = j.lines /\ ~tampered
    BY <2>1 DEF JobOK, JobGood
  <2>11. file' = file /\ tampered' = tampered /\ job'[q] = j
    BY <1>1
  <2> HIDE DEF j, n
  <2> QED
    BY <2>3, <2>6, <2>7, <2>8, <2>9, <2>10, <2>11
       DEF JobOK, JobGood, IsProjectionOf, Readable, n, j, Successor
<1> QED
  BY <1>3, <1>4, <1>8, <1>9 DEF IInv

\* Only p's job moves, everything it is about stays.
LEMMA MoveStep ==
  ASSUME TypeOK, IInv, NEW p \in Procs, NEW j, job' = [job EXCEPT ![p] = j], JobGood(j),
         \A q \in Procs : q # p => job[q].pc = "idle",
         holder' = p \/ j.pc = "idle",
         UNCHANGED <<rows, minted, file, sidecar, tampered>>
  PROVE  IInv'
<1>1. job'[p] = j /\ \A q \in Procs : q # p => job'[q] = job[q]
  BY DEF TypeOK, CallsType
<1>2. RowsMinted' /\ StateOK(sidecar)' /\ Sealed(sidecar)'
  BY DEF IInv, RowsMinted, StateOK, CursorAnchored, TailIsLast, Sealed, Readable,
         SealMatches, IsProjectionOf
<1>3. OnlyHolderWorks'
  BY <1>1 DEF OnlyHolderWorks
<1>4. \A q \in Procs : JobGood(job'[q])
  BY <1>1 DEF IInv, JobOK
<1>5. ASSUME NEW k PROVE JobGood(k) => JobGood(k)'
  BY DEF JobGood, Readable, StateOK, CursorAnchored, TailIsLast, Sealed, SealMatches,
         IsProjectionOf, Successor
<1>6. \A q \in Procs : JobOK(q)'
  BY <1>4, <1>5 DEF JobOK
<1> QED
  BY <1>2, <1>3, <1>6 DEF IInv

LEMMA Alone ==
  ASSUME TypeOK, IInv, NEW p \in Procs, holder = p \/ holder = NoProc
  PROVE  \A q \in Procs : q # p => job[q].pc = "idle"
  BY ProjectionAssumption DEF IInv, OnlyHolderWorks

\* A call that returns, or that starts over, relies on nothing.
LEMMA InvReturn ==
  ASSUME TypeOK, IInv, NEW p \in Procs, holder = p, NEW result, Return(p, result),
         UNCHANGED <<rows, minted, file, sidecar, tampered>>
  PROVE  IInv'
<1>1. JobGood(IdleJob)
  BY DEF JobGood, IdleJob, Looking, Appending, Rebuilding
<1> QED
  BY <1>1, MoveStep, Alone DEF Return, IdleJob

LEMMA InvRebuild ==
  ASSUME TypeOK, IInv, NEW p \in Procs, holder = p, Goto(p, "rebuild"),
         UNCHANGED <<rows, minted, file, sidecar, tampered>>
  PROVE  IInv'
<1> DEFINE j == [IdleJob EXCEPT !.pc = "rebuild"]
<1>1. JobGood(j)
  BY DEF JobGood, IdleJob, Looking, Appending, Rebuilding
<1>2. job' = [job EXCEPT ![p] = j] /\ holder' = p
  BY DEF Goto
<1> HIDE DEF j
<1> QED
  BY <1>1, <1>2, MoveStep, Alone

\* The steps that only look: taking the flock, reading the sidecar, checking
\* its anchors, selecting the candidate row, opening the file, and the looks
\* after the write.
LEMMA InvLock ==
  ASSUME TypeOK, IInv, NEW p \in Procs, Lock(p) \/ Reconcile(p)
  PROVE  IInv'
<1> USE DEF environment, disk
<1>1. PICK pc \in {"inspect", "rebuild"} : job' = [job EXCEPT ![p] = [@ EXCEPT !.pc = pc]]
  BY DEF Lock, Reconcile
<1> DEFINE j == [job[p] EXCEPT !.pc = pc]
<1>2. j.pc = pc
  BY DEF TypeOK, CallsType, Job
<1>3. JobGood(j)
  BY <1>2 DEF JobGood, Looking, Appending, Rebuilding
<1>4. job' = [job EXCEPT ![p] = j] /\ holder = NoProc /\ holder' = p
  BY <1>1 DEF Lock, Reconcile, LockFree
<1>5. UNCHANGED <<rows, minted, file, sidecar, tampered>>
  BY DEF Lock, Reconcile
<1> HIDE DEF j
<1> QED
  BY <1>3, <1>4, <1>5, MoveStep, Alone

LEMMA InvInspect ==
  ASSUME TypeOK, IInv, NEW p \in Procs, Inspect(p)
  PROVE  IInv'
<1> USE DEF environment, disk
<1>1. holder = p /\ UNCHANGED <<rows, minted, file, sidecar, tampered>>
  BY DEF Inspect, At, IInv, OnlyHolderWorks
<1>2. CASE Goto(p, "rebuild")
  BY <1>1, <1>2, InvRebuild
<1>3. CASE /\ Readable(sidecar) /\ SealMatches(sidecar)
           /\ job' = [job EXCEPT ![p] = [@ EXCEPT !.pc = "anchor", !.st = sidecar]]
           /\ holder' = holder
  <2> DEFINE j == [job[p] EXCEPT !.pc = "anchor", !.st = sidecar]
  <2>1. j.pc = "anchor" /\ j.st = sidecar
    BY DEF TypeOK, CallsType, Job
  <2>2. JobGood(j)
    BY <1>3, <2>1 DEF JobGood, IInv, Looking, Appending, Rebuilding
  <2>3. job' = [job EXCEPT ![p] = j]
    BY <1>3
  <2> HIDE DEF j
  <2> QED
    BY <1>1, <1>3, <2>2, <2>3, MoveStep, Alone
<1> QED
  BY <1>2, <1>3 DEF Inspect

\* A step to pc that keeps what the projector has read.
LEMMA InvGoto ==
  ASSUME TypeOK, IInv, NEW p \in Procs, holder = p, NEW pc, pc # "rebuild", Goto(p, pc),
         UNCHANGED <<rows, minted, file, sidecar, tampered>>,
         JobGood([job[p] EXCEPT !.pc = pc])
  PROVE  IInv'
<1> DEFINE j == [job[p] EXCEPT !.pc = pc]
<1>1. job' = [job EXCEPT ![p] = j] /\ holder' = p
  BY DEF Goto
<1>2. JobGood(j)
  OBVIOUS
<1> HIDE DEF j
<1> QED
  BY <1>1, <1>2, MoveStep, Alone

LEMMA InvAnchor ==
  ASSUME TypeOK, IInv, NEW p \in Procs, Anchor(p)
  PROVE  IInv'
<1> USE DEF environment, disk
<1>1. holder = p /\ UNCHANGED <<rows, minted, file, sidecar, tampered>> /\ job[p].pc = "anchor"
  BY DEF Anchor, At, IInv, OnlyHolderWorks
<1>2. CASE Goto(p, "rebuild")
  BY <1>1, <1>2, InvRebuild
<1>3. CASE CursorMatchesAuthority(job[p].st) /\ Goto(p, "select")
  <2> DEFINE j == [job[p] EXCEPT !.pc = "select"]
  <2>1. j.pc = "select" /\ j.st = job[p].st
    BY DEF TypeOK, CallsType, Job
  <2>2. CursorAnchored(j.st)
    BY <1>3, <2>1 DEF CursorMatchesAuthority, CursorAnchored
  <2>3. Readable(j.st) /\ StateOK(j.st) /\ Sealed(j.st)
    BY <1>1, <2>1 DEF IInv, JobOK, JobGood, Looking
  <2>4. JobGood(j)
    BY <2>1, <2>2, <2>3 DEF JobGood, Looking, Appending, Rebuilding
  <2> QED
    BY <1>1, <1>3, <2>4, InvGoto
<1> QED
  BY <1>2, <1>3 DEF Anchor

LEMMA InvSelect ==
  ASSUME TypeOK, IInv, NEW p \in Procs, Select(p)
  PROVE  IInv'
<1> USE DEF environment, disk
<1>1. holder = p /\ UNCHANGED <<rows, minted, file, sidecar, tampered>> /\ job[p].pc = "select"
  BY DEF Select, At, IInv, OnlyHolderWorks
<1>2. CASE Goto(p, "rebuild")
  BY <1>1, <1>2, InvRebuild
<1>3. CASE Return(p, "projected")
  BY <1>1, <1>3, InvReturn
<1>4. CASE /\ Unseen(job[p].st) = 1 /\ Successor(job[p].st, rows[job[p].st.cursor + 1])
           /\ Goto(p, "open")
  <2> DEFINE j == [job[p] EXCEPT !.pc = "open"]
  <2>1. j.pc = "open" /\ j.st = job[p].st /\ j.st.cursor \in Int
    BY DEF TypeOK, CallsType, Job, State
  <2>2. Readable(j.st) /\ StateOK(j.st) /\ Sealed(j.st) /\ CursorAnchored(j.st)
    BY <1>1, <2>1 DEF IInv, JobOK, JobGood, Looking
  <2>3. j.st.cursor + 1 \in DOMAIN rows
    BY <1>4, <2>1, <2>2 DEF Unseen, Readable, TypeOK, DatabaseType
  <2>4. Successor(j.st, rows[j.st.cursor + 1])
    BY <1>4, <2>1
  <2> HIDE DEF j
  <2>5. JobGood(j)
    BY <2>1, <2>2, <2>3, <2>4 DEF JobGood, Looking, Appending, Rebuilding
  <2> QED
    BY <1>1, <1>4, <2>5, InvGoto DEF j
<1> QED
  BY <1>2, <1>3, <1>4 DEF Select

LEMMA InvOpen ==
  ASSUME TypeOK, IInv, NEW p \in Procs, Open(p)
  PROVE  IInv'
<1> USE DEF environment, disk
<1>1. holder = p /\ UNCHANGED <<rows, minted, file, sidecar, tampered>> /\ job[p].pc = "open"
  BY DEF Open, At, IInv, OnlyHolderWorks
<1>2. CASE Goto(p, "rebuild")
  BY <1>1, <1>2, InvRebuild
<1>3. CASE /\ SealMatches(job[p].st) /\ holder' = holder
           /\ job' = [job EXCEPT ![p] = [@ EXCEPT !.pc = "write", !.named = file.there,
                                                  !.size = Len(file.lines)]]
  <2> DEFINE j == [job[p] EXCEPT !.pc = "write", !.named = file.there,
                                 !.size = Len(file.lines)]
  <2>1. j.pc = "write" /\ j.st = job[p].st /\ j.size = Len(file.lines)
    BY DEF TypeOK, CallsType, Job
  <2>2. /\ Readable(j.st) /\ StateOK(j.st) /\ Sealed(j.st) /\ CursorAnchored(j.st)
        /\ j.st.cursor + 1 \in DOMAIN rows
        /\ Successor(j.st, rows[j.st.cursor + 1])
    BY <1>1, <2>1 DEF IInv, JobOK, JobGood, Looking, Appending
  <2>3. ~tampered => IsProjectionOf(file.lines, j.st.cursor)
    BY <1>3, <2>1, <2>2 DEF Sealed
  <2>4. job' = [job EXCEPT ![p] = j]
    BY <1>3
  <2> HIDE DEF j
  <2>5. JobGood(j)
    BY <2>1, <2>2, <2>3 DEF JobGood, Looking, Appending, Rebuilding
  <2> QED
    BY <1>1, <1>3, <2>4, <2>5, MoveStep, Alone
<1> QED
  BY <1>2, <1>3 DEF Open

\* A change of the file breaks whatever seal was remembered.
LEMMA FreshFile ==
  ASSUME TypeOK, IInv, NEW s, Fresh(s), file'.stamp = s, UNCHANGED <<rows, minted, sidecar>>
  PROVE  RowsMinted' /\ StateOK(sidecar)' /\ Sealed(sidecar)'
  BY FreshSeal DEF IInv, RowsMinted, StateOK, CursorAnchored, TailIsLast, Sealed, SealMatches

\* Only p is at work after the step, and what it relies on holds.
LEMMA OnlyJob ==
  ASSUME TypeOK, NEW p \in Procs, NEW j, job' = [job EXCEPT ![p] = j], holder' = p,
         \A q \in Procs : q # p => job[q].pc = "idle", JobGood(j)'
  PROVE  OnlyHolderWorks' /\ \A q \in Procs : JobOK(q)'
<1>1. job'[p] = j /\ \A q \in Procs : q # p => job'[q].pc = "idle"
  BY DEF TypeOK, CallsType
<1>2. \A k : k.pc = "idle" => JobGood(k)'
  BY DEF JobGood, Looking, Appending, Rebuilding
<1> QED
  BY <1>1, <1>2 DEF OnlyHolderWorks, JobOK

LEMMA InvWrite ==
  ASSUME TypeOK, IInv, NEW p \in Procs, Write(p)
  PROVE  IInv'
<1> USE DEF environment, disk
<1>0. PICK st : st = job[p].st
  OBVIOUS
<1>c. PICK c : c = rows[st.cursor + 1]
  OBVIOUS
<1>1. /\ holder = p /\ UNCHANGED <<rows, minted, sidecar, tampered>> /\ job[p].pc = "write"
      /\ job[p] \in Job /\ st \in State /\ st.cursor \in Int
  BY <1>0 DEF Write, At, TypeOK, CallsType, Job, State, IInv, OnlyHolderWorks
<1>2. /\ Readable(st) /\ StateOK(st) /\ CursorAnchored(st) /\ st.cursor \in Nat
      /\ st.cursor + 1 \in DOMAIN rows /\ Successor(st, c)
      /\ (job[p].named /\ ~tampered) => IsProjectionOf(file.lines, st.cursor)
  BY <1>0, <1>c, <1>1 DEF IInv, JobOK, JobGood, Appending, Readable
<1>3. PICK line \in {c, Foreign} :
        /\ IF job[p].named
           THEN \E s \in Stamps :
                  Fresh(s) /\ file' = [file EXCEPT !.stamp = s, !.lines = Append(@, line)]
           ELSE file' = file
        /\ Goto(p, IF line = Foreign THEN "rebuild" ELSE "stat")
  BY <1>0, <1>c DEF Write
<1>4. CASE file' = file /\ Goto(p, "rebuild")
  BY <1>1, <1>4, InvRebuild
<1>j. PICK jr, js : jr = [IdleJob EXCEPT !.pc = "rebuild"] /\ js = [job[p] EXCEPT !.pc = "stat"]
  OBVIOUS
<1>5. Goto(p, "rebuild") => job' = [job EXCEPT ![p] = jr] /\ holder' = p
  BY <1>1, <1>j DEF Goto
<1>6. Goto(p, "stat") => job' = [job EXCEPT ![p] = js] /\ holder' = p
  BY <1>1, <1>j DEF Goto
<1>7. /\ jr.pc = "rebuild" /\ js.pc = "stat" /\ js.st = st /\ js.named = job[p].named
  BY <1>0, <1>1, <1>j DEF Job, IdleJob
<1>8. \A q \in Procs : q # p => job[q].pc = "idle"
  BY <1>1, Alone
<1>9. CASE file' = file /\ ~job[p].named /\ Goto(p, "stat")
  <2>1. JobGood(js)
    BY <1>c, <1>2, <1>7, <1>9 DEF JobGood, Looking, Appending, Rebuilding
  <2> QED
    BY <1>1, <1>6, <1>8, <1>9, <2>1, MoveStep
<1>10. ASSUME NEW s \in Stamps, Fresh(s), job[p].named,
              file' = [file EXCEPT !.stamp = s, !.lines = Append(@, line)]
       PROVE  IInv'
  <2>1. file'.stamp = s /\ file'.lines = Append(file.lines, line)
    BY <1>10 DEF TypeOK, FilesType
  <2>2. RowsMinted' /\ StateOK(sidecar)' /\ Sealed(sidecar)'
    BY <1>1, <1>10, <2>1, FreshFile
  <2>3. CASE Goto(p, "rebuild")
    <3>1. JobGood(jr)'
      BY <1>7 DEF JobGood, Looking, Appending, Rebuilding
    <3> QED
      BY <1>5, <1>8, <2>2, <2>3, <3>1, OnlyJob DEF IInv
  <2>4. CASE line = c /\ Goto(p, "stat")
    <3>1. ~tampered => ProjectionOf(rows, Append(file.lines, c), st.cursor + 1)
      <4>1. file.lines \in Seq(Line \union {Foreign}) /\ TailIsLast(st)
        BY <1>2 DEF TypeOK, FilesType, StateOK
      <4> QED
        BY <1>c, <1>1, <1>2, <1>10, <4>1, AppendProjection DEF IsProjectionOf
    <3>2. ~tampered => IsProjectionOf(file.lines, st.cursor + 1)'
      BY <1>1, <2>1, <2>4, <3>1 DEF IsProjectionOf
    <3>3. JobGood(js)'
      <4>1. Readable(st) /\ StateOK(st)' /\ CursorAnchored(st)'
        BY <1>1, <1>2 DEF StateOK, CursorAnchored, TailIsLast
      <4>2. st.cursor + 1 \in DOMAIN rows' /\ Successor(st, rows'[st.cursor + 1])
        BY <1>c, <1>1, <1>2
      <4> QED
        BY <1>1, <1>7, <3>2, <4>1, <4>2 DEF JobGood, Looking, Appending, Rebuilding
    <3> QED
      BY <1>6, <1>8, <2>2, <2>4, <3>3, OnlyJob DEF IInv
  <2> QED
    BY <1>3, <2>3, <2>4
<1> QED
  BY <1>3, <1>4, <1>9, <1>10

LEMMA InvStat ==
  ASSUME TypeOK, IInv, NEW p \in Procs, Stat(p)
  PROVE  IInv'
<1> USE DEF environment, disk
<1>1. /\ holder = p /\ UNCHANGED <<rows, minted, file, sidecar, tampered>>
      /\ job[p].pc = "stat"
  BY DEF Stat, At, IInv, OnlyHolderWorks
<1>2. CASE Goto(p, "rebuild")
  BY <1>1, <1>2, InvRebuild
<1>3. CASE /\ GrewByOne(p) /\ holder' = holder
           /\ job' = [job EXCEPT ![p] = [@ EXCEPT !.pc = "verify", !.seal = file.stamp]]
  <2> DEFINE j == [job[p] EXCEPT !.pc = "verify", !.seal = file.stamp]
  <2>1. j.pc = "verify" /\ j.st = job[p].st
    BY DEF TypeOK, CallsType, Job
  <2>2. /\ Readable(j.st) /\ StateOK(j.st) /\ CursorAnchored(j.st)
        /\ j.st.cursor + 1 \in DOMAIN rows
        /\ Successor(j.st, rows[j.st.cursor + 1])
        /\ ~tampered => IsProjectionOf(file.lines, j.st.cursor + 1)
    BY <1>1, <1>3, <2>1 DEF IInv, JobOK, JobGood, Appending, GrewByOne
  <2>3. job' = [job EXCEPT ![p] = j]
    BY <1>3
  <2> HIDE DEF j
  <2>4. JobGood(j)
    BY <2>1, <2>2 DEF JobGood, Looking, Appending, Rebuilding
  <2> QED
    BY <1>1, <1>3, <2>3, <2>4, MoveStep, Alone
<1> QED
  BY <1>2, <1>3 DEF Stat

LEMMA InvVerify ==
  ASSUME TypeOK, IInv, NEW p \in Procs, Verify(p)
  PROVE  IInv'
<1> USE DEF environment, disk
<1>1. /\ holder = p /\ UNCHANGED <<rows, minted, file, sidecar, tampered>>
      /\ job[p].pc = "verify"
  BY DEF Verify, At, IInv, OnlyHolderWorks
<1>2. CASE Goto(p, "rebuild")
  BY <1>1, <1>2, InvRebuild
<1>3. CASE Goto(p, "publish")
  <2> DEFINE j == [job[p] EXCEPT !.pc = "publish"]
  <2>1. j.pc = "publish" /\ j.st = job[p].st /\ j.seal = job[p].seal
    BY DEF TypeOK, CallsType, Job
  <2>2. /\ Readable(j.st) /\ StateOK(j.st) /\ CursorAnchored(j.st)
        /\ j.st.cursor + 1 \in DOMAIN rows
        /\ Successor(j.st, rows[j.st.cursor + 1])
        /\ (file.stamp = j.seal /\ ~tampered) =>
             IsProjectionOf(file.lines, j.st.cursor + 1)
    BY <1>1, <2>1 DEF IInv, JobOK, JobGood, Appending
  <2> HIDE DEF j
  <2>3. JobGood(j)
    BY <2>1, <2>2 DEF JobGood, Looking, Appending, Rebuilding
  <2> QED
    BY <1>1, <1>3, <2>3, InvGoto DEF j
<1> QED
  BY <1>2, <1>3 DEF Verify

LEMMA InvRecheck ==
  ASSUME TypeOK, IInv, NEW p \in Procs, Recheck(p)
  PROVE  IInv'
<1> USE DEF environment, disk
<1>1. /\ holder = p /\ UNCHANGED <<rows, minted, file, sidecar, tampered>>
      /\ job[p].pc = "recheck"
  BY DEF Recheck, At, IInv, OnlyHolderWorks
<1>2. CASE Return(p, "pending")
  BY <1>1, <1>2, InvReturn
<1>3. CASE Goto(p, "republish")
  <2> DEFINE j == [job[p] EXCEPT !.pc = "republish"]
  <2>1. j.pc = "republish" /\ j.st = job[p].st /\ j.seal = job[p].seal /\ j.lines = job[p].lines
    BY DEF TypeOK, CallsType, Job
  <2>2. /\ Readable(j.st) /\ StateOK(j.st) /\ CursorAnchored(j.st)
        /\ IsProjectionOf(j.lines, j.st.cursor)
        /\ file.stamp = j.seal => file.lines = j.lines /\ ~tampered
    BY <1>1, <2>1 DEF IInv, JobOK, JobGood, Rebuilding
  <2> HIDE DEF j
  <2>3. JobGood(j)
    BY <2>1, <2>2 DEF JobGood, Looking, Appending, Rebuilding
  <2> QED
    BY <1>1, <1>3, <2>3, InvGoto DEF j
<1> QED
  BY <1>2, <1>3 DEF Recheck

LEMMA InvFail ==
  ASSUME TypeOK, IInv, NEW p \in Procs, Fail(p) \/ AppendFails(p)
  PROVE  IInv'
<1> USE DEF environment, disk
<1>1. CASE Fail(p)
  BY <1>1, InvReturn DEF Fail, IInv, OnlyHolderWorks
<1>2. CASE AppendFails(p)
  BY <1>2, InvRebuild DEF AppendFails, IInv, OnlyHolderWorks
<1> QED
  BY <1>1, <1>2

\* A sidecar that replaces the old one may be trusted.
LEMMA NewSidecar ==
  ASSUME TypeOK, IInv, NEW p \in Procs, holder = p, NEW st, sidecar' = st,
         StateOK(st), SealMatches(st) /\ ~tampered => IsProjectionOf(file.lines, st.cursor),
         (\E result : Return(p, result)) \/ Goto(p, "rebuild"),
         UNCHANGED <<rows, minted, file, tampered>>
  PROVE  IInv'
<1>1. RowsMinted' /\ StateOK(sidecar)' /\ Sealed(sidecar)'
  BY DEF IInv, RowsMinted, StateOK, CursorAnchored, TailIsLast, Sealed, SealMatches,
         IsProjectionOf
<1>2. PICK j \in {IdleJob, [IdleJob EXCEPT !.pc = "rebuild"]} : job' = [job EXCEPT ![p] = j]
  BY DEF Return, Goto
<1>3. j.pc \in {"idle", "rebuild"} /\ (holder' = p \/ j.pc = "idle")
  <2>1. IdleJob.pc = "idle" /\ [IdleJob EXCEPT !.pc = "rebuild"].pc = "rebuild"
    BY DEF IdleJob
  <2>2. CASE Goto(p, "rebuild")
    BY <1>2, <2>1, <2>2 DEF Goto
  <2>3. CASE \E result : Return(p, result)
    <3>1. job'[p] = IdleJob /\ job'[p] = j
      BY <1>2, <2>3 DEF Return, TypeOK, CallsType
    <3> QED
      BY <2>1, <3>1
  <2> QED
    BY <2>2, <2>3
<1>4. \A q \in Procs : q # p => job[q].pc = "idle"
  BY Alone
<1>5. job'[p] = j /\ \A q \in Procs : q # p => job'[q].pc = "idle"
  BY <1>2, <1>4 DEF TypeOK, CallsType
<1>6. \A k : k.pc \in {"idle", "rebuild"} => JobGood(k)'
  BY DEF JobGood, Looking, Appending, Rebuilding
<1>7. OnlyHolderWorks' /\ \A q \in Procs : JobOK(q)'
  BY <1>3, <1>5, <1>6 DEF OnlyHolderWorks, JobOK
<1> QED
  BY <1>1, <1>7 DEF IInv

LEMMA InvPublish ==
  ASSUME TypeOK, IInv, NEW p \in Procs, Publish(p)
  PROVE  IInv'
<1> USE DEF environment, disk
<1>1. /\ holder = p /\ UNCHANGED <<rows, minted, file, tampered>> /\ job[p].pc = "publish"
      /\ (\E result : Return(p, result)) \/ Goto(p, "rebuild")
  BY DEF Publish, At, IInv, OnlyHolderWorks
<1>2. CASE sidecar' = sidecar
  BY <1>1, <1>2, InvRebuild, InvReturn
<1>3. CASE sidecar' = AppendedState(p)
  <2>1. PICK st, n : st = AppendedState(p) /\ n = job[p].st.cursor
    OBVIOUS
  <2>2. /\ Readable(job[p].st) /\ StateOK(job[p].st) /\ CursorAnchored(job[p].st)
        /\ n \in Nat /\ n + 1 \in DOMAIN rows /\ Successor(job[p].st, rows[n + 1])
        /\ (file.stamp = job[p].seal /\ ~tampered) => IsProjectionOf(file.lines, n + 1)
        /\ job[p].st \in State /\ TailIsLast(job[p].st)
    BY <1>1, <2>1 DEF IInv, JobOK, JobGood, Appending, Readable, TypeOK, CallsType, Job,
                      State, StateOK
  <2>3. /\ st.cursor = n + 1 /\ st.cursorAtt = rows[n + 1].att /\ st.tail = rows[n + 1]
        /\ st.seal = job[p].seal
    BY <2>1 DEF AppendedState
  <2>4. \A i \in 1..(n + 1) : ~Before(rows[n + 1], rows[i])
    <3>1. TypeOK /\ job[p].st.cursor = n
      BY <2>1
    <3> QED
      BY <2>2, <3>1, SuccessorIsLast
  <2>5. StateOK(st)
    BY <2>2, <2>3, <2>4 DEF StateOK, TailIsLast, IInv, RowsMinted
  <2> QED
    BY <1>1, <1>3, <2>1, <2>2, <2>3, <2>5, NewSidecar DEF SealMatches
<1> QED
  BY <1>2, <1>3 DEF Publish

LEMMA InvRepublish ==
  ASSUME TypeOK, IInv, NEW p \in Procs, Republish(p)
  PROVE  IInv'
<1> USE DEF environment, disk
<1>1. /\ holder = p /\ UNCHANGED <<rows, minted, file, tampered>> /\ job[p].pc = "republish"
      /\ \E result : Return(p, result)
  BY DEF Republish, At, IInv, OnlyHolderWorks
<1>2. CASE sidecar' = sidecar
  BY <1>1, <1>2, InvReturn
<1>3. CASE sidecar' = [job[p].st EXCEPT !.seal = job[p].seal]
  <2>1. PICK st : st = [job[p].st EXCEPT !.seal = job[p].seal]
    OBVIOUS
  <2>2. /\ StateOK(job[p].st) /\ IsProjectionOf(job[p].lines, job[p].st.cursor)
        /\ file.stamp = job[p].seal => file.lines = job[p].lines
    BY <1>1 DEF IInv, JobOK, JobGood, Rebuilding
  <2>3. /\ st.cursor = job[p].st.cursor /\ st.cursorAtt = job[p].st.cursorAtt
        /\ st.tail = job[p].st.tail /\ st.seal = job[p].seal
    BY <2>1 DEF TypeOK, CallsType, Job, State
  <2>4. StateOK(st)
    BY <2>2, <2>3 DEF StateOK, CursorAnchored, TailIsLast
  <2> QED
    BY <1>1, <1>3, <2>1, <2>2, <2>3, <2>4, NewSidecar DEF SealMatches
<1> QED
  BY <1>2, <1>3 DEF Republish

LEMMA InvRender ==
  ASSUME TypeOK, IInv, NEW p \in Procs, Render(p)
  PROVE  IInv'
<1> USE DEF environment, disk
<1>1. holder = p /\ holder' = p /\ UNCHANGED <<rows, minted, file, sidecar, tampered>>
  BY DEF Render, At, IInv, OnlyHolderWorks
<1>2. PICK s \in [1..Len(rows) -> {rows[i] : i \in 1..Len(rows)}] :
        /\ IsProjectionOf(s, Len(rows))
        /\ job' = [job EXCEPT ![p] = [@ EXCEPT !.pc = "replace", !.lines = s,
                                               !.st = RenderedState(s)]]
  BY DEF Render
<1>3. PICK st, j : /\ st = RenderedState(s)
                   /\ j = [job[p] EXCEPT !.pc = "replace", !.lines = s, !.st = st]
  OBVIOUS
<1>4. j.pc = "replace" /\ j.lines = s /\ j.st = st
  BY <1>3 DEF TypeOK, CallsType, Job
<1>5. rows \in Seq(Line) /\ Len(rows) \in Nat
  BY DEF TypeOK, DatabaseType
<1>6. /\ Readable(st) /\ StateOK(st) /\ CursorAnchored(st)
      /\ st.cursor = Len(rows)
  <2>1. CASE rows = << >>
    BY <1>3, <2>1 DEF RenderedState, Readable, StateOK, CursorAnchored, TailIsLast
  <2>2. CASE rows # << >>
    <3>1. Len(rows) \in Nat \ {0} /\ Len(rows) \in DOMAIN rows /\ Len(rows) >= 0
      BY <1>5, <2>2
    <3>2. /\ st.cursor = Len(rows) /\ st.cursorAtt = rows[Len(rows)].att
          /\ st.tail = s[Len(rows)]
      BY <1>3, <2>2 DEF RenderedState
    <3>3. \A m \in 1..Len(rows) : rows[m].at \in Nat /\ rows[m].att \in Nat
      BY <1>5, LineType
    <3>4. DOMAIN s = 1..Len(rows) /\ ProjectionOf(rows, s, Len(rows))
      BY <1>2 DEF IsProjectionOf
    <3>5. \A i \in 1..Len(rows) : ~Before(s[Len(rows)], rows[i])
      BY <3>1, <3>3, <3>4, LastIsLast
    <3> QED
      BY <3>1, <3>2, <3>5 DEF Readable, StateOK, CursorAnchored, TailIsLast, IInv, RowsMinted
  <2> QED
    BY <2>1, <2>2
<1>7. JobGood(j)
  BY <1>2, <1>4, <1>6 DEF JobGood, Looking, Appending, Rebuilding
<1> QED
  BY <1>1, <1>2, <1>3, <1>7, MoveStep, Alone

LEMMA InvReplace ==
  ASSUME TypeOK, IInv, NEW p \in Procs, Replace(p)
  PROVE  IInv'
<1> USE DEF environment, disk
<1>1. /\ holder = p /\ holder' = p /\ UNCHANGED <<rows, minted, sidecar>>
      /\ tampered' = FALSE /\ job[p].pc = "replace"
  BY DEF Replace, At, IInv, OnlyHolderWorks
<1>2. PICK s \in Stamps :
        /\ Fresh(s)
        /\ file' = [there |-> TRUE, stamp |-> s, lines |-> job[p].lines]
        /\ job' = [Orphaned(job) EXCEPT ![p] = [@ EXCEPT !.pc = "recheck", !.seal = s]]
  BY DEF Replace
<1>3. RowsMinted' /\ StateOK(sidecar)' /\ Sealed(sidecar)'
  BY <1>1, <1>2, FreshFile
<1>4. Orphaned(job) \in [Procs -> Job]
  BY OrphanedType DEF TypeOK
<1>5. \A q \in Procs : q # p => job'[q].pc = "idle"
  <2>1. \A q \in Procs : q # p => job[q].pc = "idle"
    BY <1>1, Alone
  <2>2. \A q \in Procs : Orphaned(job)[q].pc = job[q].pc
    BY DEF Orphaned, TypeOK, CallsType, Job
  <2> QED
    BY <1>2, <1>4, <2>1, <2>2
<1>6. /\ job'[p].pc = "recheck" /\ job'[p].st = job[p].st /\ job'[p].lines = job[p].lines
      /\ job'[p].seal = s
  <2>1. /\ Orphaned(job)[p].st = job[p].st /\ Orphaned(job)[p].lines = job[p].lines
    BY DEF Orphaned, TypeOK, CallsType, Job
  <2>2. Orphaned(job)[p] \in Job
    BY <1>4
  <2>3. job'[p] = [Orphaned(job)[p] EXCEPT !.pc = "recheck", !.seal = s]
    BY <1>2, <1>4
  <2> QED
    BY <2>1, <2>2, <2>3 DEF Job
<1>7. JobOK(p)'
  <2>1. PICK k, l : k = job[p].st /\ l = job[p].lines
    OBVIOUS
  <2>2. /\ Readable(k) /\ StateOK(k) /\ CursorAnchored(k) /\ IsProjectionOf(l, k.cursor)
    BY <1>1, <2>1 DEF IInv, JobOK, JobGood, Rebuilding
  <2>3. /\ Readable(k) /\ StateOK(k)' /\ CursorAnchored(k)' /\ IsProjectionOf(l, k.cursor)'
    BY <1>1, <2>2 DEF StateOK, CursorAnchored, TailIsLast, IsProjectionOf
  <2>4. job'[p].st = k /\ job'[p].lines = l /\ file'.lines = l
    BY <1>2, <1>6, <2>1
  <2> QED
    BY <1>1, <1>6, <2>3, <2>4 DEF JobOK, JobGood, Looking, Appending, Rebuilding, Readable
<1>8. \A q \in Procs : job'[q].pc = "idle" => JobOK(q)'
  BY DEF JobOK, JobGood, Looking, Appending, Rebuilding
<1>9. OnlyHolderWorks' /\ \A q \in Procs : JobOK(q)'
  BY <1>1, <1>5, <1>7, <1>8 DEF OnlyHolderWorks
<1> QED
  BY <1>3, <1>9 DEF IInv

LEMMA InvProjector ==
  ASSUME TypeOK, IInv, NEW p \in Procs, Projector(p)
  PROVE  IInv'
<1>1. CASE LockRefused(p)
  <2>1. UNCHANGED <<rows, minted, file, sidecar, holder, job, tampered>>
    BY <1>1 DEF LockRefused, environment, disk
  <2> QED
    BY <2>1 DEF IInv, RowsMinted, OnlyHolderWorks, StateOK, CursorAnchored, TailIsLast,
       Sealed, SealMatches, IsProjectionOf, JobOK, JobGood
<1> QED
  BY <1>1, InvLock, InvInspect, InvAnchor, InvSelect, InvOpen, InvWrite, InvStat, InvVerify,
     InvPublish, InvRender, InvReplace, InvRecheck, InvRepublish, InvFail DEF Projector

\* The crash of one process leaves the others what they rely on.
LEMMA InvCrash ==
  ASSUME TypeOK, IInv, NEW p \in Procs, Crash(p)
  PROVE  IInv'
<1> USE DEF disk
<1>1. /\ UNCHANGED <<rows, minted, sidecar, file, tampered>>
      /\ job' = [job EXCEPT ![p] = IdleJob]
      /\ holder' = IF holder = p THEN NoProc ELSE holder
  BY DEF Crash
<1>2. RowsMinted' /\ StateOK(sidecar)' /\ Sealed(sidecar)'
  BY <1>1 DEF IInv, RowsMinted, StateOK, CursorAnchored, TailIsLast, Sealed, SealMatches,
         IsProjectionOf
<1>3. \A q \in Procs : job'[q] = job[q] \/ job'[q].pc = "idle"
  BY <1>1 DEF TypeOK, CallsType, IdleJob
<1>4. \A k : (JobGood(k) => JobGood(k)') /\ (k.pc = "idle" => JobGood(k)')
  BY <1>1 DEF JobGood, Readable, StateOK, CursorAnchored, TailIsLast, Sealed, SealMatches,
              IsProjectionOf, Successor, Looking, Appending, Rebuilding
<1>5. \A q \in Procs : JobOK(q)'
  BY <1>3, <1>4 DEF JobOK, IInv
<1>6. OnlyHolderWorks'
  <2>1. job'[p].pc = "idle" /\ \A q \in Procs : q # p => job'[q] = job[q]
    BY <1>1 DEF TypeOK, CallsType, IdleJob
  <2> QED
    BY <1>1, <2>1 DEF IInv, OnlyHolderWorks
<1> QED
  BY <1>2, <1>5, <1>6 DEF IInv

LEMMA InvRestoreDatabase ==
  ASSUME TypeOK, IInv, NEW n \in 0..Len(rows), RestoreDatabase(n)
  PROVE  IInv'
<1> USE DEF disk
<1>1. /\ rows' = SubSeq(rows, 1, n) /\ UNCHANGED <<minted, sidecar, file, tampered, job>>
      /\ rows \in Seq(Line) /\ sidecar \in State
  BY DEF RestoreDatabase, TypeOK, DatabaseType, FilesType
<1>2. \A q \in Procs : job'[q].pc = "idle"
  BY <1>1 DEF RestoreDatabase, Idle
<1>3. OnlyHolderWorks' /\ \A q \in Procs : JobOK(q)'
  BY <1>2 DEF OnlyHolderWorks, JobOK, JobGood, Looking, Appending, Rebuilding
<1>4. RowsMinted'
  <2>1. DOMAIN rows' = 1..n /\ \A i \in 1..n : i \in DOMAIN rows /\ rows'[i] = rows[i]
    BY <1>1
  <2> QED
    BY <1>1, <2>1 DEF IInv, RowsMinted
<1>5. PICK k : k = sidecar
  OBVIOUS
<1>6. k \in State /\ StateOK(k) /\ Sealed(k) /\ k = sidecar'
  BY <1>1, <1>5 DEF IInv
<1>7. /\ StateOK(k)'
      /\ CursorAnchored(k)' =>
           CursorAnchored(k) /\ \A i \in 1..k.cursor : rows'[i] = rows[i]
  BY <1>1, <1>6, DatabaseStep DEF IInv
<1>8. Sealed(k)'
  BY <1>1, <1>6, <1>7, PrefixProjection
     DEF Sealed, SealMatches, Readable, IsProjectionOf, State
<1>9. StateOK(sidecar)' /\ Sealed(sidecar)'
  BY <1>6, <1>7, <1>8 DEF StateOK, CursorAnchored, TailIsLast, Sealed, SealMatches,
                          Readable, IsProjectionOf
<1> QED
  BY <1>3, <1>4, <1>9 DEF IInv

\* A projector at work when the file is changed under it: no seal it remembers
\* fits, and what it relies on between its two stats it may no longer.
LEMMA InvEdit ==
  ASSUME TypeOK, IInv, NEW s, Fresh(s), file'.stamp = s, UNCHANGED <<rows, minted, sidecar>>,
         NEW q \in Procs, NEW k, k.pc = job[q].pc, k.st = job[q].st, k.lines = job[q].lines,
         k.seal = job[q].seal, k.pc \in {"write", "stat"} => ~k.named \/ tampered'
  PROVE  JobGood(k)'
<1>1. PICK st, l : st = job[q].st /\ l = job[q].lines
  OBVIOUS
<1>2. /\ k.pc \in Looking => Readable(st) /\ StateOK(st)
      /\ k.pc = "select" => CursorAnchored(st)
      /\ k.pc \in Appending =>
           /\ Readable(st) /\ StateOK(st) /\ CursorAnchored(st)
           /\ st.cursor + 1 \in DOMAIN rows /\ Successor(st, rows[st.cursor + 1])
      /\ k.pc \in Rebuilding =>
           /\ Readable(st) /\ StateOK(st) /\ CursorAnchored(st)
           /\ ProjectionOf(rows, l, st.cursor)
  BY <1>1 DEF IInv, JobOK, JobGood, IsProjectionOf
<1>3. file'.stamp # st.seal /\ file'.stamp # k.seal
  BY <1>1, FreshSeal
<1>4. /\ StateOK(st) => StateOK(st)'
      /\ CursorAnchored(st) => CursorAnchored(st)'
  BY DEF StateOK, CursorAnchored, TailIsLast
<1>5. Sealed(st)'
  BY <1>3 DEF Sealed, SealMatches
<1> QED
  BY <1>1, <1>2, <1>3, <1>4, <1>5 DEF JobGood, IsProjectionOf, Readable, Successor

LEMMA InvEditInPlace ==
  ASSUME TypeOK, IInv, NEW s, EditInPlace(s)
  PROVE  IInv'
<1>1. PICK new \in Stamps : Fresh(new) /\ file' = [file EXCEPT !.stamp = new, !.lines = s]
  BY DEF EditInPlace
<1>2. /\ UNCHANGED <<rows, minted, sidecar, holder, job>> /\ file'.stamp = new
      /\ tampered' = (tampered \/ InAppendWindow)
  BY <1>1 DEF EditInPlace, TypeOK, FilesType
<1>3. RowsMinted' /\ StateOK(sidecar)' /\ Sealed(sidecar)'
  BY <1>1, <1>2, FreshFile
<1>4. OnlyHolderWorks'
  BY <1>2 DEF IInv, OnlyHolderWorks
<1>5. ASSUME NEW q \in Procs PROVE JobOK(q)'
  <2>1. PICK k : k = job[q]
    OBVIOUS
  <2>2. k.pc \in {"write", "stat"} => ~k.named \/ tampered'
    BY <1>2, <2>1 DEF InAppendWindow
  <2>3. JobGood(k)'
    BY <1>1, <1>2, <2>1, <2>2, InvEdit
  <2> QED
    BY <1>2, <2>1, <2>3 DEF JobOK
<1> QED
  BY <1>3, <1>4, <1>5 DEF IInv

LEMMA InvEditName ==
  ASSUME TypeOK, IInv, NEW there, NEW s, EditName(there, s)
  PROVE  IInv'
<1>1. PICK new \in Stamps :
        Fresh(new) /\ file' = [there |-> there, stamp |-> new, lines |-> s]
  BY DEF EditName
<1>2. /\ UNCHANGED <<rows, minted, sidecar, holder>> /\ file'.stamp = new
      /\ job' = Orphaned(job)
  BY <1>1 DEF EditName
<1>3. RowsMinted' /\ StateOK(sidecar)' /\ Sealed(sidecar)'
  BY <1>1, <1>2, FreshFile
<1>4. \A q \in Procs : /\ job'[q].pc = job[q].pc /\ job'[q].st = job[q].st
                       /\ job'[q].lines = job[q].lines /\ job'[q].seal = job[q].seal
                       /\ job'[q].named = FALSE
  BY <1>2 DEF Orphaned, TypeOK, CallsType, Job
<1>5. OnlyHolderWorks'
  BY <1>2, <1>4 DEF IInv, OnlyHolderWorks
<1>6. ASSUME NEW q \in Procs PROVE JobOK(q)'
  <2>1. PICK k : k = job'[q]
    OBVIOUS
  <2>2. JobGood(k)'
    BY <1>1, <1>2, <1>4, <2>1, InvEdit
  <2> QED
    BY <2>1, <2>2 DEF JobOK
<1> QED
  BY <1>3, <1>5, <1>6 DEF IInv

LEMMA InvLoseSidecar ==
  ASSUME TypeOK, IInv, LoseSidecar
  PROVE  IInv'
<1> USE DEF disk
<1>1. UNCHANGED <<rows, minted, holder, job, file, tampered>> /\ sidecar' = NoState
  BY DEF LoseSidecar
<1>2. RowsMinted' /\ OnlyHolderWorks' /\ StateOK(sidecar)' /\ Sealed(sidecar)'
  BY <1>1 DEF IInv, RowsMinted, OnlyHolderWorks, StateOK, CursorAnchored, TailIsLast, Sealed,
              Readable, NoState
<1>3. \A k : JobGood(k) => JobGood(k)'
  BY <1>1 DEF JobGood, StateOK, CursorAnchored, TailIsLast, Sealed, SealMatches, IsProjectionOf
<1>4. \A q \in Procs : JobOK(q)'
  BY <1>1, <1>3 DEF IInv, JobOK
<1> QED
  BY <1>2, <1>4 DEF IInv

LEMMA InvStep == TypeOK /\ IInv /\ [Next]_vars => IInv'
<1> SUFFICES ASSUME TypeOK, IInv, [Next]_vars PROVE IInv'
  OBVIOUS
<1>1. CASE \E p \in Procs, l \in Line : Record(p, l)
  BY <1>1, InvRecord
<1>2. CASE \E p \in Procs : Projector(p)
  BY <1>2, InvProjector
<1>3. CASE Environment
  BY <1>3, InvCrash, InvRestoreDatabase, InvEditInPlace, InvEditName, InvLoseSidecar
     DEF Environment
<1>4. CASE UNCHANGED vars
  BY <1>4 DEF vars, IInv, RowsMinted, OnlyHolderWorks, StateOK, CursorAnchored, TailIsLast,
              Sealed, SealMatches, IsProjectionOf, JobOK, JobGood
<1> QED
  BY <1>1, <1>2, <1>3, <1>4 DEF Next
-----------------------------------------------------------------------------
(* Cursors and the rows that are owed. *)

LEMMA AheadInit == Init => Ahead
<1> SUFFICES ASSUME Init, NEW p \in Procs PROVE AheadOf(job[p], owed[p])
  BY DEF Ahead
<1>1. job[p].pc = "idle" /\ owed[p] = 0 /\ Len(rows) = 0
  BY DEF Init, IdleJob
<1> QED
  BY <1>1 DEF AheadOf, Looking, Appending, Rebuilding

\* A projector's step that leaves rows and sidecar alone.
LEMMA AheadMoves ==
  ASSUME TypeOK, Ahead, NEW p \in Procs, NEW j, NEW n,
         job' = [job EXCEPT ![p] = j], owed' = [owed EXCEPT ![p] = n], AheadOf(j, n),
         UNCHANGED <<rows, sidecar>>
  PROVE  Ahead'
<1>1. /\ job'[p] = j /\ owed'[p] = n
      /\ \A q \in Procs : q # p => job'[q] = job[q] /\ owed'[q] = owed[q]
  BY DEF TypeOK, CallsType
<1>2. \A k, m : AheadOf(k, m) => AheadOf(k, m)'
  BY DEF AheadOf, Readable, CursorAnchored
<1> QED
  BY <1>1, <1>2 DEF Ahead

\* Who is idle, or starts over, relies on nothing.
LEMMA AheadIdle ==
  ASSUME TypeOK, NEW j, j.pc \in {"idle", "inspect", "rebuild"}, NEW n \in 0..Len(rows)
  PROVE  AheadOf(j, n)
  BY DEF AheadOf, Looking, Appending, Rebuilding

LEMMA AheadReturn ==
  ASSUME TypeOK, Ahead, NEW p \in Procs, NEW result, Return(p, result), UNCHANGED <<rows, sidecar>>
  PROVE  Ahead'
<1>1. 0 \in 0..Len(rows) /\ IdleJob.pc = "idle"
  BY DEF TypeOK, DatabaseType, IdleJob
<1>2. AheadOf(IdleJob, 0)
  BY <1>1, AheadIdle
<1> QED
  BY <1>2, AheadMoves DEF Return

\* A step within a call.
LEMMA AheadGoes ==
  ASSUME TypeOK, Ahead, NEW p \in Procs, NEW j, job' = [job EXCEPT ![p] = j], owed' = owed,
         AheadOf(j, owed[p]), UNCHANGED <<rows, sidecar>>
  PROVE  Ahead'
<1>1. owed' = [owed EXCEPT ![p] = owed[p]]
  BY DEF TypeOK, CallsType
<1> QED
  BY <1>1, AheadMoves

LEMMA AheadRebuild ==
  ASSUME TypeOK, Ahead, NEW p \in Procs, Goto(p, "rebuild"), UNCHANGED <<rows, sidecar>>
  PROVE  Ahead'
<1>1. PICK j : j = [IdleJob EXCEPT !.pc = "rebuild"]
  OBVIOUS
<1>2. j.pc = "rebuild" /\ job' = [job EXCEPT ![p] = j] /\ owed' = owed
  BY <1>1 DEF Goto, IdleJob
<1>3. AheadOf(j, owed[p])
  BY <1>2, AheadIdle DEF Ahead, AheadOf
<1> QED
  BY <1>2, <1>3, AheadGoes

LEMMA AheadGoto ==
  ASSUME TypeOK, Ahead, NEW p \in Procs, NEW pc, pc # "rebuild", Goto(p, pc),
         \A j : j.pc = pc /\ j.st = job[p].st => AheadOf(j, owed[p]), UNCHANGED <<rows, sidecar>>
  PROVE  Ahead'
<1>1. PICK j : j = [job[p] EXCEPT !.pc = pc]
  OBVIOUS
<1>2. j.pc = pc /\ j.st = job[p].st /\ job' = [job EXCEPT ![p] = j] /\ owed' = owed
  BY <1>1 DEF Goto, TypeOK, CallsType, Job
<1>3. AheadOf(j, owed[p])
  BY <1>2
<1> QED
  BY <1>2, <1>3, AheadGoes

\* The looks of a projector.
LEMMA AheadLooks ==
  ASSUME TypeOK, IInv, Ahead, NEW p \in Procs,
         \/ Lock(p) \/ Reconcile(p) \/ Inspect(p) \/ Anchor(p) \/ Select(p) \/ LockRefused(p)
         \/ Fail(p) \/ AppendFails(p)
  PROVE  Ahead'
<1> USE DEF environment, disk
<1>0. /\ job[p] \in Job /\ owed[p] \in 0..Len(rows) /\ Len(rows) \in Nat /\ sidecar \in State
      /\ AheadOf(job[p], owed[p])
  BY DEF TypeOK, CallsType, DatabaseType, FilesType, Ahead, AheadOf
<1>1. CASE Lock(p) \/ Reconcile(p)
  <2>1. PICK pc \in {"inspect", "rebuild"} : job' = [job EXCEPT ![p] = [@ EXCEPT !.pc = pc]]
    BY <1>1 DEF Lock, Reconcile
  <2>2. PICK j : j = [job[p] EXCEPT !.pc = pc]
    OBVIOUS
  <2>3. j.pc = pc
    BY <1>0, <2>2 DEF Job
  <2>4. AheadOf(j, owed[p])
    BY <1>0, <2>3, AheadIdle
  <2> QED
    BY <1>1, <2>1, <2>2, <2>4, AheadGoes DEF Lock, Reconcile
<1>2. CASE Inspect(p)
  <2>1. CASE Goto(p, "rebuild")
    BY <1>2, <2>1, AheadRebuild DEF Inspect
  <2>2. CASE job' = [job EXCEPT ![p] = [@ EXCEPT !.pc = "anchor", !.st = sidecar]] /\ UNCHANGED owed
    <3>1. PICK j : j = [job[p] EXCEPT !.pc = "anchor", !.st = sidecar]
      OBVIOUS
    <3>2. j.pc = "anchor" /\ j.st = sidecar
      BY <1>0, <3>1 DEF Job
    <3>3. AheadOf(j, owed[p])
      BY <1>0, <3>2 DEF AheadOf, Looking, Appending, Rebuilding
    <3> QED
      BY <1>2, <2>2, <3>1, <3>3, AheadGoes DEF Inspect
  <2> QED
    BY <1>2, <2>1, <2>2 DEF Inspect
<1>3. CASE Anchor(p)
  <2>1. \A j : j.pc = "select" /\ j.st = job[p].st => AheadOf(j, owed[p])
    BY <1>0, <1>3 DEF Anchor, At, AheadOf, Looking, Appending, Rebuilding
  <2> QED
    BY <1>3, <2>1, AheadRebuild, AheadGoto DEF Anchor
<1>4. CASE Select(p)
  <2>1. CASE Unseen(job[p].st) = 1
    <3>1. owed[p] <= job[p].st.cursor + 1
      BY <1>0, <2>1 DEF Unseen, Job, State
    <3>2. \A j : j.pc = "open" /\ j.st = job[p].st => AheadOf(j, owed[p])
      BY <1>0, <1>4, <3>1 DEF Select, At, AheadOf, Looking, Appending, Rebuilding
    <3> QED
      BY <1>4, <3>2, AheadReturn, AheadRebuild, AheadGoto DEF Select
  <2> QED
    BY <1>4, <2>1, AheadReturn, AheadRebuild DEF Select
<1>5. CASE LockRefused(p)
  <2>1. 0 \in 0..Len(rows) /\ job' = [job EXCEPT ![p] = job[p]]
    BY <1>0, <1>5 DEF LockRefused, TypeOK, CallsType
  <2>2. AheadOf(job[p], 0)
    BY <1>5, <2>1, AheadIdle DEF LockRefused
  <2> QED
    BY <1>5, <2>1, <2>2, AheadMoves DEF LockRefused
<1>6. CASE Fail(p) \/ AppendFails(p)
  BY <1>6, AheadReturn, AheadRebuild DEF Fail, AppendFails
<1> QED
  BY <1>1, <1>2, <1>3, <1>4, <1>5, <1>6

\* The append: the row that is owed stays within one of the cursor.
LEMMA AheadAppends ==
  ASSUME TypeOK, IInv, Ahead, NEW p \in Procs, Open(p) \/ Write(p) \/ Stat(p) \/ Verify(p)
  PROVE  Ahead'
<1> USE DEF environment, disk
<1>0. /\ job[p] \in Job /\ AheadOf(job[p], owed[p]) /\ UNCHANGED <<rows, sidecar>>
      /\ job[p].pc \in Appending
  BY DEF TypeOK, CallsType, Ahead, Open, Write, Stat, Verify, At, Appending
<1>1. \A j : j.pc \in Appending /\ j.st = job[p].st => AheadOf(j, owed[p])
  BY <1>0 DEF AheadOf, Looking, Appending, Rebuilding
<1>2. CASE Goto(p, "rebuild")
  BY <1>0, <1>2, AheadRebuild
<1>3. CASE \E pc \in Appending : Goto(p, pc)
  <2>1. PICK pc \in Appending : Goto(p, pc)
    BY <1>3
  <2> QED
    BY <1>0, <1>1, <2>1, AheadGoto DEF Appending
<1>4. CASE /\ job' = [job EXCEPT ![p] = [@ EXCEPT !.pc = "write", !.named = file.there, !.size = Len(file.lines)]]
           /\ UNCHANGED owed
  <2>1. PICK j : j = [job[p] EXCEPT !.pc = "write", !.named = file.there, !.size = Len(file.lines)]
    OBVIOUS
  <2>2. j.pc \in Appending /\ j.st = job[p].st
    BY <1>0, <2>1 DEF Job, Appending
  <2> QED
    BY <1>0, <1>1, <1>4, <2>1, <2>2, AheadGoes
<1>5. CASE job' = [job EXCEPT ![p] = [@ EXCEPT !.pc = "verify", !.seal = file.stamp]] /\ UNCHANGED owed
  <2>1. PICK j : j = [job[p] EXCEPT !.pc = "verify", !.seal = file.stamp]
    OBVIOUS
  <2>2. j.pc \in Appending /\ j.st = job[p].st
    BY <1>0, <2>1 DEF Job, Appending
  <2> QED
    BY <1>0, <1>1, <1>5, <2>1, <2>2, AheadGoes
<1> QED
  BY <1>2, <1>3, <1>4, <1>5 DEF Open, Write, Stat, Verify, Appending

\* The rebuild: its cursor is the last row there was.
LEMMA AheadRebuilds ==
  ASSUME TypeOK, IInv, Ahead, NEW p \in Procs, Render(p) \/ Replace(p) \/ Recheck(p)
  PROVE  Ahead'
<1> USE DEF environment, disk
<1>0. /\ job[p] \in Job /\ AheadOf(job[p], owed[p]) /\ UNCHANGED <<rows, sidecar>>
      /\ rows \in Seq(Line) /\ sidecar \in State
  BY DEF TypeOK, CallsType, DatabaseType, FilesType, Ahead, Render, Replace, Recheck
<1>1. CASE Render(p)
  <2>1. PICK s : job' = [job EXCEPT ![p] = [@ EXCEPT !.pc = "replace", !.lines = s, !.st = RenderedState(s)]]
    BY <1>1 DEF Render
  <2>2. PICK j : j = [job[p] EXCEPT !.pc = "replace", !.lines = s, !.st = RenderedState(s)]
    OBVIOUS
  <2>3. j.pc = "replace" /\ j.st.cursor = Len(rows)
    BY <1>0, <2>2 DEF Job, RenderedState
  <2>4. Readable(sidecar) /\ CursorAnchored(sidecar) => sidecar.cursor <= Len(rows)
    BY <1>0 DEF CursorAnchored, State
  <2>5. AheadOf(j, owed[p])
    BY <1>0, <2>3, <2>4 DEF AheadOf, Looking, Appending, Rebuilding
  <2> QED
    BY <1>0, <1>1, <2>1, <2>2, <2>5, AheadGoes DEF Render
<1>2. CASE Replace(p)
  <2>1. PICK s \in Stamps : job' = [Orphaned(job) EXCEPT ![p] = [@ EXCEPT !.pc = "recheck", !.seal = s]]
    BY <1>2 DEF Replace
  <2>2. \A q \in Procs : /\ job'[q].st = job[q].st
                         /\ job'[q].pc = IF q = p THEN "recheck" ELSE job[q].pc
    BY <2>1 DEF Orphaned, TypeOK, CallsType, Job
  <2>3. ASSUME NEW q \in Procs PROVE AheadOf(job[q], owed[q])'
    <3>1. AheadOf(job[q], owed[q]) /\ owed'[q] = owed[q]
      BY <1>2 DEF Ahead, Replace
    <3> QED
      BY <1>0, <1>2, <2>2, <3>1 DEF AheadOf, Readable, CursorAnchored, Looking, Appending, Rebuilding, Replace, At
  <2> QED
    BY <2>3 DEF Ahead
<1>3. CASE Recheck(p)
  <2>1. \A j : j.pc = "republish" /\ j.st = job[p].st => AheadOf(j, owed[p])
    BY <1>0, <1>3 DEF Recheck, At, AheadOf, Looking, Appending, Rebuilding
  <2> QED
    BY <1>0, <1>3, <2>1, AheadReturn, AheadGoto DEF Recheck
<1> QED
  BY <1>1, <1>2, <1>3

\* A new sidecar: no other projector is at work, and this one is done with it.
LEMMA AheadWrites ==
  ASSUME TypeOK, IInv, Ahead, NEW p \in Procs, holder = p, UNCHANGED rows,
         (\E result : Return(p, result)) \/ Goto(p, "rebuild")
  PROVE  Ahead'
<1>1. \A q \in Procs : q # p => job[q].pc = "idle"
  BY Alone
<1>2. job'[p].pc \in {"idle", "rebuild"} /\ owed'[p] \in {owed[p], 0}
  BY DEF Return, Goto, TypeOK, CallsType, IdleJob
<1>3. \A q \in Procs : q # p => job'[q] = job[q] /\ owed'[q] = owed[q]
  BY DEF Return, Goto, TypeOK, CallsType
<1>4. \A q \in Procs : job'[q].pc \in {"idle", "rebuild"} /\ owed'[q] \in 0..Len(rows)
  <2>1. \A q \in Procs : owed[q] \in 0..Len(rows)
    BY DEF Ahead, AheadOf
  <2>2. 0 \in 0..Len(rows)
    BY DEF TypeOK, DatabaseType
  <2> QED
    BY <1>1, <1>2, <1>3, <2>1, <2>2
<1> QED
  BY <1>4 DEF Ahead, AheadOf, Looking, Appending, Rebuilding

LEMMA AheadRecord ==
  ASSUME TypeOK, IInv, Ahead, NEW p \in Procs, NEW l \in Line, Record(p, l)
  PROVE  Ahead'
<1> USE DEF environment, disk
<1>1. /\ rows \in Seq(Line) /\ l.att \notin minted /\ rows' = Append(rows, l) /\ minted' = minted \union {l.att}
      /\ UNCHANGED <<sidecar, job>> /\ job[p].pc = "idle" /\ sidecar \in State
  BY DEF Record, Idle, TypeOK, DatabaseType, FilesType
<1>2. Len(rows') = Len(rows) + 1 /\ Len(rows) \in Nat
  BY <1>1
<1>3. CursorAnchored(sidecar)' => CursorAnchored(sidecar)
  <2>1. PICK st : st = sidecar
    OBVIOUS
  <2>2. CursorAnchored(st)' => CursorAnchored(st)
    BY <1>1, <2>1, DatabaseStep DEF IInv
  <2> QED
    BY <1>1, <2>1, <2>2 DEF CursorAnchored
<1>4. ASSUME NEW q \in Procs PROVE AheadOf(job[q], owed[q])'
  <2>1. AheadOf(job[q], owed[q])
    BY DEF Ahead
  <2>2. CASE q = p
    <3>1. owed'[q] = Len(rows) + 1
      BY <2>2 DEF Record, TypeOK, CallsType
    <3> QED
      BY <1>1, <1>2, <2>2, <3>1 DEF AheadOf, Looking, Appending, Rebuilding
  <2>3. CASE q # p
    <3>1. owed'[q] = owed[q] /\ job'[q] = job[q]
      BY <1>1, <2>3 DEF Record, TypeOK, CallsType
    <3> QED
      BY <1>1, <1>2, <1>3, <2>1, <3>1 DEF AheadOf, Readable
  <2> QED
    BY <2>2, <2>3
<1> QED
  BY <1>4 DEF Ahead

LEMMA AheadEnvironment ==
  ASSUME TypeOK, IInv, Ahead, Environment
  PROVE  Ahead'
<1> USE DEF environment, disk
<1>1. CASE \E p \in Procs : Crash(p)
  <2>1. PICK p \in Procs : Crash(p)
    BY <1>1
  <2>2. 0 \in 0..Len(rows) /\ IdleJob.pc = "idle"
    BY DEF TypeOK, DatabaseType, IdleJob
  <2>3. AheadOf(IdleJob, 0)
    BY <2>2, AheadIdle
  <2> QED
    BY <2>1, <2>3, AheadMoves DEF Crash
<1>2. CASE \E n \in 0..Len(rows) : RestoreDatabase(n)
  <2>1. PICK n \in 0..Len(rows) : RestoreDatabase(n)
    BY <1>2
  <2>2. rows' \in Seq(Line) /\ 0 \in 0..Len(rows')
    BY <2>1 DEF RestoreDatabase, TypeOK, DatabaseType
  <2>3. \A q \in Procs : owed'[q] = 0 /\ job'[q].pc = "idle"
    BY <2>1 DEF RestoreDatabase, Idle
  <2> QED
    BY <2>2, <2>3 DEF Ahead, AheadOf, Looking, Appending, Rebuilding
<1>3. CASE (\E s \in EditedLines : EditInPlace(s)) \/ (\E there, s : EditName(there, s))
  <2>1. /\ UNCHANGED <<rows, sidecar, owed>>
        /\ \A q \in Procs : job'[q].pc = job[q].pc /\ job'[q].st = job[q].st
    BY <1>3 DEF EditInPlace, EditName, Orphaned, TypeOK, CallsType, Job
  <2>2. ASSUME NEW q \in Procs PROVE AheadOf(job[q], owed[q])'
    BY <2>1 DEF Ahead, AheadOf, Readable, CursorAnchored
  <2> QED
    BY <2>2 DEF Ahead
<1>4. CASE LoseSidecar
  <2>1. UNCHANGED <<rows, owed, job>> /\ sidecar' = NoState /\ ~Readable(NoState)
    BY <1>4 DEF LoseSidecar, Readable, NoState
  <2> QED
    BY <2>1 DEF Ahead, AheadOf, Readable
<1> QED
  BY <1>1, <1>2, <1>3, <1>4 DEF Environment

LEMMA AheadStep ==
  ASSUME TypeOK, IInv, Ahead, [Next]_vars
  PROVE  Ahead'
<1>1. CASE \E p \in Procs, l \in Line : Record(p, l)
  BY <1>1, AheadRecord
<1>2. ASSUME NEW p \in Procs, Projector(p) PROVE Ahead'
  <2>1. CASE Publish(p) \/ Republish(p)
    <3>1. holder = p /\ UNCHANGED rows /\ ((\E result : Return(p, result)) \/ Goto(p, "rebuild"))
      BY <2>1 DEF Publish, Republish, At, IInv, OnlyHolderWorks, environment
    <3> QED
      BY <3>1, AheadWrites
  <2> QED
    BY <1>2, <2>1, AheadLooks, AheadAppends, AheadRebuilds DEF Projector
<1>3. CASE UNCHANGED vars
  BY <1>3 DEF vars, Ahead, AheadOf, Readable, CursorAnchored
<1> QED
  BY <1>1, <1>2, <1>3, AheadEnvironment DEF Next

-----------------------------------------------------------------------------
(* The theorems. *)

\* Types and the inductive invariant hold together: the type of a row an append
\* writes rests on the invariant.
LEMMA Inductive == Spec => [](TypeOK /\ IInv)
<1>1. Init => TypeOK /\ IInv
  BY TypeInit, InvInit
<1>2. TypeOK /\ IInv /\ [Next]_vars => (TypeOK /\ IInv)'
  BY TypeStep, InvStep
<1> QED
  BY <1>1, <1>2, PTL DEF Spec

\* Every variable of the projection of attempts.py keeps its type.
THEOREM TypeCorrect == Spec => []TypeOK
  BY Inductive, PTL

LEMMA KeepsAhead == Spec => [](TypeOK /\ IInv /\ Ahead)
<1>1. Init => Ahead
  BY AheadInit
<1>2. TypeOK /\ IInv /\ Ahead /\ [Next]_vars => Ahead'
  BY AheadStep
<1> QED
  BY <1>1, <1>2, Inductive, PTL DEF Spec

\* What a step writes to the sidecar, and what it answers.
LEMMA Writes ==
  ASSUME TypeOK, IInv, Ahead, Next, sidecar' # sidecar
  PROVE  \/ sidecar' = NoState
         \/ \E p \in Procs : Publish(p) /\ sidecar' = AppendedState(p)
         \/ \E p \in Procs : Republish(p) /\ sidecar'.cursor = job[p].st.cursor
<1>1. ASSUME NEW p \in Procs, Republish(p) PROVE sidecar'.cursor = job[p].st.cursor
  <2>1. sidecar' = [job[p].st EXCEPT !.seal = job[p].seal] /\ job[p].st \in State
    BY <1>1 DEF Republish, TypeOK, CallsType, Job
  <2> QED
    BY <2>1 DEF State
<1>2. ASSUME NEW p \in Procs, Publish(p) PROVE sidecar' = AppendedState(p)
  BY <1>2 DEF Publish
<1>3. ASSUME NEW p \in Procs, Projector(p) PROVE Publish(p) \/ Republish(p)
  <2>1. ~(LockRefused(p) \/ Lock(p) \/ Reconcile(p) \/ Inspect(p) \/ Anchor(p) \/ Select(p))
    BY DEF LockRefused, Lock, Reconcile, Inspect, Anchor, Select
  <2>2. ~(Open(p) \/ Write(p) \/ Stat(p) \/ Verify(p) \/ Fail(p) \/ AppendFails(p))
    BY DEF Open, Write, Stat, Verify, Fail, AppendFails
  <2>3. ~(Render(p) \/ Replace(p) \/ Recheck(p))
    BY DEF Render, Replace, Recheck
  <2> QED
    BY <1>3, <2>1, <2>2, <2>3 DEF Projector
<1>4. ASSUME Environment PROVE sidecar' = NoState
  BY <1>4 DEF Environment, Crash, RestoreDatabase, EditInPlace, EditName, LoseSidecar, disk
<1>5. ASSUME NEW p \in Procs, NEW l \in Line PROVE ~Record(p, l)
  BY DEF Record
<1>6. CASE \E p \in Procs : Projector(p)
  <2>1. PICK p \in Procs : Publish(p) \/ Republish(p)
    BY <1>3, <1>6
  <2> QED
    BY <1>1, <1>2, <2>1
<1> QED
  BY <1>4, <1>5, <1>6 DEF Next

\* record_attempt: "projected" is told only to a caller whose own row the
\* cursor covers, through retries, other commits, crashes and restores.
THEOREM AnswersCover == Spec => ProjectedCoversOwnRow
<1> USE DEF environment, disk
<1>1. ASSUME TypeOK, IInv, Ahead, Next, NEW p \in Procs, owed[p] # 0, owed'[p] = 0, answer' = "projected"
      PROVE  sidecar'.cursor >= owed[p] \/ job[p].st.cursor >= owed[p]
  <2>1. /\ AheadOf(job[p], owed[p]) /\ job[p].st.cursor \in Int /\ owed[p] \in Nat /\ Len(rows) \in Nat
        /\ owed[p] <= Len(rows)
    <3>1. AheadOf(job[p], owed[p]) /\ job[p] \in Job /\ rows \in Seq(Line)
      BY <1>1 DEF Ahead, TypeOK, CallsType, DatabaseType
    <3>2. owed[p] \in 0..Len(rows)
      BY <3>1 DEF AheadOf
    <3> QED
      BY <3>1, <3>2 DEF Job, State
  <2>2. PICK q \in Procs : Select(q) \/ Publish(q) \/ Republish(q)
    BY <1>1 DEF Next, Environment, Projector, Record, Crash, RestoreDatabase, EditInPlace, EditName,
         LoseSidecar, LockRefused, Lock, Reconcile, Inspect, Anchor, Open, Write, Stat, Verify,
         Render, Replace, Recheck, Fail, AppendFails, Goto, Silent, Return
  <2>3. Return(q, "projected")
    BY <1>1, <2>2 DEF Select, Publish, Republish, Goto, Silent, Return
  <2>4. q = p
    BY <1>1, <2>3 DEF Return, TypeOK, CallsType
  <2>5. CASE Select(q)
    BY <1>1, <2>1, <2>4, <2>5 DEF Select, Goto, Silent, Unseen
  <2>6. CASE Publish(q)
    <3>1. sidecar' = AppendedState(p) /\ job[p].pc = "publish"
      BY <1>1, <2>4, <2>6 DEF Publish, At, Goto, Silent
    <3> QED
      BY <2>1, <3>1 DEF AppendedState, AheadOf, Appending
  <2>7. CASE Republish(q)
    BY <2>1, <2>4, <2>7 DEF Republish, At, AheadOf, Rebuilding
  <2> QED
    BY <2>2, <2>5, <2>6, <2>7
<1>2. TypeOK /\ IInv /\ Ahead /\ [Next]_vars =>
        [\A p \in Procs : (owed[p] # 0 /\ owed'[p] = 0 /\ answer' = "projected")
             => (sidecar'.cursor >= owed[p] \/ job[p].st.cursor >= owed[p])]_vars
  BY <1>1 DEF vars
<1> QED
  BY <1>2, KeepsAhead, PTL DEF Spec, ProjectedCoversOwnRow

\* _write_state: a stale rebuild never wins.  While its anchors hold, a cursor
\* is only replaced by one that is not behind it.
THEOREM CursorsAdvance == Spec => CursorNeverFallsBack
<1> USE DEF environment, disk
<1>1. ASSUME TypeOK, IInv, Ahead, Next, Readable(sidecar), CursorMatchesAuthority(sidecar), Readable(sidecar')
      PROVE  sidecar'.cursor >= sidecar.cursor
  <2>1. sidecar \in State /\ sidecar.cursor \in Int /\ CursorAnchored(sidecar)
    BY <1>1 DEF TypeOK, FilesType, State, CursorMatchesAuthority, CursorAnchored
  <2>2. CASE sidecar' = sidecar
    BY <2>1, <2>2
  <2>3. CASE sidecar' = NoState
    BY <1>1, <2>3 DEF NoState, Readable
  <2>4. ASSUME NEW p \in Procs, Publish(p), sidecar' = AppendedState(p) PROVE sidecar'.cursor >= sidecar.cursor
    <3>1. job[p].st = sidecar
      BY <1>1, <2>4 DEF Ahead, AheadOf, Appending, Publish, At, NoState, Readable
    <3> QED
      BY <2>1, <2>4, <3>1 DEF AppendedState
  <2>5. ASSUME NEW p \in Procs, Republish(p), sidecar'.cursor = job[p].st.cursor PROVE sidecar'.cursor >= sidecar.cursor
    <3>1. sidecar.cursor <= job[p].st.cursor /\ job[p].st.cursor \in Int
      BY <1>1, <2>1, <2>5 DEF Ahead, AheadOf, Rebuilding, Republish, At, TypeOK, CallsType, Job, State
    <3> QED
      BY <2>1, <2>5, <3>1
  <2> QED
    BY <1>1, <2>2, <2>3, <2>4, <2>5, Writes
<1>2. TypeOK /\ IInv /\ Ahead /\ [Next]_vars =>
        [(Readable(sidecar) /\ CursorMatchesAuthority(sidecar) /\ Readable(sidecar'))
             => sidecar'.cursor >= sidecar.cursor]_vars
  BY <1>1 DEF vars
<1> QED
  BY <1>2, KeepsAhead, PTL DEF Spec, CursorNeverFallsBack

\* _project_attempt_locked never trusts a sidecar over a file that is not the
\* ordered projection of the rows up to its cursor, whatever was committed,
\* crashed, restored or edited before.
THEOREM Faithful == Spec => []TrustedIsFaithful
<1>1. TypeOK /\ IInv => TrustedIsFaithful
  BY DEF IInv, Sealed, TrustedIsFaithful, Trusted, CursorMatchesAuthority, CursorAnchored
<1> QED
  BY <1>1, Inductive, PTL
=============================================================================
