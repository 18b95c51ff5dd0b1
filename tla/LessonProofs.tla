--------------------------- MODULE LessonProofs ----------------------------
(* Proofs about lessons on disk and in the browser: BundleMigration, for    *)
(* every set of lessons and manifests and any number of runs, edits and     *)
(* stops; LessonLifecycle, for any titles, pages and handlers; LessonPages, *)
(* for any number of readers and changes; LessonBridge, for any requests,   *)
(* pages, versions and bounds; BundleSchema, for any ids, names and folders *)
(* a manifest is spelled with.  The last four are scenes of MCLearn, whose  *)
(* steps move one of them and leave the others alone.                       *)
EXTENDS MCLearn, FiniteSetTheorems, SequenceTheorems, TLAPS
-----------------------------------------------------------------------------
(* The scenes: what any of them does is a step, or a rest, of each module. *)

LEMMA LessonsMove == LearnSpec => L!Spec
<1>1. LearnInit => L!Init
  BY DEF LearnInit
<1>2. [LearnNext]_<<scene, ofManifest, ofLessons, ofPages, vars, ofBridge>> => [L!Next]_(L!vars)
  BY DEF LearnNext, ofLessons, L!vars
<1> QED
  BY <1>1, <1>2, PTL DEF LearnSpec, L!Spec

LEMMA PagesMove == LearnSpec => P!Spec
<1>1. LearnInit => P!Init
  BY DEF LearnInit
<1>2. [LearnNext]_<<scene, ofManifest, ofLessons, ofPages, vars, ofBridge>> => [P!Next]_(P!vars)
  BY DEF LearnNext, ofPages, P!vars
<1> QED
  BY <1>1, <1>2, PTL DEF LearnSpec, P!Spec

LEMMA BridgeMoves == LearnSpec => B!Spec
<1>1. LearnInit => B!Init
  BY DEF LearnInit
<1>2. [LearnNext]_<<scene, ofManifest, ofLessons, ofPages, vars, ofBridge>> => [B!Next]_(B!vars)
  BY DEF LearnNext, ofBridge, B!vars
<1> QED
  BY <1>1, <1>2, PTL DEF LearnSpec, B!Spec
-----------------------------------------------------------------------------
(* The migration *)

Revisions == 0 .. MaxMeddling
Written == Old \union Own
Dir == [old : [Slugs -> Old \union {None}], new : [Slugs -> Migrated \union {None}],
        copy : [Slugs -> Old \union {None}]]
Stages == {"idle", "plan", "next", "row", "look", "copy", "ledger", "replace", "sync", "restore"}
Tool == [at : Stages, slug : Slugs \union {None}, rows : [Slugs -> Revisions],
         plan : [Slugs -> Old \union {None, "noop"}], dir : Nat]

Types ==
    /\ disk \in [Slugs -> Written \union Migrated] /\ latest \in [Slugs -> Written]
    /\ meddling \in Revisions /\ row \in [Slugs -> Revisions] /\ \A s \in Slugs : row[s] <= meddling
    /\ dirs \in Seq(Dir)
    /\ tool \in Tool

\* The stages at which the tool has one bundle in hand.
InHand == tool.at \in {"row", "look", "copy", "ledger", "replace"}

\* A ledger entry names the version 1 manifest of its own copy.
EntriesWhole ==
    \A d \in DOMAIN dirs, s \in Slugs :
        dirs[d].new[s] # None => /\ dirs[d].copy[s] = dirs[d].old[s] /\ dirs[d].old[s] \in Old
                                 /\ \E r \in Revisions : dirs[d].new[s] = New(dirs[d].old[s], r)

\* What the tool knows at each stage.
Knows ==
    /\ tool.at \in {"next", "row", "look", "copy", "ledger", "replace", "sync"} => tool.dir \in DOMAIN dirs
    /\ InHand \/ tool.at = "sync" => tool.slug \in Slugs /\ Planned(tool.slug)
    \* Nothing of a planned bundle is in the directory before its turn.
    /\ tool.at \in {"next", "row", "look", "copy", "ledger", "replace", "sync"} =>
         \A s \in Slugs : Planned(s) /\ (s = tool.slug => tool.at \in {"next", "row", "look", "copy"})
             => dirs[tool.dir].new[s] = None /\ dirs[tool.dir].copy[s] = None
    /\ tool.at = "ledger" => dirs[tool.dir].new[tool.slug] = None
    /\ tool.at \in {"ledger", "replace"} => dirs[tool.dir].copy[tool.slug] = tool.plan[tool.slug]
    /\ tool.at = "replace" => /\ dirs[tool.dir].old[tool.slug] = tool.plan[tool.slug]
                              /\ dirs[tool.dir].new[tool.slug] = Planning(tool.slug)
    /\ tool.at \in {"copy", "ledger", "replace"} =>
         tool.slug \in raced \/ disk[tool.slug] = tool.plan[tool.slug]
    /\ tool.at = "restore" => /\ tool.slug \in Slugs /\ tool.dir \in DOMAIN dirs
                              /\ dirs[tool.dir].new[tool.slug] # None
                              /\ tool.slug \in raced \/ disk[tool.slug] = dirs[tool.dir].new[tool.slug]

IInv == Types /\ EntriesWhole /\ Knows /\ MigrationRestorable
-----------------------------------------------------------------------------
(* Writing in a rollback directory. *)

LEMMA SeqPut ==
  ASSUME NEW S, NEW D \in Seq(S), NEW d \in DOMAIN D, NEW q \in S, NEW E, E = [D EXCEPT ![d] = q]
  PROVE  E \in Seq(S) /\ DOMAIN E = DOMAIN D /\ E[d] = q /\ \A e \in DOMAIN D \ {d} : E[e] = D[e]
  OBVIOUS

LEMMA CopyPut ==
  ASSUME NEW D \in Seq(Dir), NEW d \in DOMAIN D, NEW s \in Slugs, NEW v \in Old,
         NEW E, E = [D EXCEPT ![d].copy[s] = v]
  PROVE  /\ E \in Seq(Dir) /\ DOMAIN E = DOMAIN D /\ E[d].copy[s] = v
         /\ \A e \in DOMAIN D : E[e].new = D[e].new /\ E[e].old = D[e].old
         /\ \A e \in DOMAIN D, t \in Slugs : (e # d \/ t # s) => E[e].copy[t] = D[e].copy[t]
<1>1. PICK q : q = [D[d] EXCEPT !.copy[s] = v]
  OBVIOUS
<1>2. D[d] \in Dir
  OBVIOUS
<1>3. q \in Dir /\ q.new = D[d].new /\ q.old = D[d].old /\ q.copy = [D[d].copy EXCEPT ![s] = v]
  BY <1>1, <1>2 DEF Dir
<1>4. q.copy[s] = v /\ \A t \in Slugs \ {s} : q.copy[t] = D[d].copy[t]
  BY <1>2, <1>3 DEF Dir
<1>5. E = [D EXCEPT ![d] = q]
  BY <1>1
<1>6. E \in Seq(Dir) /\ DOMAIN E = DOMAIN D /\ E[d] = q /\ \A e \in DOMAIN D \ {d} : E[e] = D[e]
  BY <1>3, <1>5, SeqPut
<1> QED
  BY <1>3, <1>4, <1>6

LEMMA DirOpened ==
  ASSUME NEW D \in Seq(Dir), NEW E, E = Append(D, NoDir)
  PROVE  /\ E \in Seq(Dir) /\ DOMAIN D \subseteq DOMAIN E /\ Len(D) + 1 \in DOMAIN E
         /\ DOMAIN E = DOMAIN D \union {Len(D) + 1}
         /\ \A e \in DOMAIN D : E[e] = D[e]
         /\ \A s \in Slugs : E[Len(D) + 1].new[s] = None /\ E[Len(D) + 1].copy[s] = None
<1>1. NoDir \in Dir /\ \A s \in Slugs : NoDir.new[s] = None /\ NoDir.copy[s] = None
  BY DEF NoDir, Dir, Per
<1>2. PICK n : n = NoDir
  OBVIOUS
<1>3. /\ E \in Seq(Dir) /\ DOMAIN E = 1..(Len(D) + 1) /\ DOMAIN D = 1..Len(D) /\ Len(D) \in Nat
      /\ E[Len(D) + 1] = n /\ \A e \in 1..Len(D) : E[e] = D[e]
  BY <1>1, <1>2
<1> QED
  BY <1>1, <1>2, <1>3

LEMMA NewIsMigrated ==
  ASSUME NEW o \in Old, NEW r \in Revisions
  PROVE  New(o, r) \in Migrated /\ New(o, r)[2] = o
  BY DEF New, Migrated, Revisions
-----------------------------------------------------------------------------
(* The steps that leave manifests, copies and ledgers alone. *)

LEMMA QuietStep ==
  ASSUME IInv, Files, tool' \in Tool, Knows'
  PROVE  IInv'
<1>1. UNCHANGED <<disk, row, dirs, latest, raced, meddling>>
  BY DEF Files
<1>2. Types'
  BY <1>1 DEF IInv, Types
<1>3. EntriesWhole'
  BY <1>1 DEF IInv, EntriesWhole
<1>4. MigrationRestorable'
  BY <1>1 DEF IInv, MigrationRestorable
<1> QED
  BY <1>2, <1>3, <1>4 DEF IInv

\* The tool moves to another stage.
LEMMA ToolMoved ==
  ASSUME Types, NEW at \in Stages, Goto(at)
  PROVE  /\ tool' \in Tool /\ tool'.at = at
         /\ tool'.slug = tool.slug /\ tool'.rows = tool.rows /\ tool'.plan = tool.plan /\ tool'.dir = tool.dir
  BY DEF Types, Goto, Tool

\* The tool is done with the bundle in hand.
LEMMA ToolSettled ==
  ASSUME Types, tool.slug \in Slugs, Settled
  PROVE  /\ tool' \in Tool /\ tool'.at = "next" /\ tool'.dir = tool.dir /\ tool'.plan[tool.slug] = "noop"
         /\ \A s \in Slugs \ {tool.slug} : tool'.plan[s] = tool.plan[s]
<1>1. PICK pl : pl = [tool.plan EXCEPT ![tool.slug] = "noop"]
  OBVIOUS
<1>2. pl \in [Slugs -> Old \union {None, "noop"}] /\ pl[tool.slug] = "noop" /\ \A s \in Slugs \ {tool.slug} : pl[s] = tool.plan[s]
  BY <1>1 DEF Types, Tool
<1>3. tool' = [tool EXCEPT !.at = "next", !.plan = pl]
  BY <1>1 DEF Settled, Types, Tool
<1>4. "next" \in Stages
  BY DEF Stages
<1> QED
  BY <1>2, <1>3, <1>4 DEF Types, Tool

LEMMA StepLoad ==
  ASSUME IInv, LoadLessons
  PROVE  IInv'
<1>1. tool' = [at |-> "plan", slug |-> None, rows |-> row, plan |-> Per(None), dir |-> 0] /\ Files
  BY DEF LoadLessons
<1>2. Per(None) \in [Slugs -> Old \union {None, "noop"}] /\ row \in [Slugs -> Revisions]
  BY DEF Per, IInv, Types
<1>3. tool' \in Tool /\ tool'.at = "plan"
  BY <1>1, <1>2 DEF Tool, Stages
<1>4. Knows'
  BY <1>3 DEF Knows, InHand
<1> QED
  BY <1>1, <1>3, <1>4, QuietStep

LEMMA StepPlan ==
  ASSUME IInv, NEW s \in Slugs, PlanBundle(s)
  PROVE  IInv'
<1>1. PICK q : q = IF disk[s] \in Old THEN disk[s] ELSE "noop"
  OBVIOUS
<1>2. tool.at = "plan" /\ tool' = [tool EXCEPT !.plan[s] = q] /\ Files
  BY <1>1 DEF PlanBundle
<1>3. q \in Old \union {None, "noop"}
  BY <1>1
<1>4. tool' \in Tool /\ tool'.at = "plan"
  BY <1>2, <1>3 DEF IInv, Types, Tool
<1>5. Knows'
  BY <1>4 DEF Knows, InHand
<1> QED
  BY <1>2, <1>4, <1>5, QuietStep

LEMMA StepEnd ==
  ASSUME IInv, EndRun
  PROVE  IInv'
<1>1. Goto("idle") /\ Files /\ "idle" \in Stages
  BY DEF EndRun, Stages
<1>2. tool' \in Tool /\ tool'.at = "idle"
  BY <1>1, ToolMoved DEF IInv
<1>3. Knows'
  BY <1>2 DEF Knows, InHand
<1> QED
  BY <1>1, <1>2, <1>3, QuietStep

LEMMA StepNext ==
  ASSUME IInv, NextBundle
  PROVE  IInv'
<1>1. PICK s \in Slugs : Planned(s) /\ Take(s)
  BY DEF NextBundle
<1>2. tool.at = "next" /\ Files /\ UNCHANGED <<disk, dirs, raced>>
  BY DEF NextBundle, Files
<1>3. /\ tool' \in Tool /\ tool'.at = "row" /\ tool'.slug = s
      /\ tool'.plan = tool.plan /\ tool'.dir = tool.dir
  BY <1>1 DEF Take, IInv, Types, Tool, Stages
<1>4. Knows'
  BY <1>1, <1>2, <1>3 DEF IInv, Knows, InHand, Planned
<1> QED
  BY <1>2, <1>3, <1>4, QuietStep

\* Giving up the bundle in hand, or being done with it.
LEMMA KnowsSettled ==
  ASSUME IInv, Distinct, InHand \/ tool.at = "sync", Settled, Files
  PROVE  IInv'
<1>1. tool.slug \in Slugs /\ tool.dir \in DOMAIN dirs /\ UNCHANGED dirs
  BY DEF IInv, Knows, InHand, Files
<1>2. /\ tool' \in Tool /\ tool'.at = "next" /\ tool'.dir = tool.dir /\ tool'.plan[tool.slug] = "noop"
      /\ \A s \in Slugs \ {tool.slug} : tool'.plan[s] = tool.plan[s]
  BY <1>1, ToolSettled DEF IInv
<1>3. \A s \in Slugs : Planned(s)' => s # tool.slug /\ Planned(s)
  BY <1>2 DEF Planned, Distinct
<1>4. \A s \in Slugs : Planned(s)' => dirs[tool.dir].new[s] = None /\ dirs[tool.dir].copy[s] = None
  BY <1>3 DEF IInv, Knows, InHand
<1>5. Knows'
  BY <1>1, <1>2, <1>4 DEF Knows, InHand
<1> QED
  BY <1>2, <1>5, QuietStep

LEMMA StepReread ==
  ASSUME IInv, Distinct, RereadRow
  PROVE  IInv'
<1>1. tool.at = "row" /\ Files /\ UNCHANGED <<disk, dirs, raced>>
  BY DEF RereadRow, Files
<1>2. CASE row[tool.slug] = tool.rows[tool.slug]
  <2>1. Goto("look") /\ "look" \in Stages
    BY <1>2 DEF RereadRow, Stages
  <2>2. /\ tool' \in Tool /\ tool'.at = "look" /\ tool'.slug = tool.slug
        /\ tool'.plan = tool.plan /\ tool'.dir = tool.dir
    BY <2>1, ToolMoved DEF IInv
  <2>3. Knows'
    BY <1>1, <2>2 DEF IInv, Knows, InHand, Planned
  <2> QED
    BY <1>1, <2>2, <2>3, QuietStep
<1>3. CASE row[tool.slug] # tool.rows[tool.slug]
  BY <1>1, <1>3, KnowsSettled DEF RereadRow, InHand
<1> QED
  BY <1>2, <1>3

LEMMA StepCheck ==
  ASSUME IInv, Distinct, CheckManifest
  PROVE  IInv'
<1>1. tool.at = "look" /\ Files /\ UNCHANGED <<disk, dirs, raced>>
  BY DEF CheckManifest, Files
<1>2. CASE disk[tool.slug] = tool.plan[tool.slug]
  <2>1. Goto("copy") /\ "copy" \in Stages
    BY <1>2 DEF CheckManifest, Stages
  <2>2. /\ tool' \in Tool /\ tool'.at = "copy" /\ tool'.slug = tool.slug
        /\ tool'.plan = tool.plan /\ tool'.dir = tool.dir
    BY <2>1, ToolMoved DEF IInv
  <2>3. Knows'
    BY <1>1, <1>2, <2>2 DEF IInv, Knows, InHand, Planned
  <2> QED
    BY <1>1, <2>2, <2>3, QuietStep
<1>3. CASE disk[tool.slug] # tool.plan[tool.slug]
  BY <1>1, <1>3, KnowsSettled DEF CheckManifest, InHand
<1> QED
  BY <1>2, <1>3

LEMMA StepSync ==
  ASSUME IInv, Distinct, SyncManifest
  PROVE  IInv'
  BY KnowsSettled DEF SyncManifest

LEMMA StepRollback ==
  ASSUME IInv, NEW s \in Slugs, NEW d \in DOMAIN dirs, Rollback(d, s)
  PROVE  IInv'
<1>1. /\ dirs[d].new[s] # None /\ disk[s] = dirs[d].new[s] /\ Files /\ UNCHANGED <<disk, dirs, raced>>
      /\ tool' = [tool EXCEPT !.at = "restore", !.slug = s, !.dir = d]
  BY DEF Rollback, Files
<1>2. d \in Nat
  BY DEF IInv, Types
<1>3. tool' \in Tool /\ tool'.at = "restore" /\ tool'.slug = s /\ tool'.dir = d
  BY <1>1, <1>2 DEF IInv, Types, Tool, Stages
<1>4. Knows'
  BY <1>1, <1>3 DEF Knows, InHand
<1> QED
  BY <1>1, <1>3, <1>4, QuietStep
-----------------------------------------------------------------------------
(* The steps that write. *)

\* A copy or an entry that is there stays, so what it restores can be restored.
LEMMA StillRestorable ==
  ASSUME IInv, DOMAIN dirs \subseteq DOMAIN dirs', UNCHANGED <<disk, latest, raced>>,
         \A d \in DOMAIN dirs, s \in Slugs :
            dirs[d].new[s] # None => /\ dirs'[d].new[s] = dirs[d].new[s] /\ dirs'[d].old[s] = dirs[d].old[s]
                                     /\ dirs'[d].copy[s] = dirs[d].copy[s],
         \A d \in DOMAIN dirs, s \in Slugs : dirs[d].copy[s] # None => dirs'[d].copy[s] = dirs[d].copy[s],
         Distinct
  PROVE  MigrationRestorable'
<1> SUFFICES ASSUME NEW s \in Slugs
             PROVE  /\ disk'[s] \in Migrated =>
                         \E d \in DOMAIN dirs' :
                            /\ dirs'[d].new[s] = disk'[s] /\ dirs'[d].copy[s] = dirs'[d].old[s]
                            /\ dirs'[d].old[s] = disk'[s][2]
                    /\ s \in raced' \/ latest'[s] \in {disk'[s]} \union {dirs'[d].copy[s] : d \in DOMAIN dirs'}
  BY DEF MigrationRestorable
<1>a. latest[s] # None
  BY DEF IInv, Types, Written, Distinct
<1>b. s \in raced \/ latest[s] = disk[s] \/ \E d \in DOMAIN dirs : latest[s] = dirs[d].copy[s]
  BY DEF IInv, MigrationRestorable
<1>0. s \in raced' \/ latest'[s] \in {disk'[s]} \union {dirs'[d].copy[s] : d \in DOMAIN dirs'}
  BY <1>a, <1>b
<1>1. CASE disk[s] \in Migrated
  <2>1. PICK d \in DOMAIN dirs : /\ dirs[d].new[s] = disk[s] /\ dirs[d].copy[s] = dirs[d].old[s]
                                 /\ dirs[d].old[s] = disk[s][2]
    BY <1>1 DEF IInv, MigrationRestorable
  <2>2. dirs[d].new[s] # None
    BY <1>1, <2>1 DEF Distinct
  <2>3. /\ dirs'[d].new[s] = dirs[d].new[s] /\ dirs'[d].old[s] = dirs[d].old[s]
        /\ dirs'[d].copy[s] = dirs[d].copy[s] /\ d \in DOMAIN dirs'
    BY <2>2
  <2>4. /\ dirs'[d].new[s] = disk'[s] /\ dirs'[d].copy[s] = dirs'[d].old[s] /\ dirs'[d].old[s] = disk'[s][2]
    BY <2>1, <2>3
  <2> QED
    BY <1>0, <2>3, <2>4
<1> QED
  BY <1>0, <1>1

LEMMA StepOpen ==
  ASSUME IInv, Distinct, OpenLedger
  PROVE  IInv'
<1>1. UNCHANGED <<disk, row, latest, raced, meddling>>
  BY DEF OpenLedger
<1>2. CASE \E s \in Slugs : tool.plan[s] \in Old
  <2>1. dirs' = Append(dirs, NoDir) /\ tool' = [tool EXCEPT !.at = "next", !.dir = Len(dirs) + 1]
    BY <1>2 DEF OpenLedger
  <2>2. dirs \in Seq(Dir) /\ Len(dirs) + 1 \in Nat
    BY DEF IInv, Types
  <2>3. /\ dirs' \in Seq(Dir) /\ DOMAIN dirs \subseteq DOMAIN dirs' /\ Len(dirs) + 1 \in DOMAIN dirs'
        /\ DOMAIN dirs' = DOMAIN dirs \union {Len(dirs) + 1} /\ \A e \in DOMAIN dirs : dirs'[e] = dirs[e]
        /\ \A s \in Slugs : dirs'[Len(dirs) + 1].new[s] = None /\ dirs'[Len(dirs) + 1].copy[s] = None
    BY <2>1, <2>2, DirOpened
  <2>4. tool' \in Tool /\ tool'.at = "next" /\ tool'.dir = Len(dirs) + 1
    BY <2>1, <2>2 DEF IInv, Types, Tool, Stages
  <2>5. Types'
    BY <1>1, <2>3, <2>4 DEF IInv, Types
  <2>6. EntriesWhole'
    BY <2>3 DEF IInv, EntriesWhole
  <2>7. Knows'
    BY <2>3, <2>4 DEF Knows, InHand
  <2>8. MigrationRestorable'
    BY <1>1, <2>3, StillRestorable
  <2> QED
    BY <2>5, <2>6, <2>7, <2>8 DEF IInv
<1>3. CASE ~\E s \in Slugs : tool.plan[s] \in Old
  <2>1. Files /\ Goto("idle") /\ "idle" \in Stages
    BY <1>1, <1>3 DEF OpenLedger, Files, Stages
  <2>2. tool' \in Tool /\ tool'.at = "idle"
    BY <2>1, ToolMoved DEF IInv
  <2>3. Knows'
    BY <2>2 DEF Knows, InHand
  <2> QED
    BY <2>1, <2>2, <2>3, QuietStep
<1> QED
  BY <1>2, <1>3

LEMMA StepCopy ==
  ASSUME IInv, Distinct, SaveCopy
  PROVE  IInv'
<1>1. PICK s, d, v : s = tool.slug /\ d = tool.dir /\ v = tool.plan[s]
  OBVIOUS
<1>2. /\ tool.at = "copy" /\ dirs' = [dirs EXCEPT ![d].copy[s] = v] /\ Goto("ledger") /\ "ledger" \in Stages
      /\ UNCHANGED <<disk, row, latest, raced, meddling>>
  BY <1>1 DEF SaveCopy, Stages
<1>3. /\ s \in Slugs /\ d \in DOMAIN dirs /\ v \in Old /\ dirs \in Seq(Dir)
      /\ dirs[d].new[s] = None /\ dirs[d].copy[s] = None
  BY <1>1, <1>2 DEF IInv, Types, Knows, InHand, Planned
<1>4. /\ dirs' \in Seq(Dir) /\ DOMAIN dirs' = DOMAIN dirs /\ dirs'[d].copy[s] = v
      /\ \A e \in DOMAIN dirs : dirs'[e].new = dirs[e].new /\ dirs'[e].old = dirs[e].old
      /\ \A e \in DOMAIN dirs, t \in Slugs : (e # d \/ t # s) => dirs'[e].copy[t] = dirs[e].copy[t]
  <2>1. PICK E : E = dirs'
    OBVIOUS
  <2>2. E = [dirs EXCEPT ![d].copy[s] = v]
    BY <1>2, <2>1
  <2> QED
    BY <1>3, <2>1, <2>2, CopyPut
<1>5. /\ tool' \in Tool /\ tool'.at = "ledger" /\ tool'.slug = s /\ tool'.plan = tool.plan /\ tool'.dir = d
  BY <1>1, <1>2, ToolMoved DEF IInv
<1>6. Types'
  BY <1>2, <1>4, <1>5 DEF IInv, Types
<1>7. \A e \in DOMAIN dirs, t \in Slugs : dirs[e].new[t] # None => dirs'[e].copy[t] = dirs[e].copy[t]
  BY <1>3, <1>4
<1>8. EntriesWhole'
  BY <1>4, <1>7 DEF IInv, EntriesWhole
<1>9. \A t \in Slugs : Planned(t) /\ t # s => dirs'[d].new[t] = None /\ dirs'[d].copy[t] = None
  BY <1>1, <1>2, <1>3, <1>4 DEF IInv, Knows
<1>10. s \in raced \/ disk[s] = v
  BY <1>1, <1>2 DEF IInv, Knows
<1>11. Knows'
  BY <1>1, <1>2, <1>3, <1>4, <1>5, <1>9, <1>10 DEF Knows, InHand, Planned
<1>12. \A e \in DOMAIN dirs, t \in Slugs : dirs[e].copy[t] # None => dirs'[e].copy[t] = dirs[e].copy[t]
  BY <1>3, <1>4
<1>13. MigrationRestorable'
  BY <1>2, <1>4, <1>7, <1>12, StillRestorable
<1> QED
  BY <1>6, <1>8, <1>11, <1>13 DEF IInv

LEMMA StepLedger ==
  ASSUME IInv, Distinct, EnterLedger
  PROVE  IInv'
<1>1. PICK s, d, v, n : s = tool.slug /\ d = tool.dir /\ v = tool.plan[s] /\ n = Planning(s)
  OBVIOUS
<1>2. /\ tool.at = "ledger" /\ dirs' = [dirs EXCEPT ![d].old[s] = v, ![d].new[s] = n]
      /\ Goto("replace") /\ "replace" \in Stages
      /\ UNCHANGED <<disk, row, latest, raced, meddling>>
  BY <1>1 DEF EnterLedger, Stages
<1>3. /\ s \in Slugs /\ d \in DOMAIN dirs /\ v \in Old /\ dirs \in Seq(Dir)
      /\ dirs[d].new[s] = None /\ dirs[d].copy[s] = v
  BY <1>1, <1>2 DEF IInv, Types, Knows, InHand, Planned
<1>4. PICK rev \in Revisions : n = New(v, rev)
  BY <1>1, <1>3 DEF Planning, IInv, Types, Tool
<1>5. n \in Migrated
  BY <1>3, <1>4, NewIsMigrated
<1>6. /\ dirs' \in Seq(Dir) /\ DOMAIN dirs' = DOMAIN dirs /\ dirs'[d].old[s] = v /\ dirs'[d].new[s] = n
      /\ \A e \in DOMAIN dirs : dirs'[e].copy = dirs[e].copy
      /\ \A e \in DOMAIN dirs, t \in Slugs :
            (e # d \/ t # s) => dirs'[e].old[t] = dirs[e].old[t] /\ dirs'[e].new[t] = dirs[e].new[t]
  <2>1. PICK E : E = dirs'
    OBVIOUS
  <2>2. PICK q : q = [dirs[d] EXCEPT !.old[s] = v, !.new[s] = n]
    OBVIOUS
  <2>3. E = [dirs EXCEPT ![d] = q]
    BY <1>2, <2>1, <2>2
  <2>4. PICK r \in Dir : r = dirs[d]
    BY <1>3
  <2>5. q = [r EXCEPT !.old[s] = v, !.new[s] = n]
    BY <2>2, <2>4
  <2>6. /\ q \in Dir /\ q.copy = r.copy /\ q.old[s] = v /\ q.new[s] = n
        /\ \A t \in Slugs \ {s} : q.old[t] = r.old[t] /\ q.new[t] = r.new[t]
    <3>1. /\ q \in Dir /\ q.copy = r.copy
          /\ q.old = [r.old EXCEPT ![s] = v] /\ q.new = [r.new EXCEPT ![s] = n]
      BY <1>3, <1>5, <2>5 DEF Dir
    <3> QED
      BY <1>3, <3>1 DEF Dir
  <2>7. E \in Seq(Dir) /\ DOMAIN E = DOMAIN dirs /\ E[d] = q /\ \A e \in DOMAIN dirs \ {d} : E[e] = dirs[e]
    BY <1>3, <2>3, <2>6, SeqPut
  <2> QED
    BY <2>1, <2>4, <2>6, <2>7
<1>7. /\ tool' \in Tool /\ tool'.at = "replace" /\ tool'.slug = s /\ tool'.plan = tool.plan
      /\ tool'.dir = d /\ tool'.rows = tool.rows
  BY <1>1, <1>2, ToolMoved DEF IInv
<1>8. Types'
  BY <1>2, <1>6, <1>7 DEF IInv, Types
<1>9. EntriesWhole'
  <2> SUFFICES ASSUME NEW e \in DOMAIN dirs, NEW t \in Slugs, dirs'[e].new[t] # None
               PROVE  /\ dirs'[e].copy[t] = dirs'[e].old[t] /\ dirs'[e].old[t] \in Old
                      /\ \E q \in Revisions : dirs'[e].new[t] = New(dirs'[e].old[t], q)
    BY <1>6 DEF EntriesWhole
  <2>1. CASE e = d /\ t = s
    BY <1>3, <1>4, <1>6, <2>1
  <2>2. CASE e # d \/ t # s
    BY <1>6, <2>2 DEF IInv, EntriesWhole
  <2> QED
    BY <2>1, <2>2
<1>10. \A t \in Slugs : Planned(t) /\ t # s => dirs'[d].new[t] = None /\ dirs'[d].copy[t] = None
  <2>1. \A t \in Slugs : Planned(t) /\ t # s => dirs[d].new[t] = None /\ dirs[d].copy[t] = None
    BY <1>1, <1>2 DEF IInv, Knows
  <2> QED
    BY <1>3, <1>6, <2>1
<1>11. s \in raced \/ disk[s] = v
  BY <1>1, <1>2 DEF IInv, Knows
<1>12. Planning(s)' = n
  BY <1>1, <1>7 DEF Planning
<1>13. Knows'
  BY <1>1, <1>2, <1>3, <1>6, <1>7, <1>10, <1>11, <1>12 DEF Knows, InHand, Planned
<1>14. \A e \in DOMAIN dirs, t \in Slugs :
          dirs[e].new[t] # None => /\ dirs'[e].new[t] = dirs[e].new[t] /\ dirs'[e].old[t] = dirs[e].old[t]
                                   /\ dirs'[e].copy[t] = dirs[e].copy[t]
  BY <1>3, <1>6
<1>15. MigrationRestorable'
  BY <1>2, <1>6, <1>14, StillRestorable
<1> QED
  BY <1>8, <1>9, <1>13, <1>15 DEF IInv

\* A manifest is replaced, and what the agent wrote last is on disk or in a copy.
LEMMA StepReplace ==
  ASSUME IInv, Distinct, ReplaceManifest
  PROVE  IInv'
<1>1. PICK s, d, v, n : s = tool.slug /\ d = tool.dir /\ v = tool.plan[s] /\ n = Planning(s)
  OBVIOUS
<1>2. /\ tool.at = "replace" /\ disk' = [disk EXCEPT ![s] = n] /\ Goto("sync") /\ "sync" \in Stages
      /\ UNCHANGED <<row, dirs, latest, raced, meddling>>
  BY <1>1 DEF ReplaceManifest, Stages
<1>3. /\ s \in Slugs /\ d \in DOMAIN dirs /\ v \in Old /\ dirs[d].copy[s] = v
      /\ dirs[d].old[s] = v /\ dirs[d].new[s] = n /\ (s \in raced \/ disk[s] = v)
  BY <1>1, <1>2 DEF IInv, Knows, InHand, Planned
<1>4. PICK r \in Revisions : n = New(v, r)
  BY <1>1, <1>3 DEF Planning, IInv, Types, Tool
<1>5. n \in Migrated /\ n[2] = v
  BY <1>3, <1>4, NewIsMigrated
<1>6. /\ disk' \in [Slugs -> Written \union Migrated] /\ disk'[s] = n
      /\ \A t \in Slugs \ {s} : disk'[t] = disk[t]
  <2>1. disk \in [Slugs -> Written \union Migrated] /\ n \in Written \union Migrated
    BY <1>5 DEF IInv, Types
  <2> QED
    BY <1>2, <1>3, <2>1
<1>7. tool' \in Tool /\ tool'.at = "sync" /\ tool'.slug = s /\ tool'.plan = tool.plan /\ tool'.dir = d
  BY <1>1, <1>2, ToolMoved DEF IInv
<1>8. Types'
  BY <1>2, <1>6, <1>7 DEF IInv, Types
<1>9. EntriesWhole'
  BY <1>2 DEF IInv, EntriesWhole
<1>10. \A t \in Slugs : Planned(t) /\ t # s => dirs[d].new[t] = None /\ dirs[d].copy[t] = None
  BY <1>1, <1>2 DEF IInv, Knows
<1>11. Knows'
  BY <1>1, <1>2, <1>3, <1>7, <1>10 DEF Knows, InHand, Planned
<1>12. ASSUME NEW t \in Slugs
       PROVE  /\ disk'[t] \in Migrated =>
                   \E e \in DOMAIN dirs' :
                      /\ dirs'[e].new[t] = disk'[t] /\ dirs'[e].copy[t] = dirs'[e].old[t]
                      /\ dirs'[e].old[t] = disk'[t][2]
              /\ t \in raced' \/ latest'[t] \in {disk'[t]} \union {dirs'[e].copy[t] : e \in DOMAIN dirs'}
  <2>1. CASE t = s
    <3>1. dirs[d].new[s] = disk'[s] /\ dirs[d].copy[s] = dirs[d].old[s] /\ dirs[d].old[s] = disk'[s][2]
      BY <1>3, <1>5, <1>6
    <3>2. s \in raced \/ latest[s] \in {v} \union {dirs[e].copy[s] : e \in DOMAIN dirs}
      BY <1>3 DEF IInv, MigrationRestorable
    <3>3. s \in raced \/ latest[s] \in {dirs[e].copy[s] : e \in DOMAIN dirs}
      BY <1>3, <3>2
    <3> QED
      BY <1>2, <1>3, <2>1, <3>1, <3>3
  <2>2. CASE t # s
    BY <1>2, <1>6, <2>2 DEF IInv, MigrationRestorable
  <2> QED
    BY <2>1, <2>2
<1>13. MigrationRestorable'
  BY <1>12 DEF MigrationRestorable
<1> QED
  BY <1>8, <1>9, <1>11, <1>13 DEF IInv

\* The manifest of s becomes one the tool did not make, while every copy stays.
LEMMA OldAgain ==
  ASSUME IInv, Distinct, NEW s \in Slugs, NEW m \in Old, disk' = [disk EXCEPT ![s] = m],
         s \in raced \/ disk[s] \in Migrated, UNCHANGED <<dirs, latest, raced>>
  PROVE  MigrationRestorable' /\ disk' \in [Slugs -> Written \union Migrated]
<1>1. /\ disk' \in [Slugs -> Written \union Migrated] /\ disk'[s] = m
      /\ \A t \in Slugs \ {s} : disk'[t] = disk[t]
  BY DEF IInv, Types, Written
<1>2. ASSUME NEW t \in Slugs
      PROVE  /\ disk'[t] \in Migrated =>
                  \E e \in DOMAIN dirs' :
                     /\ dirs'[e].new[t] = disk'[t] /\ dirs'[e].copy[t] = dirs'[e].old[t]
                     /\ dirs'[e].old[t] = disk'[t][2]
             /\ t \in raced' \/ latest'[t] \in {disk'[t]} \union {dirs'[e].copy[t] : e \in DOMAIN dirs'}
  <2>1. CASE t = s
    <3>1. disk'[s] \notin Migrated
      BY <1>1 DEF Distinct
    <3>2. latest[s] \notin Migrated
      BY DEF IInv, Types, Written, Distinct
    <3>3. s \in raced \/ latest[s] \in {dirs[e].copy[s] : e \in DOMAIN dirs}
      BY <3>2 DEF IInv, MigrationRestorable
    <3> QED
      BY <2>1, <3>1, <3>3
  <2>2. CASE t # s
    BY <1>1, <2>2 DEF IInv, MigrationRestorable
  <2> QED
    BY <2>1, <2>2
<1> QED
  BY <1>1, <1>2 DEF MigrationRestorable

LEMMA StepRestore ==
  ASSUME IInv, Distinct, Restore
  PROVE  IInv'
<1>1. PICK s, d, v : s = tool.slug /\ d = tool.dir /\ v = dirs[d].copy[s]
  OBVIOUS
<1>2. /\ tool.at = "restore" /\ disk' = [disk EXCEPT ![s] = v] /\ Goto("idle") /\ "idle" \in Stages
      /\ UNCHANGED <<row, dirs, latest, raced, meddling>>
  BY <1>1 DEF Restore, Stages
<1>3. /\ s \in Slugs /\ d \in DOMAIN dirs /\ dirs[d].new[s] # None
      /\ s \in raced \/ disk[s] = dirs[d].new[s]
  BY <1>1, <1>2 DEF IInv, Knows
<1>4. v \in Old /\ dirs[d].new[s] \in Migrated
  <2>1. dirs[d] \in Dir
    BY <1>3 DEF IInv, Types
  <2>2. dirs[d].new[s] \in Migrated
    BY <1>3, <2>1 DEF Dir
  <2> QED
    BY <1>1, <1>3, <2>2 DEF IInv, EntriesWhole
<1>5. MigrationRestorable' /\ disk' \in [Slugs -> Written \union Migrated]
  BY <1>2, <1>3, <1>4, OldAgain
<1>6. tool' \in Tool /\ tool'.at = "idle"
  BY <1>2, ToolMoved DEF IInv
<1>7. Types'
  BY <1>2, <1>5, <1>6 DEF IInv, Types
<1>8. EntriesWhole'
  BY <1>2 DEF IInv, EntriesWhole
<1>9. Knows'
  BY <1>6 DEF Knows, InHand
<1> QED
  BY <1>5, <1>7, <1>8, <1>9 DEF IInv

LEMMA Meddled ==
  ASSUME IInv, Distinct, Meddle
  PROVE  meddling' \in Revisions /\ \A s \in Slugs : row[s] <= meddling' /\ row[s] + 1 <= meddling'
  BY DEF IInv, Types, Distinct, Meddle, Revisions

LEMMA StepAgent ==
  ASSUME IInv, Distinct, NEW s \in Slugs, AgentWrites(s)
  PROVE  IInv'
<1>1. PICK m \in Written : disk' = [disk EXCEPT ![s] = m] /\ latest' = [latest EXCEPT ![s] = m]
  BY DEF AgentWrites, Written
<1>2. /\ Meddle /\ UNCHANGED <<row, dirs, tool>>
      /\ raced' = IF Exposed(s) THEN raced \union {s} ELSE raced \ {s}
  BY DEF AgentWrites
<1>3. /\ disk \in [Slugs -> Written \union Migrated] /\ latest \in [Slugs -> Written]
      /\ m \in Written \union Migrated
  BY <1>1 DEF IInv, Types
<1>4. /\ disk' \in [Slugs -> Written \union Migrated] /\ latest' \in [Slugs -> Written]
      /\ disk'[s] = m /\ latest'[s] = m
      /\ \A t \in Slugs \ {s} : disk'[t] = disk[t] /\ latest'[t] = latest[t] /\ (t \in raced' <=> t \in raced)
  BY <1>1, <1>2, <1>3
<1>5. Types'
  BY <1>2, <1>4, Meddled DEF IInv, Types
<1>6. EntriesWhole'
  BY <1>2 DEF IInv, EntriesWhole
<1>7. m \notin Migrated
  BY DEF Written, Distinct
<1>8. MigrationRestorable'
  <2> SUFFICES ASSUME NEW t \in Slugs
               PROVE  /\ disk'[t] \in Migrated =>
                           \E e \in DOMAIN dirs' :
                              /\ dirs'[e].new[t] = disk'[t] /\ dirs'[e].copy[t] = dirs'[e].old[t]
                              /\ dirs'[e].old[t] = disk'[t][2]
                      /\ t \in raced' \/ latest'[t] \in {disk'[t]} \union {dirs'[e].copy[t] : e \in DOMAIN dirs'}
    BY DEF MigrationRestorable
  <2>1. CASE t = s
    BY <1>4, <1>7, <2>1
  <2>2. CASE t # s
    BY <1>2, <1>4, <2>2 DEF IInv, MigrationRestorable
  <2> QED
    BY <2>1, <2>2
<1>9. ASSUME tool.at \in {"copy", "ledger", "replace", "restore"}
      PROVE  \/ tool.slug \in raced'
             \/ tool.slug \notin raced /\ disk'[tool.slug] = disk[tool.slug]
  <2>1. tool.slug \in Slugs
    BY <1>9 DEF IInv, Knows, InHand
  <2>2. CASE tool.slug = s
    BY <1>2, <1>9, <2>2 DEF Exposed
  <2>3. CASE tool.slug # s
    BY <1>4, <2>1, <2>3
  <2> QED
    BY <2>2, <2>3
<1>10. /\ tool.at \in {"copy", "ledger", "replace"} =>
             tool.slug \in raced' \/ disk'[tool.slug] = tool.plan[tool.slug]
       /\ tool.at = "restore" => tool.slug \in raced' \/ disk'[tool.slug] = dirs[tool.dir].new[tool.slug]
  BY <1>9 DEF IInv, Knows
<1>11. Knows'
  BY <1>2, <1>10 DEF IInv, Knows, InHand, Planned, Planning
<1> QED
  BY <1>5, <1>6, <1>8, <1>11 DEF IInv

LEMMA StepRow ==
  ASSUME IInv, Distinct, NEW s \in Slugs, RowChanges(s)
  PROVE  IInv'
<1>1. Meddle /\ row' = [row EXCEPT ![s] = @ + 1] /\ UNCHANGED <<disk, dirs, tool, latest, raced>>
  BY DEF RowChanges
<1>2. row \in [Slugs -> Revisions] /\ \A t \in Slugs : row[t] <= meddling' /\ row[t] + 1 <= meddling'
  BY <1>1, Meddled DEF IInv, Types
<1>3. meddling' \in Revisions
  BY <1>1, Meddled
<1>4. row[s] + 1 \in Revisions
  BY <1>2, <1>3, Distinct DEF Revisions, Distinct
<1>5. row' \in [Slugs -> Revisions] /\ \A t \in Slugs : row'[t] <= meddling'
  BY <1>1, <1>2, <1>4
<1>6. Types'
  BY <1>1, <1>3, <1>5 DEF IInv, Types
<1>7. EntriesWhole' /\ Knows' /\ MigrationRestorable'
  BY <1>1 DEF IInv, EntriesWhole, Knows, InHand, Planned, Planning, MigrationRestorable
<1> QED
  BY <1>6, <1>7 DEF IInv

LEMMA StepStop ==
  ASSUME IInv, Distinct, Stop
  PROVE  IInv'
<1>1. Meddle /\ Goto("idle") /\ "idle" \in Stages /\ UNCHANGED <<row, dirs, latest, raced>>
  BY DEF Stop, Stages
<1>2. tool' \in Tool /\ tool'.at = "idle"
  BY <1>1, ToolMoved DEF IInv
<1>3. MigrationRestorable' /\ disk' \in [Slugs -> Written \union Migrated]
  <2>1. CASE disk' = disk
    BY <1>1, <2>1 DEF IInv, Types, MigrationRestorable
  <2>2. CASE /\ tool.at = "sync" /\ disk[tool.slug] = Planning(tool.slug)
             /\ disk' = [disk EXCEPT ![tool.slug] = tool.plan[tool.slug]]
    <3>1. tool.slug \in Slugs /\ tool.plan[tool.slug] \in Old
      BY <2>2 DEF IInv, Knows, Planned
    <3>2. tool.rows[tool.slug] \in Revisions
      BY <3>1 DEF IInv, Types, Tool
    <3>3. disk[tool.slug] \in Migrated
      BY <2>2, <3>1, <3>2, NewIsMigrated DEF Planning
    <3> QED
      BY <1>1, <2>2, <3>1, <3>3, OldAgain
  <2> QED
    BY <2>1, <2>2 DEF Stop
<1>4. Types'
  BY <1>1, <1>2, <1>3, Meddled DEF IInv, Types
<1>5. EntriesWhole'
  BY <1>1 DEF IInv, EntriesWhole
<1>6. Knows'
  BY <1>2 DEF Knows, InHand
<1> QED
  BY <1>3, <1>4, <1>5, <1>6 DEF IInv

LEMMA StepKeeps == Distinct /\ IInv /\ [Next]_vars => IInv'
<1> SUFFICES ASSUME Distinct, IInv, [Next]_vars PROVE IInv'
  OBVIOUS
<1>1. CASE UNCHANGED vars
  BY <1>1 DEF vars, IInv, Types, EntriesWhole, Knows, InHand, Planned, Planning, MigrationRestorable
<1>2. CASE LoadLessons \/ OpenLedger \/ NextBundle \/ EndRun \/ RereadRow \/ CheckManifest
  BY <1>2, StepLoad, StepOpen, StepNext, StepEnd, StepReread, StepCheck
<1>3. CASE SaveCopy \/ EnterLedger \/ ReplaceManifest \/ SyncManifest \/ Restore \/ Stop
  BY <1>3, StepCopy, StepLedger, StepReplace, StepSync, StepRestore, StepStop
<1>4. CASE \E s \in Slugs : PlanBundle(s) \/ AgentWrites(s) \/ RowChanges(s) \/ \E d \in DOMAIN dirs : Rollback(d, s)
  BY <1>4, StepPlan, StepAgent, StepRow, StepRollback
<1> QED
  BY <1>1, <1>2, <1>3, <1>4 DEF Next

LEMMA Start == Distinct /\ Init => IInv
<1> SUFFICES ASSUME Distinct, Init PROVE IInv
  OBVIOUS
<1>1. disk \in [Slugs -> Old] /\ latest = disk /\ row = Per(0) /\ dirs = <<>> /\ meddling = 0
  BY DEF Init
<1>2. Per(0) \in [Slugs -> Revisions] /\ 0 \in Revisions /\ \A s \in Slugs : Per(0)[s] = 0
  BY DEF Per, Revisions, Distinct
<1>3. Per(None) \in [Slugs -> Old \union {None, "noop"}]
  BY DEF Per
<1>4. tool \in Tool /\ tool.at = "idle"
  BY <1>1, <1>2, <1>3 DEF Init, Tool, Stages
<1>5. Types
  BY <1>1, <1>2, <1>4 DEF Types, Written
<1>6. EntriesWhole
  BY <1>1 DEF EntriesWhole
<1>7. Knows
  BY <1>4 DEF Knows, InHand
<1>8. \A s \in Slugs : disk[s] \notin Migrated /\ latest[s] = disk[s]
  BY <1>1 DEF Distinct
<1>9. MigrationRestorable
  BY <1>8 DEF MigrationRestorable
<1> QED
  BY <1>5, <1>6, <1>7, <1>9 DEF IInv
-----------------------------------------------------------------------------
(* The theorem. *)

\* migrate_bundles.py: wherever a run stops, a manifest that the tool wrote can
\* be rolled back to the version 1 it was made from, and what the agent wrote
\* last is on disk or in a copy, except in the window before the rename.
THEOREM AlwaysRestorable == Spec => []MigrationRestorable
<1>1. IInv => MigrationRestorable
  BY DEF IInv
<1>2. Init => IInv
  BY LearnConstants, Start
<1>3. IInv /\ [Next]_vars => IInv'
  BY LearnConstants, StepKeeps
<1> QED
  BY <1>1, <1>2, <1>3, PTL DEF Spec
-----------------------------------------------------------------------------
(* Lesson rows *)

IsSeq(s) == s \in Seq({s[i] : i \in DOMAIN s})

RowFields == {"slug", "status", "started", "completed", "archived", "entry"}
CallFields == {"by", "op", "id", "row", "arg", "at", "ts", "slug"}

\* Newest of LessonLifecycle, of a given journal; and the events of two kinds.
NewestIn(j, k, kinds) ==
    /\ j[k].kind \in kinds
    /\ \A i \in DOMAIN j : i > k => ~(j[i].id = j[k].id /\ j[i].kind \in kinds)
OfStatus == {"created", "status"}
OfMark == {"created", "archived", "restored"}

Upto(stamp, now) == stamp # None => stamp \in Nat /\ stamp <= now

RowHonest(r, now) ==
    /\ DOMAIN r = RowFields /\ r.status \in L!Statuses /\ r.archived \in BOOLEAN
    /\ Upto(r.started, now)
    /\ r.started = None <=> r.status = "backlog"
    /\ IF r.status = "studied" THEN r.completed \in Nat /\ r.started <= r.completed ELSE r.completed = None

\* A handler past its insert has a lesson; one that sets a status holds
\* stamps that were taken no later than it was called.
CallHonest(c, ids, now) ==
    /\ DOMAIN c = CallFields
    /\ IF c.at = "insert" THEN c.op = "create" ELSE c.id \in ids
    /\ c.op = "status" => /\ c.arg \in L!Statuses /\ c.ts \in Nat /\ c.ts <= now
                          /\ Upto(c.row.started, c.ts)

Rows ==
    /\ clock \in Nat /\ IsSeq(lessons)
    /\ \A i \in DOMAIN lessons : RowHonest(lessons[i], clock)
    /\ \A i, j \in DOMAIN lessons : lessons[i].slug = lessons[j].slug => i = j

Told ==
    /\ IsSeq(journal)
    /\ \A i \in DOMAIN lessons : \E k \in DOMAIN journal : journal[k].id = i /\ journal[k].kind = "created"
    /\ \A k \in DOMAIN journal :
        /\ journal[k].id \in DOMAIN lessons
        /\ NewestIn(journal, k, OfStatus) => journal[k].what = lessons[journal[k].id].status
        /\ NewestIn(journal, k, OfMark) =>
             (lessons[journal[k].id].archived <=> journal[k].kind = "archived")

Handlers == \A c \in calls : CallHonest(c, DOMAIN lessons, clock)

LInv == Rows /\ Told /\ Handlers

LEMMA Appends ==
  ASSUME NEW s, IsSeq(s), NEW e
  PROVE  \E n \in Nat :
           /\ n = Len(s) /\ DOMAIN s = 1 .. n /\ DOMAIN Append(s, e) = 1 .. n + 1
           /\ IsSeq(Append(s, e)) /\ Append(s, e)[n + 1] = e
           /\ \A i \in DOMAIN s : Append(s, e)[i] = s[i]
<1>1. PICK S : S = {s[i] : i \in DOMAIN s} \union {e}
  OBVIOUS
<1>2. s \in Seq(S) /\ e \in S
  <2>1. PICK T : T = {s[i] : i \in DOMAIN s}
    OBVIOUS
  <2>2. s \in Seq(T) /\ T \subseteq S
    BY <1>1, <2>1 DEF IsSeq
  <2>3. PICK n \in Nat : s \in [1 .. n -> T]
    BY <2>2
  <2>4. s \in [1 .. n -> S]
    BY <2>2, <2>3
  <2> QED
    BY <1>1, <2>4
<1>3. PICK n \in Nat : n = Len(s) /\ DOMAIN s = 1 .. n
  BY <1>2
<1>4. PICK t : t = Append(s, e)
  OBVIOUS
<1>5. /\ t \in Seq(S) /\ DOMAIN t = 1 .. n + 1 /\ t[n + 1] = e
      /\ \A i \in DOMAIN s : t[i] = s[i]
  BY <1>2, <1>3, <1>4
<1>6. IsSeq(t)
  <2>1. PICK U : U = {t[i] : i \in DOMAIN t}
    OBVIOUS
  <2>2. PICK m \in Nat : m = n + 1
    BY <1>3
  <2>3. t \in [1 .. m -> S]
    BY <1>5, <2>2
  <2>4. t \in [1 .. m -> U]
    BY <1>5, <2>1, <2>2, <2>3
  <2>5. t \in Seq(U)
    BY <2>4
  <2> QED
    BY <2>1, <2>5 DEF IsSeq
<1> QED
  BY <1>3, <1>4, <1>5, <1>6

\* A new event is the newest of its kinds about its lesson, and leaves the
\* newest about the others.
LEMMA Tells ==
  ASSUME IsSeq(journal), NEW e, journal' = Append(journal, e), NEW kinds
  PROVE  /\ IsSeq(journal')
         /\ \E n \in DOMAIN journal' :
              /\ journal'[n] = e
              /\ DOMAIN journal' = DOMAIN journal \union {n} /\ n \notin DOMAIN journal
              /\ \A k \in DOMAIN journal : journal'[k] = journal[k]
              /\ \A k \in DOMAIN journal :
                   NewestIn(journal', k, kinds) => /\ NewestIn(journal, k, kinds)
                                          /\ ~(e.id = journal[k].id /\ e.kind \in kinds)
<1>1. PICK n \in Nat :
           /\ DOMAIN journal = 1 .. n /\ DOMAIN journal' = 1 .. n + 1
           /\ IsSeq(journal') /\ journal'[n + 1] = e
           /\ \A i \in DOMAIN journal : journal'[i] = journal[i]
  BY Appends
<1>2. PICK m \in Nat : m = n + 1
  OBVIOUS
<1>3. m \in DOMAIN journal' /\ DOMAIN journal' = DOMAIN journal \union {m} /\ m \notin DOMAIN journal
  BY <1>1, <1>2
<1>4. ASSUME NEW k \in DOMAIN journal, NewestIn(journal', k, kinds)
      PROVE  NewestIn(journal, k, kinds) /\ ~(e.id = journal[k].id /\ e.kind \in kinds)
  <2>1. /\ journal'[k].kind \in kinds
        /\ \A j \in DOMAIN journal' : j > k => ~(journal'[j].id = journal'[k].id /\ journal'[j].kind \in kinds)
    BY <1>4 DEF NewestIn
  <2>2. \A j \in DOMAIN journal : j > k => ~(journal[j].id = journal[k].id /\ journal[j].kind \in kinds)
    BY <1>1, <1>3, <2>1
  <2>3. m > k
    BY <1>1, <1>2
  <2>4. ~(e.id = journal[k].id /\ e.kind \in kinds)
    BY <1>1, <1>2, <1>3, <2>1, <2>3
  <2> QED
    BY <1>1, <2>1, <2>2, <2>4 DEF NewestIn
<1> QED
  BY <1>1, <1>2, <1>3, <1>4

\* A write of one row with its event.
LEMMA Writes ==
  ASSUME LInv, clock' = clock, NEW c \in calls, c.id \in DOMAIN lessons, NEW made, RowHonest(made, clock),
         NEW kind, NEW what, made.slug = lessons[c.id].slug, L!Write(c, made, kind, what),
         \/ kind = "status" /\ what = made.status /\ made.archived = lessons[c.id].archived
         \/ kind = "archived" /\ made.archived /\ made.status = lessons[c.id].status
         \/ kind = "restored" /\ ~made.archived /\ made.status = lessons[c.id].status
         \/ kind = "entry" /\ made.archived = lessons[c.id].archived /\ made.status = lessons[c.id].status,
         calls' \subseteq calls
  PROVE  LInv'
<1> DEFINE e == [kind |-> kind, id |-> c.id, what |-> what]
<1>1. e.kind = kind /\ e.id = c.id /\ e.what = what
  OBVIOUS
<1>2. lessons' = [lessons EXCEPT ![c.id] = made] /\ journal' = Append(journal, e)
  BY DEF L!Write
<1> HIDE DEF e
<1>3. /\ DOMAIN lessons' = DOMAIN lessons /\ lessons'[c.id] = made
      /\ \A i \in DOMAIN lessons : i # c.id => lessons'[i] = lessons[i]
  BY <1>2
<1>4. IsSeq(lessons')
  <2>1. PICK S : S = {lessons[i] : i \in DOMAIN lessons}
    OBVIOUS
  <2>2. PICK n \in Nat : lessons \in [1 .. n -> S]
    BY <2>1 DEF LInv, Rows, IsSeq
  <2>3. PICK T : T = {lessons'[i] : i \in DOMAIN lessons'}
    OBVIOUS
  <2>4. lessons' \in [1 .. n -> T]
    BY <1>2, <1>3, <2>2, <2>3
  <2>5. lessons' \in Seq(T)
    BY <2>4
  <2> QED
    BY <2>3, <2>5 DEF IsSeq
<1>5. Rows'
  <2>1. \A i \in DOMAIN lessons' : RowHonest(lessons'[i], clock) /\ lessons'[i].slug = lessons[i].slug
    BY <1>3 DEF LInv, Rows
  <2> QED
    BY <1>3, <1>4, <2>1 DEF LInv, Rows
<1>6. IsSeq(journal)
  BY DEF LInv, Told
<1>7. PICK n \in DOMAIN journal' :
              /\ journal'[n] = e
              /\ DOMAIN journal' = DOMAIN journal \union {n} /\ n \notin DOMAIN journal
              /\ \A k \in DOMAIN journal : journal'[k] = journal[k]
              /\ \A k \in DOMAIN journal :
                   NewestIn(journal', k, OfStatus) =>
                     NewestIn(journal, k, OfStatus) /\ ~(e.id = journal[k].id /\ e.kind \in OfStatus)
  BY <1>2, <1>6, Tells
<1>8. /\ IsSeq(journal')
      /\ \A k \in DOMAIN journal :
           NewestIn(journal', k, OfMark) =>
              /\ NewestIn(journal, k, OfMark)
              /\ ~(e.id = journal[k].id /\ e.kind \in OfMark)
  BY <1>2, <1>6, <1>7, Tells
<1>9. Told'
  <2>1. \A i \in DOMAIN lessons' : \E k \in DOMAIN journal' : journal'[k].id = i /\ journal'[k].kind = "created"
    BY <1>3, <1>7 DEF LInv, Told
  <2>2. ASSUME NEW k \in DOMAIN journal'
        PROVE  /\ journal'[k].id \in DOMAIN lessons'
               /\ NewestIn(journal', k, OfStatus) => journal'[k].what = lessons'[journal'[k].id].status
               /\ NewestIn(journal', k, OfMark) =>
                    (lessons'[journal'[k].id].archived <=> journal'[k].kind = "archived")
    <3>1. CASE k = n
      <4>1. NewestIn(journal', k, OfStatus) => kind \in OfStatus
        BY <1>1, <1>7, <3>1 DEF NewestIn
      <4>2. NewestIn(journal', k, OfMark) => kind \in OfMark
        BY <1>1, <1>7, <3>1 DEF NewestIn
      <4> QED
        BY <1>1, <1>3, <1>7, <3>1, <4>1, <4>2 DEF OfStatus, OfMark
    <3>2. CASE k # n
      <4>1. /\ k \in DOMAIN journal /\ journal'[k] = journal[k] /\ journal[k].id \in DOMAIN lessons
            /\ NewestIn(journal, k, OfStatus) => journal[k].what = lessons[journal[k].id].status
            /\ NewestIn(journal, k, OfMark) =>
                 (lessons[journal[k].id].archived <=> journal[k].kind = "archived")
        BY <1>7, <3>2 DEF LInv, Told
      <4>2. CASE journal[k].id # c.id
        BY <1>3, <1>7, <1>8, <4>1, <4>2
      <4>3. CASE journal[k].id = c.id
        <5>1. NewestIn(journal', k, OfStatus) => journal[k].what = made.status
          BY <1>1, <1>7, <4>1, <4>3 DEF OfStatus
        <5>2. NewestIn(journal', k, OfMark) => (made.archived <=> journal[k].kind = "archived")
          BY <1>1, <1>8, <4>1, <4>3 DEF OfMark
        <5> QED
          BY <1>3, <4>1, <4>3, <5>1, <5>2
      <4> QED
        BY <4>2, <4>3
    <3> QED
      BY <3>1, <3>2
  <2> QED
    BY <1>8, <2>1, <2>2 DEF Told
<1>10. Handlers'
  BY <1>3 DEF LInv, Handlers
<1> QED
  BY <1>5, <1>9, <1>10 DEF LInv

\* Steps of handlers that write neither rows nor events.
LEMMA Quietly ==
  ASSUME LInv, UNCHANGED <<lessons, journal, clock>>,
         \A c \in calls' : c \in calls \/ CallHonest(c, DOMAIN lessons, clock)
  PROVE  LInv'
<1>1. Rows'
  BY DEF LInv, Rows
<1>2. Told'
  BY DEF LInv, Told
<1>3. Handlers'
  BY DEF LInv, Handlers
<1> QED
  BY <1>1, <1>2, <1>3 DEF LInv

LEMMA Routes ==
  ASSUME Timeless, LInv,
         \/ L!PostLessonCreate
         \/ \E i \in DOMAIN lessons : L!PostLessonEntry(i) \/ L!GetLearn(i) \/ L!PostLessonStatus(i)
                                      \/ L!PostLessonArchive(i) \/ L!PostLessonRestore(i)
  PROVE  LInv'
<1>1. ASSUME NEW op, NEW id, NEW arg, NEW at, L!Begin(op, id, arg, at),
             \/ op = "create" /\ at = "insert"
             \/ op # "create" /\ op # "status" /\ at # "insert" /\ id \in DOMAIN lessons
             \/ op = "status" /\ at # "insert" /\ id \in DOMAIN lessons /\ id # 0 /\ arg \in L!Statuses
      PROVE  LInv'
  <2>1. PICK made, slug : made = (IF id = 0 THEN None ELSE lessons[id]) /\ slug = (IF id = 0 THEN L!UniqueSlug(arg) ELSE made.slug)
    OBVIOUS
  <2>2. PICK c : c = [by |-> moves, op |-> op, id |-> id, row |-> made, arg |-> arg, at |-> at, ts |-> clock, slug |-> slug]
    OBVIOUS
  <2>3. calls' = calls \union {c} /\ UNCHANGED <<lessons, journal, clock>>
    BY <1>1, <2>1, <2>2 DEF L!Begin
  <2>4. /\ DOMAIN c = CallFields /\ c.op = op /\ c.at = at /\ c.id = id /\ c.arg = arg /\ c.ts = clock /\ c.row = made
    BY <2>2 DEF CallFields
  <2>5. op = "status" => Upto(made.started, clock) /\ clock \in Nat
    BY <1>1, <2>1 DEF LInv, Rows, RowHonest
  <2>6. CallHonest(c, DOMAIN lessons, clock)
    BY <1>1, <2>4, <2>5 DEF CallHonest, LInv, Rows
  <2> QED
    BY <2>3, <2>6, Quietly
<1>2. \A i \in DOMAIN lessons : i # 0
  BY DEF LInv, Rows, IsSeq
<1>3. CASE L!PostLessonCreate
  BY <1>1, <1>3 DEF L!PostLessonCreate
<1>4. ASSUME NEW i \in DOMAIN lessons, L!PostLessonEntry(i) \/ L!GetLearn(i) PROVE LInv'
  BY <1>1, <1>4 DEF L!PostLessonEntry, L!GetLearn
<1>5. ASSUME NEW i \in DOMAIN lessons, L!PostLessonStatus(i) PROVE LInv'
  BY <1>1, <1>2, <1>5 DEF L!PostLessonStatus
<1>6. ASSUME NEW i \in DOMAIN lessons, L!PostLessonArchive(i) \/ L!PostLessonRestore(i) PROVE LInv'
  BY <1>1, <1>6 DEF L!PostLessonArchive, L!PostLessonRestore
<1> QED
  BY <1>3, <1>4, <1>5, <1>6

LEMMA Creates ==
  ASSUME Timeless, LInv, NEW c \in calls, L!CreateLesson(c)
  PROVE  LInv'
<1>1. clock' = clock /\ c.op = "create" /\ CallHonest(c, DOMAIN lessons, clock)
  BY DEF L!CreateLesson, LInv, Handlers
<1>2. CASE c.slug \in L!Used
  BY <1>2, Quietly DEF L!CreateLesson, L!Finish
<1>3. CASE c.slug \notin L!Used
  <2>1. PICK n \in Nat :
           /\ n = Len(lessons) /\ DOMAIN lessons = 1 .. n
           /\ DOMAIN Append(lessons, L!Created(c.slug)) = 1 .. n + 1
           /\ IsSeq(Append(lessons, L!Created(c.slug)))
           /\ Append(lessons, L!Created(c.slug))[n + 1] = L!Created(c.slug)
           /\ \A i \in DOMAIN lessons : Append(lessons, L!Created(c.slug))[i] = lessons[i]
    <3>1. PICK made : made = L!Created(c.slug)
      OBVIOUS
    <3>2. IsSeq(lessons)
      BY DEF LInv, Rows
    <3>3. \E n \in Nat :
           /\ n = Len(lessons) /\ DOMAIN lessons = 1 .. n /\ DOMAIN Append(lessons, made) = 1 .. n + 1
           /\ IsSeq(Append(lessons, made)) /\ Append(lessons, made)[n + 1] = made
           /\ \A i \in DOMAIN lessons : Append(lessons, made)[i] = lessons[i]
      BY <3>2, Appends
    <3> QED
      BY <3>1, <3>3
  <2>2. PICK m \in Nat : m = n + 1
    OBVIOUS
  <2>3. PICK e : e = [kind |-> "created", id |-> m, what |-> "backlog"]
    OBVIOUS
  <2>4. PICK q : q = [c EXCEPT !.id = m, !.at = "look"]
    OBVIOUS
  <2>5. /\ lessons' = Append(lessons, L!Created(c.slug)) /\ journal' = Append(journal, e)
        /\ calls' = (calls \ {c}) \union {q}
    BY <1>3, <2>1, <2>2, <2>3, <2>4 DEF L!CreateLesson
  <2>6. /\ DOMAIN lessons' = DOMAIN lessons \union {m} /\ m \notin DOMAIN lessons /\ IsSeq(lessons')
        /\ lessons'[m] = L!Created(c.slug) /\ \A i \in DOMAIN lessons : lessons'[i] = lessons[i]
    BY <2>1, <2>2, <2>5
  <2>7. /\ RowHonest(lessons'[m], clock) /\ lessons'[m].slug = c.slug
        /\ lessons'[m].status = "backlog" /\ lessons'[m].archived = FALSE
    BY <2>6 DEF L!Created, RowHonest, RowFields, Upto, L!Statuses
  <2>8. Rows'
    <3>1. \A i \in DOMAIN lessons : lessons[i].slug # c.slug
      BY <1>3 DEF L!Used
    <3>2. \A i \in DOMAIN lessons' : RowHonest(lessons'[i], clock)
      BY <2>6, <2>7 DEF LInv, Rows
    <3>3. \A i, j \in DOMAIN lessons' : lessons'[i].slug = lessons'[j].slug => i = j
      BY <2>6, <2>7, <3>1 DEF LInv, Rows
    <3> QED
      BY <1>1, <2>6, <3>2, <3>3 DEF LInv, Rows
  <2>9. e.kind = "created" /\ e.id = m /\ e.what = "backlog"
    BY <2>3
  <2>10. IsSeq(journal)
    BY DEF LInv, Told
  <2>11. PICK k0 \in DOMAIN journal' :
              /\ journal'[k0] = e
              /\ DOMAIN journal' = DOMAIN journal \union {k0} /\ k0 \notin DOMAIN journal
              /\ \A k \in DOMAIN journal : journal'[k] = journal[k]
              /\ \A k \in DOMAIN journal : NewestIn(journal', k, OfStatus) => NewestIn(journal, k, OfStatus)
    BY <2>5, <2>10, Tells
  <2>12. /\ IsSeq(journal')
         /\ \A k \in DOMAIN journal :
              NewestIn(journal', k, OfMark) => NewestIn(journal, k, OfMark)
    BY <2>5, <2>10, <2>11, Tells
  <2>13. Told'
    <3>1. \A i \in DOMAIN lessons' : \E k \in DOMAIN journal' : journal'[k].id = i /\ journal'[k].kind = "created"
      BY <2>6, <2>9, <2>11 DEF LInv, Told
    <3>2. ASSUME NEW k \in DOMAIN journal'
          PROVE  /\ journal'[k].id \in DOMAIN lessons'
                 /\ NewestIn(journal', k, OfStatus) => journal'[k].what = lessons'[journal'[k].id].status
                 /\ NewestIn(journal', k, OfMark) =>
                      (lessons'[journal'[k].id].archived <=> journal'[k].kind = "archived")
      <4>1. CASE k = k0
        BY <2>6, <2>7, <2>9, <2>11, <4>1
      <4>2. CASE k # k0
        <5>1. /\ k \in DOMAIN journal /\ journal'[k] = journal[k] /\ journal[k].id \in DOMAIN lessons
              /\ NewestIn(journal, k, OfStatus) => journal[k].what = lessons[journal[k].id].status
              /\ NewestIn(journal, k, OfMark) =>
                   (lessons[journal[k].id].archived <=> journal[k].kind = "archived")
          BY <2>11, <4>2 DEF LInv, Told
        <5> QED
          BY <2>6, <2>11, <2>12, <5>1
      <4> QED
        BY <4>1, <4>2
    <3> QED
      BY <2>12, <3>1, <3>2 DEF Told
  <2>14. CallHonest(q, DOMAIN lessons', clock)
    <3>1. DOMAIN q = CallFields /\ q.at = "look" /\ q.id = m /\ q.op = "create"
      BY <1>1, <2>4 DEF CallHonest, CallFields
    <3> QED
      BY <2>6, <3>1 DEF CallHonest
  <2>15. Handlers'
    BY <1>1, <2>5, <2>6, <2>14 DEF LInv, Handlers, CallHonest
  <2> QED
    BY <2>8, <2>13, <2>15 DEF LInv
<1> QED
  BY <1>2, <1>3

LEMMA Sets ==
  ASSUME Timeless, LInv, NEW c \in calls,
         L!SetStatus(c) \/ L!ArchiveLesson(c) \/ L!RestoreLesson(c) \/ L!SetCurrentEntry(c)
  PROVE  LInv'
<1>1. CallHonest(c, DOMAIN lessons, clock) /\ clock \in Nat
  BY DEF LInv, Handlers, Rows
<1>2. c.id \in DOMAIN lessons /\ clock' = clock /\ calls' \subseteq calls
  BY <1>1 DEF CallHonest, L!SetStatus, L!ArchiveLesson, L!RestoreLesson, L!SetCurrentEntry, L!Finish
<1>3. RowHonest(lessons[c.id], clock)
  BY <1>2 DEF LInv, Rows
<1>4. PICK r : r = lessons[c.id]
  OBVIOUS
<1>5. CASE L!SetStatus(c)
  <2>1. PICK s : s = L!Stamped(c.row, c.arg, c.ts)
    OBVIOUS
  <2>2. PICK made : made = [r EXCEPT !.status = c.arg, !.started = s.started, !.completed = s.completed]
    OBVIOUS
  <2>3. L!Write(c, made, "status", c.arg)
    BY <1>4, <1>5, <2>1, <2>2 DEF L!SetStatus
  <2>4. /\ DOMAIN made = RowFields /\ made.status = c.arg /\ made.started = s.started /\ made.completed = s.completed
        /\ made.archived = r.archived /\ made.slug = r.slug
    BY <1>3, <1>4, <2>2 DEF RowHonest, RowFields
  <2>5. c.arg \in L!Statuses /\ c.ts \in Nat /\ c.ts <= clock /\ Upto(c.row.started, c.ts)
    BY <1>1, <1>5 DEF CallHonest, L!SetStatus
  <2>6. /\ s.started = (IF c.arg = "backlog" THEN None ELSE IF c.row.started = None THEN c.ts ELSE c.row.started)
        /\ s.completed = (IF c.arg = "studied" THEN c.ts ELSE None)
    BY <2>1 DEF L!Stamped
  <2>7. Upto(s.started, c.ts) /\ (s.started = None <=> c.arg = "backlog")
    BY <2>5, <2>6 DEF Upto, Timeless
  <2>8. RowHonest(made, clock)
    <3>1. Upto(made.started, clock)
      BY <1>1, <2>4, <2>5, <2>7 DEF Upto
    <3>2. IF made.status = "studied" THEN made.completed \in Nat /\ made.started <= made.completed ELSE made.completed = None
      BY <2>4, <2>5, <2>6, <2>7 DEF Upto
    <3> QED
      BY <1>3, <1>4, <2>4, <2>5, <2>7, <3>1, <3>2 DEF RowHonest
  <2> QED
    BY <1>2, <1>4, <2>3, <2>4, <2>8, Writes
<1>6. ASSUME NEW mark \in BOOLEAN, NEW kind, kind = (IF mark THEN "archived" ELSE "restored"), NEW what,
             L!Write(c, [lessons[c.id] EXCEPT !.archived = mark], kind, what)
      PROVE  LInv'
  <2>1. PICK made : made = [r EXCEPT !.archived = mark]
    OBVIOUS
  <2>2. /\ DOMAIN made = RowFields /\ made.status = r.status /\ made.started = r.started /\ made.completed = r.completed
        /\ made.archived = mark /\ made.slug = r.slug
    BY <1>3, <1>4, <2>1 DEF RowHonest, RowFields
  <2>3. RowHonest(made, clock)
    BY <1>3, <1>4, <2>2 DEF RowHonest
  <2>4. L!Write(c, made, kind, what)
    BY <1>4, <1>6, <2>1
  <2> QED
    BY <1>2, <1>4, <1>6, <2>2, <2>3, <2>4, Writes
<1>7. CASE L!ArchiveLesson(c)
  BY <1>6, <1>7 DEF L!ArchiveLesson
<1>8. CASE L!RestoreLesson(c)
  BY <1>6, <1>8 DEF L!RestoreLesson
<1>9. CASE L!SetCurrentEntry(c)
  <2>1. PICK made : made = [r EXCEPT !.entry = c.arg]
    OBVIOUS
  <2>2. /\ DOMAIN made = RowFields /\ made.status = r.status /\ made.started = r.started /\ made.completed = r.completed
        /\ made.archived = r.archived /\ made.slug = r.slug
    BY <1>3, <1>4, <2>1 DEF RowHonest, RowFields
  <2>3. RowHonest(made, clock)
    BY <1>3, <1>4, <2>2 DEF RowHonest
  <2>4. L!Write(c, made, "entry", c.arg)
    BY <1>4, <1>9, <2>1 DEF L!SetCurrentEntry
  <2> QED
    BY <1>2, <1>4, <2>2, <2>3, <2>4, Writes
<1> QED
  BY <1>5, <1>7, <1>8, <1>9

LEMMA Bundles ==
  ASSUME LInv, NEW c \in calls, L!EnsureManifest(c) \/ L!CreateManifest(c)
  PROVE  LInv'
<1>1. CallHonest(c, DOMAIN lessons, clock) /\ UNCHANGED <<lessons, journal, clock>>
  BY DEF LInv, Handlers, L!EnsureManifest, L!CreateManifest
<1>2. c.at # "insert"
  BY DEF L!EnsureManifest, L!CreateManifest
<1>3. ASSUME NEW at, at # "insert", L!Continue(c, at)
      PROVE  LInv'
  <2>1. PICK q : q = [c EXCEPT !.at = at]
    OBVIOUS
  <2>2. /\ DOMAIN q = CallFields /\ q.at = at /\ q.id = c.id /\ q.op = c.op /\ q.arg = c.arg
        /\ q.ts = c.ts /\ q.row = c.row
    BY <1>1, <2>1 DEF CallHonest, CallFields
  <2>3. CallHonest(q, DOMAIN lessons, clock)
    BY <1>1, <1>2, <1>3, <2>2 DEF CallHonest
  <2>4. calls' = (calls \ {c}) \union {q}
    BY <1>3, <2>1 DEF L!Continue
  <2> QED
    BY <1>1, <2>3, <2>4, Quietly
<1>4. ASSUME NEW m, L!AfterRead(c, m)
      PROVE  LInv'
  <2>1. CASE L!Finish(c)
    BY <1>1, <2>1, Quietly DEF L!Finish
  <2>2. CASE ~L!Finish(c)
    <3>1. PICK q : q = [c EXCEPT !.at = "write", !.arg = L!EntryGiven(c, m)]
      OBVIOUS
    <3>2. c.op \in {"entry", "open"} /\ calls' = (calls \ {c}) \union {q}
      BY <1>4, <2>2, <3>1 DEF L!AfterRead
    <3>3. DOMAIN q = CallFields /\ q.at = "write" /\ q.id = c.id /\ q.op = c.op
      BY <1>1, <3>1 DEF CallHonest, CallFields
    <3>4. CallHonest(q, DOMAIN lessons, clock)
      BY <1>1, <1>2, <3>2, <3>3 DEF CallHonest
    <3> QED
      BY <1>1, <3>2, <3>4, Quietly
  <2> QED
    BY <2>1, <2>2
<1>5. CASE L!EnsureManifest(c)
  BY <1>3, <1>4, <1>5 DEF L!EnsureManifest
<1>6. CASE L!CreateManifest(c)
  BY <1>3, <1>6 DEF L!CreateManifest
<1> QED
  BY <1>5, <1>6

LEMMA Opens ==
  ASSUME LInv, NEW c \in calls, L!MarkOpened(c)
  PROVE  LInv'
<1>1. CallHonest(c, DOMAIN lessons, clock) /\ UNCHANGED <<journal, clock>> /\ calls' \subseteq calls
  BY DEF LInv, Handlers, L!MarkOpened, L!Finish
<1>2. c.id \in DOMAIN lessons
  BY <1>1 DEF CallHonest, L!MarkOpened
<1>3. PICK made : made = [lessons[c.id] EXCEPT !.entry = c.arg]
  OBVIOUS
<1>4. RowHonest(lessons[c.id], clock)
  BY <1>2 DEF LInv, Rows
<1>5. /\ DOMAIN made = RowFields /\ made.status = lessons[c.id].status /\ made.started = lessons[c.id].started
      /\ made.completed = lessons[c.id].completed /\ made.archived = lessons[c.id].archived /\ made.slug = lessons[c.id].slug
  BY <1>3, <1>4 DEF RowHonest, RowFields
<1>6. RowHonest(made, clock)
  BY <1>4, <1>5 DEF RowHonest
<1>7. lessons' = [lessons EXCEPT ![c.id] = made]
  BY <1>3 DEF L!MarkOpened
<1>8. /\ DOMAIN lessons' = DOMAIN lessons
      /\ \A i \in DOMAIN lessons : /\ RowHonest(lessons'[i], clock) /\ lessons'[i].slug = lessons[i].slug
                                   /\ lessons'[i].status = lessons[i].status /\ lessons'[i].archived = lessons[i].archived
  <2>1. ASSUME NEW i \in DOMAIN lessons
        PROVE  /\ RowHonest(lessons'[i], clock) /\ lessons'[i].slug = lessons[i].slug
               /\ lessons'[i].status = lessons[i].status /\ lessons'[i].archived = lessons[i].archived
    <3>1. CASE i = c.id
      <4>1. lessons'[i] = made
        BY <1>7, <3>1
      <4> QED
        BY <1>5, <1>6, <3>1, <4>1
    <3>2. CASE i # c.id
      <4>1. lessons'[i] = lessons[i]
        BY <1>7, <3>2
      <4> QED
        BY <4>1 DEF LInv, Rows
    <3> QED
      BY <3>1, <3>2
  <2> QED
    BY <1>7, <2>1
<1>9. IsSeq(lessons')
  <2>1. PICK S : S = {lessons[i] : i \in DOMAIN lessons}
    OBVIOUS
  <2>2. PICK n \in Nat : lessons \in [1 .. n -> S]
    BY <2>1 DEF LInv, Rows, IsSeq
  <2>3. PICK T : T = {lessons'[i] : i \in DOMAIN lessons'}
    OBVIOUS
  <2>4. lessons' \in [1 .. n -> T]
    BY <1>7, <1>8, <2>2, <2>3
  <2>5. lessons' \in Seq(T)
    BY <2>4
  <2> QED
    BY <2>3, <2>5 DEF IsSeq
<1>10. Rows'
  BY <1>1, <1>8, <1>9 DEF LInv, Rows
<1>11. Told'
  BY <1>1, <1>8 DEF LInv, Told
<1>12. Handlers'
  BY <1>1, <1>8 DEF LInv, Handlers
<1> QED
  BY <1>10, <1>11, <1>12 DEF LInv

LEMMA Others ==
  ASSUME LInv, L!AgentWrites \/ L!Crash \/ L!Tick
  PROVE  LInv'
<1>1. CASE L!AgentWrites \/ L!Crash
  BY <1>1, Quietly DEF L!AgentWrites, L!Crash
<1>2. CASE L!Tick
  <2>1. clock \in Nat /\ clock' \in Nat /\ clock < clock' /\ UNCHANGED <<lessons, journal, calls>>
    BY <1>2 DEF L!Tick, LInv, Rows
  <2>2. ASSUME NEW stamp, Upto(stamp, clock) PROVE Upto(stamp, clock')
    BY <2>1, <2>2 DEF Upto
  <2>3. Rows'
    BY <2>1, <2>2 DEF LInv, Rows, RowHonest
  <2>4. Told'
    BY <2>1 DEF LInv, Told
  <2>5. ASSUME NEW c \in calls PROVE CallHonest(c, DOMAIN lessons, clock')
    <3>1. CallHonest(c, DOMAIN lessons, clock)
      BY DEF LInv, Handlers
    <3> QED
      BY <2>1, <3>1 DEF CallHonest
  <2>6. Handlers'
    BY <2>1, <2>5 DEF Handlers
  <2> QED
    BY <2>3, <2>4, <2>6 DEF LInv
<1> QED
  BY <1>1, <1>2

LEMMA LessonsStand == L!Spec => []LInv
<1>1. L!Init => LInv
  <2> SUFFICES ASSUME L!Init PROVE LInv
    OBVIOUS
  <2>1. lessons = <<>> /\ journal = <<>> /\ calls = {} /\ clock = 0
    BY DEF L!Init
  <2>2. IsSeq(<<>>) /\ DOMAIN <<>> = {}
    BY DEF IsSeq
  <2> QED
    BY <2>1, <2>2 DEF LInv, Rows, Told, Handlers
<1>2. LInv /\ [L!Next]_L!vars => LInv'
  <2> SUFFICES ASSUME LInv, [L!Next]_L!vars PROVE LInv'
    OBVIOUS
  <2>1. CASE UNCHANGED L!vars
    BY <2>1, Quietly DEF L!vars
  <2> QED
    BY <2>1, LearnConstants, Routes, Creates, Sets, Bundles, Opens, Others DEF L!Next
<1> QED
  BY <1>1, <1>2, PTL DEF L!Spec

\* lessons.py: whatever the handlers read before they wrote, a row's status
\* and stamps agree, the newest event about its status and the newest about
\* its archive mark are the row's, and no two rows share a slug.
THEOREM LessonRowsHonest == LearnSpec => []LessonsHonest
<1>1. LInv => L!LessonsHonest
  <2> SUFFICES ASSUME LInv PROVE L!LessonsHonest
    OBVIOUS
  <2>1. \A i \in DOMAIN lessons : LET r == lessons[i] IN
          /\ r.started = None <=> r.status = "backlog"
          /\ IF r.status = "studied" THEN r.started <= r.completed ELSE r.completed = None
          /\ \E k \in DOMAIN journal : journal[k].id = i /\ journal[k].kind = "created"
    BY DEF LInv, Rows, RowHonest, Told
  <2> QED
    BY <2>1 DEF LInv, Rows, Told, L!LessonsHonest, L!Newest, NewestIn, OfStatus, OfMark
<1>2. L!LessonsHonest => LessonsHonest
  BY DEF LessonsHonest
<1> QED
  BY <1>1, <1>2, LessonsMove, LessonsStand, PTL
-----------------------------------------------------------------------------
(* Page identity *)

Inode == [mtime : Nat, ctime : Nat, bytes : Halves \X Halves]
ReaderFields == {"id", "kind", "v", "at", "prof", "node", "key", "first", "second"}

\* Inodes are numbered as they come, and none changed later than the last change.
Nodes ==
    /\ changes \in Nat
    /\ \E n \in Nat : DOMAIN inodes = 1 .. n
    /\ \A n \in DOMAIN inodes : inodes[n] \in Inode /\ inodes[n].ctime <= changes
    /\ name # None => name \in DOMAIN inodes
    /\ writing # None => writing.node \in DOMAIN inodes /\ writing.half \in Halves

\* Who holds a stat of an inode that has not changed since knows its bytes.
Holds(key, ns, last) ==
    /\ key[1] \in DOMAIN ns /\ key[3] \in Nat /\ key[3] <= last
Fits(key, ns) == ns[key[1]].ctime = key[3]

Reader(r, ns, last) ==
    /\ DOMAIN r = ReaderFields
    /\ r.at # "open" =>
         /\ Holds(r.key, ns, last) /\ r.node = r.key[1]
         /\ Fits(r.key, ns) /\ r.at \in {"second", "stat"} => r.first = ns[r.node].bytes[1]
         /\ Fits(r.key, ns) /\ r.at = "stat" => r.second = ns[r.node].bytes[2]

Kept(c, ns, last) ==
    c # None => /\ Holds(c.key, ns, last)
                /\ Fits(c.key, ns) => c.digest = ns[c.key[1]].bytes

\* A version of an interactive page names its bytes.
Named ==
    /\ \A m \in metas : m.rev # None => m.version[2] = "interactive" /\ m.version[3] = m.rev
    /\ \A f \in files : f.version[2] = "interactive" => f.version[3] = f.body

PagesInv ==
    /\ Nodes /\ Named /\ Kept(cache, inodes, changes)
    /\ \A r \in readers : Reader(r, inodes, changes)

\* A change of one inode, or a new one: what was known stays known.
LEMMA Touches ==
  ASSUME PagesInv, NEW node, NEW i \in Inode, i.ctime = changes + 1,
         node \in DOMAIN inodes' , inodes'[node] = i, DOMAIN inodes \subseteq DOMAIN inodes',
         \A n \in DOMAIN inodes : n = node \/ inodes'[n] = inodes[n],
         changes' = changes + 1, UNCHANGED <<cache, readers, metas, files>>
  PROVE  Named' /\ Kept(cache, inodes, changes)' /\ (\A r \in readers : Reader(r, inodes, changes))'
<1>1. changes \in Nat
  BY DEF PagesInv, Nodes
<1>2. ASSUME NEW key, Holds(key, inodes, changes)
      PROVE  Holds(key, inodes', changes') /\ (Fits(key, inodes') => Fits(key, inodes) /\ inodes'[key[1]] = inodes[key[1]])
  <2>1. CASE key[1] = node
    <3>1. inodes'[key[1]].ctime = changes + 1
      BY <2>1
    <3> QED
      BY <1>1, <1>2, <3>1 DEF Holds, Fits
  <2>2. CASE key[1] # node
    BY <1>1, <1>2, <2>2 DEF Holds, Fits
  <2> QED
    BY <2>1, <2>2
<1>3. Named'
  BY DEF PagesInv, Named
<1>4. Kept(cache, inodes, changes)'
  BY <1>2 DEF PagesInv, Kept
<1>5. ASSUME NEW r \in readers PROVE Reader(r, inodes', changes')
  <2>1. Reader(r, inodes, changes)
    BY DEF PagesInv
  <2>2. CASE r.at = "open"
    BY <2>1, <2>2 DEF Reader
  <2>3. CASE r.at # "open"
    <3>1. Holds(r.key, inodes, changes) /\ r.node = r.key[1]
      BY <2>1, <2>3 DEF Reader
    <3>2. Holds(r.key, inodes', changes') /\ (Fits(r.key, inodes') => Fits(r.key, inodes) /\ inodes'[r.node] = inodes[r.node])
      BY <1>2, <3>1
    <3> QED
      BY <2>1, <2>3, <3>1, <3>2 DEF Reader
  <2> QED
    BY <2>2, <2>3
<1> QED
  BY <1>3, <1>4, <1>5

LEMMA Editors ==
  ASSUME PagesInv, \/ P!WriteFirstHalf \/ P!WriteSecondHalf \/ P!Rename
               \/ P!Utime \/ P!Remove \/ P!FlipProfile
  PROVE  PagesInv'
<1>1. changes \in Nat /\ changes + 1 \in Nat /\ changes' = changes + 1 /\ UNCHANGED <<cache, readers, metas, files>>
  BY DEF PagesInv, Nodes, P!WriteFirstHalf, P!WriteSecondHalf, P!Rename, P!Utime, P!Remove, P!FlipProfile, P!Change, P!Quiet
<1>2. ASSUME NEW n \in DOMAIN inodes
      PROVE  inodes[n] \in Inode /\ inodes[n].ctime \in Nat /\ inodes[n].ctime <= changes /\ inodes[n].mtime \in Nat
             /\ inodes[n].bytes[1] \in Halves /\ inodes[n].bytes[2] \in Halves
  <2>1. inodes[n] \in Inode /\ inodes[n].ctime <= changes
    BY DEF PagesInv, Nodes
  <2> QED
    BY <2>1 DEF Inode
<1>3. ASSUME NEW node \in DOMAIN inodes, NEW mtime \in Nat, NEW bytes \in Halves \X Halves,
             inodes' = P!Touched(node, mtime, bytes), name' # None => name' = name,
             writing' # None => writing'.node \in DOMAIN inodes /\ writing'.half \in Halves
      PROVE  PagesInv'
  <2>1. PICK i : i = [mtime |-> mtime, ctime |-> changes + 1, bytes |-> bytes]
    OBVIOUS
  <2>2. i \in Inode /\ i.ctime = changes + 1
    BY <1>1, <2>1 DEF Inode
  <2>3. inodes' = [inodes EXCEPT ![node] = i]
    BY <1>3, <2>1 DEF P!Touched
  <2>4. /\ DOMAIN inodes' = DOMAIN inodes /\ inodes'[node] = i
        /\ \A n \in DOMAIN inodes : n = node \/ inodes'[n] = inodes[n]
    BY <2>3
  <2>5. Named' /\ Kept(cache, inodes, changes)' /\ (\A r \in readers : Reader(r, inodes, changes))'
    BY <1>1, <2>2, <2>4, Touches
  <2>6. \A n \in DOMAIN inodes' : inodes'[n] \in Inode /\ inodes'[n].ctime <= changes'
    <3>1. ASSUME NEW n \in DOMAIN inodes, n # node PROVE inodes'[n] \in Inode /\ inodes'[n].ctime <= changes'
      BY <1>1, <1>2, <2>4, <3>1
    <3>2. inodes'[node] \in Inode /\ inodes'[node].ctime <= changes'
      BY <1>1, <2>2, <2>4
    <3> QED
      BY <2>4, <3>1, <3>2
  <2>7. Nodes'
    BY <1>1, <1>3, <2>4, <2>6 DEF PagesInv, Nodes
  <2> QED
    BY <2>5, <2>7 DEF PagesInv
<1>4. CASE P!WriteFirstHalf
  <2>1. PICK x \in Halves : /\ inodes' = P!Touched(name, changes + 1, <<x, inodes[name].bytes[2]>>)
                            /\ writing' = [node |-> name, half |-> x] /\ name # None /\ name' = name
    BY <1>4 DEF P!WriteFirstHalf
  <2>2. name \in DOMAIN inodes
    BY <2>1 DEF PagesInv, Nodes
  <2>3. <<x, inodes[name].bytes[2]>> \in Halves \X Halves
    BY <1>2, <2>2
  <2> QED
    BY <1>1, <1>3, <2>1, <2>2, <2>3
<1>5. CASE P!WriteSecondHalf
  <2>1. /\ inodes' = P!Touched(writing.node, changes + 1, <<inodes[writing.node].bytes[1], writing.half>>)
        /\ writing' = None /\ name' = name /\ writing # None
    BY <1>5 DEF P!WriteSecondHalf
  <2>2. writing.node \in DOMAIN inodes /\ writing.half \in Halves
    BY <2>1 DEF PagesInv, Nodes
  <2>3. <<inodes[writing.node].bytes[1], writing.half>> \in Halves \X Halves
    BY <1>2, <2>2
  <2> QED
    BY <1>1, <1>3, <2>1, <2>2, <2>3
<1>6. CASE P!Rename
  <2>1. PICK count \in Nat : DOMAIN inodes = 1 .. count
    BY DEF PagesInv, Nodes
  <2>2. P!Cardinality(DOMAIN inodes) = count
    <3>1. P!Cardinality(DOMAIN inodes) = Cardinality(DOMAIN inodes)
      BY DEF P!Cardinality, Cardinality
    <3> QED
      BY <2>1, <3>1, FS_Interval
  <2>3. PICK x \in Halves, m \in {changes + 1} \union {inodes[n].mtime : n \in DOMAIN inodes} :
          LET node == P!Cardinality(DOMAIN inodes) + 1 IN
          /\ inodes' = [n \in DOMAIN inodes \union {node} |->
                        IF n = node THEN [mtime |-> m, ctime |-> changes + 1, bytes |-> <<x, x>>] ELSE inodes[n]]
          /\ name' = node
    BY <1>6 DEF P!Rename
  <2>4. m \in Nat
    BY <1>1, <1>2
  <2>5. PICK i : i = [mtime |-> m, ctime |-> changes + 1, bytes |-> <<x, x>>]
    OBVIOUS
  <2>6. i \in Inode /\ i.ctime = changes + 1
    BY <1>1, <2>4, <2>5 DEF Inode
  <2>7. PICK node \in Nat : node = count + 1
    OBVIOUS
  <2>8. inodes' = [n \in DOMAIN inodes \union {node} |-> IF n = node THEN i ELSE inodes[n]] /\ name' = node
    BY <2>2, <2>3, <2>5, <2>7
  <2>9. /\ DOMAIN inodes' = DOMAIN inodes \union {node} /\ inodes'[node] = i /\ node \in DOMAIN inodes'
        /\ \A n \in DOMAIN inodes : n = node \/ inodes'[n] = inodes[n]
    BY <2>8
  <2>10. DOMAIN inodes' = 1 .. node
    BY <2>1, <2>7, <2>9
  <2>11. Named' /\ Kept(cache, inodes, changes)' /\ (\A r \in readers : Reader(r, inodes, changes))'
    BY <1>1, <2>6, <2>9, Touches
  <2>12. ASSUME NEW n \in DOMAIN inodes' PROVE inodes'[n] \in Inode /\ inodes'[n].ctime <= changes'
    <3>1. CASE n = node
      BY <1>1, <2>6, <2>9, <3>1
    <3>2. CASE n # node
      BY <1>1, <1>2, <2>9, <3>2
    <3> QED
      BY <3>1, <3>2
  <2>13. writing' = writing
    BY <1>6 DEF P!Rename
  <2>14. Nodes'
    BY <1>1, <2>8, <2>9, <2>10, <2>12, <2>13 DEF PagesInv, Nodes
  <2> QED
    BY <2>11, <2>14 DEF PagesInv
<1>7. CASE P!Utime
  <2>1. PICK n \in DOMAIN inodes : inodes' = P!Touched(name, inodes[n].mtime, inodes[name].bytes)
    BY <1>7 DEF P!Utime
  <2>2. name # None /\ name' = name /\ writing' = writing
    BY <1>7 DEF P!Utime
  <2>3. name \in DOMAIN inodes
    BY <2>2 DEF PagesInv, Nodes
  <2>4. inodes[name].bytes \in Halves \X Halves
    BY <1>2, <2>3 DEF Inode
  <2>5. writing' # None => writing'.node \in DOMAIN inodes /\ writing'.half \in Halves
    BY <2>2 DEF PagesInv, Nodes
  <2> QED
    BY <1>2, <1>3, <2>1, <2>2, <2>3, <2>4, <2>5
<1>8. CASE P!Remove \/ P!FlipProfile
  <2>1. inodes' = inodes /\ writing' = writing /\ (name' # None => name' = name)
    BY <1>8 DEF P!Remove, P!FlipProfile
  <2>2. Nodes'
    BY <1>1, <1>2, <2>1 DEF PagesInv, Nodes
  <2>3. ASSUME NEW key, Holds(key, inodes, changes) PROVE Holds(key, inodes', changes')
    BY <1>1, <2>1, <2>3 DEF Holds
  <2>4. Kept(cache, inodes, changes)'
    BY <1>1, <2>1, <2>3 DEF PagesInv, Kept, Fits
  <2>5. (\A r \in readers : Reader(r, inodes, changes))'
    BY <1>1, <2>1, <2>3 DEF PagesInv, Reader, Fits
  <2> QED
    BY <1>1, <2>2, <2>4, <2>5 DEF PagesInv, Named
<1> QED
  BY <1>4, <1>5, <1>6, <1>7, <1>8

\* An answer about a page, and a reader that goes on or is through.
LEMMA Meta ==
  ASSUME PagesInv, NEW r, NEW mtime, NEW digest, P!AnswerMeta(r, mtime, digest)
  PROVE  Named'
  BY DEF P!AnswerMeta, P!Version, PagesInv, Named
LEMMA File ==
  ASSUME PagesInv, NEW r, NEW mtime, NEW bytes, P!AnswerFile(r, mtime, bytes)
  PROVE  Named'
  BY DEF P!AnswerFile, P!Version, P!Digest, PagesInv, Named

LEMMA Reads ==
  ASSUME PagesInv, Named', P!Unread, Kept(cache', inodes, changes),
         NEW q, Reader(q, inodes, changes), readers' \subseteq readers \union {q}
  PROVE  PagesInv'
<1>1. UNCHANGED <<inodes, name, writing, changes>>
  BY DEF P!Unread
<1>2. Nodes'
  BY <1>1 DEF PagesInv, Nodes
<1>3. Kept(cache, inodes, changes)'
  BY <1>1
<1>4. (\A r \in readers : Reader(r, inodes, changes))'
  BY <1>1 DEF PagesInv
<1> QED
  BY <1>2, <1>3, <1>4 DEF PagesInv

LEMMA Drops ==
  ASSUME PagesInv, Named', P!Unread, Kept(cache', inodes, changes), readers' \subseteq readers
  PROVE  PagesInv'
<1>1. UNCHANGED <<inodes, name, writing, changes>>
  BY DEF P!Unread
<1>2. Nodes'
  BY <1>1 DEF PagesInv, Nodes
<1>3. Kept(cache, inodes, changes)'
  BY <1>1
<1>4. (\A r \in readers : Reader(r, inodes, changes))'
  BY <1>1 DEF PagesInv
<1> QED
  BY <1>2, <1>3, <1>4 DEF PagesInv

LEMMA Asking ==
  ASSUME PagesInv, NEW kind, P!Ask(kind)
  PROVE  PagesInv'
<1>1. PICK v : readers' = readers \union {[id |-> reads, kind |-> kind, v |-> v, at |-> "open", prof |-> profile,
                                         node |-> None, key |-> None, first |-> None, second |-> None]}
  BY DEF P!Ask
<1>2. PICK q : q = [id |-> reads, kind |-> kind, v |-> v, at |-> "open", prof |-> profile,
                    node |-> None, key |-> None, first |-> None, second |-> None]
  OBVIOUS
<1>3. Reader(q, inodes, changes)
  BY <1>2 DEF Reader, ReaderFields
<1>4. UNCHANGED <<cache, metas, files>> /\ P!Unread
  BY DEF P!Ask
<1>5. Named' /\ Kept(cache', inodes, changes)
  BY <1>4 DEF PagesInv, Named
<1> QED
  BY <1>1, <1>2, <1>3, <1>4, <1>5, Reads

LEMMA Reading ==
  ASSUME PagesInv, NEW r \in readers, P!Open(r) \/ P!ReadFirst(r) \/ P!ReadSecond(r) \/ P!Close(r)
  PROVE  PagesInv'
<1>1. Reader(r, inodes, changes) /\ Named /\ Kept(cache, inodes, changes)
  BY DEF PagesInv
<1>2. CASE P!Open(r)
  <2>1. cache' = cache /\ P!Unread /\ r.at = "open"
    BY <1>2 DEF P!Open
  <2>2. \/ P!Drop(r) /\ UNCHANGED <<metas, files>>
        \/ P!Drop(r) /\ \E mtime, digest : P!AnswerMeta(r, mtime, digest)
        \/ /\ readers' = (readers \ {r}) \union {[r EXCEPT !.at = "first", !.node = name, !.key = P!Key(name)]}
           /\ UNCHANGED <<metas, files>> /\ name # None
    BY <1>2 DEF P!Open
  <2>3. CASE P!Drop(r) /\ UNCHANGED <<metas, files>>
    BY <1>1, <2>1, <2>3, Drops DEF Named, P!Drop
  <2>4. CASE P!Drop(r) /\ \E mtime, digest : P!AnswerMeta(r, mtime, digest)
    BY <1>1, <2>1, <2>4, Drops, Meta DEF P!Drop
  <2>5. CASE /\ readers' = (readers \ {r}) \union {[r EXCEPT !.at = "first", !.node = name, !.key = P!Key(name)]}
             /\ UNCHANGED <<metas, files>> /\ name # None
    <3>1. PICK q : q = [r EXCEPT !.at = "first", !.node = name, !.key = P!Key(name)]
      OBVIOUS
    <3>2. name \in DOMAIN inodes /\ inodes[name].ctime \in Nat /\ inodes[name].ctime <= changes
      BY <2>5 DEF PagesInv, Nodes, Inode
    <3>3. PICK key : key = P!Key(name)
      OBVIOUS
    <3>4. key[1] = name /\ key[3] = inodes[name].ctime
      BY <3>3 DEF P!Key
    <3>5. DOMAIN q = ReaderFields /\ q.at = "first" /\ q.node = name /\ q.key = key
      BY <1>1, <3>1, <3>3 DEF Reader, ReaderFields
    <3>6. Reader(q, inodes, changes)
      BY <3>2, <3>4, <3>5 DEF Reader, Holds
    <3>7. readers' \subseteq readers \union {q} /\ Named' /\ Kept(cache', inodes, changes)
      BY <1>1, <2>1, <2>5, <3>1 DEF Named
    <3> QED
      BY <2>1, <3>6, <3>7, Reads
  <2> QED
    BY <2>2, <2>3, <2>4, <2>5
<1>3. CASE P!ReadFirst(r)
  <2>1. PICK q : q = [r EXCEPT !.at = "second", !.first = inodes[r.node].bytes[1]]
    OBVIOUS
  <2>2. DOMAIN q = ReaderFields /\ q.at = "second" /\ q.first = inodes[r.node].bytes[1] /\ q.key = r.key /\ q.node = r.node
    BY <1>1, <2>1 DEF Reader, ReaderFields
  <2>3. r.at = "first" /\ UNCHANGED <<cache, metas, files>> /\ P!Unread /\ readers' = (readers \ {r}) \union {q}
    BY <1>3, <2>1 DEF P!ReadFirst
  <2>4. Reader(q, inodes, changes)
    BY <1>1, <2>2, <2>3 DEF Reader
  <2>5. readers' \subseteq readers \union {q} /\ Named' /\ Kept(cache', inodes, changes)
    BY <1>1, <2>3 DEF Named
  <2> QED
    BY <2>3, <2>4, <2>5, Reads
<1>4. CASE P!ReadSecond(r)
  <2>1. PICK q : q = [r EXCEPT !.at = "stat", !.second = inodes[r.node].bytes[2]]
    OBVIOUS
  <2>2. /\ DOMAIN q = ReaderFields /\ q.at = "stat" /\ q.second = inodes[r.node].bytes[2]
        /\ q.key = r.key /\ q.node = r.node /\ q.first = r.first
    BY <1>1, <2>1 DEF Reader, ReaderFields
  <2>3. r.at = "second" /\ UNCHANGED <<cache, metas, files>> /\ P!Unread /\ readers' = (readers \ {r}) \union {q}
    BY <1>4, <2>1 DEF P!ReadSecond
  <2>4. Reader(q, inodes, changes)
    BY <1>1, <2>2, <2>3 DEF Reader
  <2>5. readers' \subseteq readers \union {q} /\ Named' /\ Kept(cache', inodes, changes)
    BY <1>1, <2>3 DEF Named
  <2> QED
    BY <2>3, <2>4, <2>5, Reads
<1>5. CASE P!Close(r)
  <2>1. PICK bytes : bytes = <<r.first, r.second>>
    OBVIOUS
  <2>2. /\ r.at = "stat" /\ cache' = P!Cached(r, bytes) /\ P!Drop(r) /\ P!Unread
        /\ \/ P!AnswerMeta(r, inodes[r.node].mtime, P!Digest(bytes))
           \/ P!AnswerFile(r, inodes[r.node].mtime, bytes)
    BY <1>5, <2>1 DEF P!Close
  <2>3. Named'
    BY <2>2, Meta, File
  <2>4. Holds(r.key, inodes, changes) /\ r.node = r.key[1]
    BY <1>1, <2>2 DEF Reader
  <2>5. P!Key(r.node) = r.key => Fits(r.key, inodes)
    BY <2>4 DEF P!Key, Fits
  <2>6. Fits(r.key, inodes) => bytes = inodes[r.node].bytes
    <3>1. inodes[r.node].bytes \in Halves \X Halves
      BY <2>4 DEF PagesInv, Nodes, Holds, Inode
    <3>2. Fits(r.key, inodes) => r.first = inodes[r.node].bytes[1] /\ r.second = inodes[r.node].bytes[2]
      BY <1>1, <2>2 DEF Reader
    <3> QED
      BY <2>1, <3>1, <3>2
  <2>7. Kept(cache', inodes, changes)
    <3>1. CASE P!Key(r.node) = r.key
      <4>1. PICK c : c = [key |-> r.key, digest |-> bytes]
        OBVIOUS
      <4>2. cache' = c /\ c.key = r.key /\ c.digest = bytes
        BY <2>2, <3>1, <4>1 DEF P!Cached, P!Digest
      <4> QED
        BY <2>4, <2>5, <2>6, <3>1, <4>2 DEF Kept
    <3>2. CASE P!Key(r.node) # r.key
      BY <1>1, <2>2, <3>2 DEF P!Cached
    <3> QED
      BY <3>1, <3>2
  <2> QED
    BY <2>2, <2>3, <2>7, Drops DEF P!Drop
<1> QED
  BY <1>2, <1>3, <1>4, <1>5

LEMMA PagesStand == P!Spec => []PagesInv
<1>1. P!Init => PagesInv
  <2> SUFFICES ASSUME P!Init PROVE PagesInv
    OBVIOUS
  <2>1. PICK x \in Halves : inodes = [n \in {1} |-> [mtime |-> 0, ctime |-> 0, bytes |-> <<x, x>>]]
    BY DEF P!Init
  <2>2. PICK i : i = [mtime |-> 0, ctime |-> 0, bytes |-> <<x, x>>]
    OBVIOUS
  <2>3. i \in Inode /\ i.ctime = 0
    BY <2>2 DEF Inode
  <2>4. DOMAIN inodes = {1} /\ inodes[1] = i
    BY <2>1, <2>2
  <2>5. {1} = 1 .. 1
    OBVIOUS
  <2>6. \E n \in Nat : DOMAIN inodes = 1 .. n
    BY <2>4, <2>5
  <2>7. Nodes
    BY <2>3, <2>4, <2>6 DEF Nodes, P!Init
  <2> QED
    BY <2>7 DEF PagesInv, P!Init, Named, Kept
<1>2. PagesInv /\ [P!Next]_P!vars => PagesInv'
  <2> SUFFICES ASSUME PagesInv, [P!Next]_P!vars PROVE PagesInv'
    OBVIOUS
  <2>1. CASE UNCHANGED P!vars
    BY <2>1 DEF P!vars, PagesInv, Nodes, Named
  <2> QED
    BY <2>1, Editors, Asking, Reading DEF P!Next
<1> QED
  BY <1>1, <1>2, PTL DEF P!Spec

\* preview metadata and file route: a page_rev names the body that is shown
\* under it, and the digest cache has the digest of the bytes that are there,
\* through writes in place, renames, restored times and profile flips.
THEOREM PageIdentity == LearnSpec => []IdentityHonest
<1>1. PagesInv => P!IdentityHonest
  <2> SUFFICES ASSUME PagesInv PROVE P!IdentityHonest
    OBVIOUS
  <2>1. \A m \in metas, f \in files : m.version = f.version /\ m.rev # None => m.rev = P!Digest(f.body)
    BY DEF PagesInv, Named, P!Digest
  <2>2. cache # None /\ name # None /\ cache.key = P!Key(name) => cache.digest = P!Digest(inodes[name].bytes)
    BY DEF PagesInv, Kept, Fits, P!Key, P!Digest
  <2> QED
    BY <2>1, <2>2 DEF P!IdentityHonest
<1>2. P!IdentityHonest => IdentityHonest
  BY DEF IdentityHonest
<1> QED
  BY <1>1, <1>2, PagesMove, PagesStand, PTL
-----------------------------------------------------------------------------
(* The bridge *)

Identities == [page : Pages, ver : Versions]
Docs == [kind : {"blank", "page", "other", "refused"}, ver : Versions]
Frame == [gen : Nat, expected : Versions, pending : BOOLEAN, reasserts : Nat, quarantined : BOOLEAN]
View == [doc : Docs, loading : BOOLEAN, going : BOOLEAN, own : BOOLEAN, astray : BOOLEAN]
Answers == {B!Waiting, B!Lost, B!Done} \union B!Metas
FetchRecord == [why : {"bind", "tick", "grant"}, gen : Nat, seen : {B!Waiting, B!Lost} \union B!Metas,
                want : {{}} \union B!Wants]
OpRecord == [req : Requests, kind : OpKinds, gen : Nat, at : Nat, seen : Answers,
             page : SUBSET Identities, fresh : BOOLEAN]

BridgeFields == {"armed", "can", "caps", "granted", "port", "errors", "consent", "granting", "starting",
           "owned", "relay"}

BridgeTypes ==
    /\ meta \in B!Metas /\ frame \in Frame /\ shown \in View
    /\ DOMAIN bridge = BridgeFields
    /\ fetches \subseteq FetchRecord

\* Identity is bound outside a navigation, to a page of the version asked for.
BoundTo(f, b) ==
    /\ b.armed # {} =>
         /\ ~f.pending /\ ~f.quarantined
         /\ \E p \in Pages : b.armed = {[page |-> p, ver |-> f.expected]}
    /\ b.granting \/ b.granted \/ b.port => b.armed # {}
Bound == BoundTo(frame, bridge)

\* A document the parent sent the frame to is the expected one or its refusal.
\* Outside a navigation whose load the parent took for the page's own, one that
\* went there itself is one that loads.
ShownTo(f, s) ==
    /\ ~s.own /\ ~s.going => s.doc.ver = f.expected /\ s.doc.kind \in {"page", "refused"}
    /\ ~f.pending /\ ~f.quarantined /\ ~s.astray => ~s.going /\ (s.own <=> s.loading)

\* A port is asked for by a document that runs scripts of a lesson; what takes
\* its place is one that loads.
HeldBy(s, b) == b.granting \/ b.granted \/ b.port => s.loading \/ s.doc.kind \in {"page", "other"}

Watched == ShownTo(frame, shown) /\ HeldBy(shown, bridge)

\* What an operation knows of the page: an answer that declares what it needs
\* makes it fresh, and so does each stage that follows such an answer.
Informed(o) ==
    /\ o \in OpRecord /\ o.at \in 1 .. Len(B!Stages[o.kind])
    /\ /\ B!Stage(o) = "look" /\ o.seen # B!Waiting /\ o.seen # B!Lost
       /\ B!Needs(o) \subseteq o.seen.can /\ B!Identity(o.seen) \in o.page
       => o.fresh
    /\ o.kind = "attempt" /\ B!Stage(o) = "settle" => o.fresh
    /\ B!Stage(o) \in B!Sends /\ o.seen = B!Waiting => o.fresh

\* An operation of the document on show was asked for under its identity.
PlacedIn(o, f, b) ==
    /\ o.gen <= f.gen
    /\ o.gen = f.gen => f.pending \/ (b.armed # {} /\ o.page = b.armed)
Placed(o) == PlacedIn(o, frame, bridge)

\* A document has one run that starts, and none is relayed meanwhile.
Running(o) == o.kind = "run" /\ o.gen = frame.gen
OneRun ==
    /\ \A o, q \in ops : Running(o) /\ Running(q) => o = q
    /\ \A o \in ops : Running(o) => bridge.relay = NoJob /\ (bridge.starting \/ frame.pending)

BridgeInv == BridgeTypes /\ Bound /\ Watched /\ (\A o \in ops : Informed(o) /\ Placed(o)) /\ OneRun

LEMMA StageOrder ==
  ASSUME KnownKinds, NEW k \in OpKinds, NEW i \in Nat, i >= 1
  PROVE  /\ B!Stages[k][1] = "look" /\ 1 <= Len(B!Stages[k])
         /\ i < Len(B!Stages[k]) =>
              /\ B!Stages[k][i + 1] \in B!Sends =>
                   B!Stages[k][i] = "look" \/ (B!Stages[k][i] = "settle" /\ k = "attempt")
              /\ B!Stages[k][i + 1] = "settle" => B!Stages[k][i] = "look"
              /\ i = 1 /\ k = "get" => B!Stages[k][i + 1] = "look"
<1>1. CASE k = "attempt"
  BY <1>1 DEF B!Stages, B!Sends
<1>2. CASE k = "get"
  BY <1>2 DEF B!Stages, B!Sends
<1>3. CASE k = "save"
  BY <1>3 DEF B!Stages, B!Sends
<1>4. CASE k = "run"
  BY <1>4 DEF B!Stages, B!Sends
<1>5. CASE k = "cancel"
  BY <1>5 DEF B!Stages, B!Sends
<1> QED
  BY <1>1, <1>2, <1>3, <1>4, <1>5 DEF KnownKinds

-----------------------------------------------------------------------------
(* The frame and the bridge. *)

LEMMA Shapes ==
  /\ B!NoBridge.armed = {} /\ B!NoBridge.relay = NoJob /\ DOMAIN B!NoBridge = BridgeFields
  /\ ~B!NoBridge.granting /\ ~B!NoBridge.granted /\ ~B!NoBridge.port
  BY DEF B!NoBridge, BridgeFields

\* A navigation that the parent begins.
LEMMA SentOnward ==
  ASSUME shown \in View
  PROVE  /\ B!SentOn(shown) \in View /\ B!SentOn(shown).going
         /\ B!SentOn(shown).doc = shown.doc /\ B!SentOn(shown).loading = shown.loading
  BY DEF B!SentOn, View

LEMMA Navigates ==
  ASSUME frame \in Frame, shown \in View, NEW m \in B!Metas, B!Navigate(m)
  PROVE  /\ frame' \in Frame /\ DOMAIN bridge' = BridgeFields /\ BoundTo(frame', bridge')
         /\ frame'.gen = frame.gen /\ frame'.pending /\ bridge'.relay = NoJob
         /\ shown' \in View /\ Watched'
<1>1. m.ver \in Versions
  BY DEF B!Metas
<1>2. frame' \in Frame /\ frame'.gen = frame.gen /\ frame'.pending
  BY <1>1 DEF B!Navigate, B!Navigated, Frame
<1>3. bridge' = B!NoBridge /\ shown' = B!SentOn(shown)
  BY DEF B!Navigate
<1>4. shown' \in View /\ shown'.going
  BY <1>3, SentOnward
<1> QED
  BY <1>2, <1>3, <1>4, Shapes DEF BoundTo, Watched, ShownTo, HeldBy

\* Identity is bound at most once, to the document that is expected.
LEMMA Arms ==
  ASSUME BridgeTypes, Bound, NEW m \in B!Metas, m.ver = frame.expected, bridge' = B!Armed(bridge, m), frame' = frame
  PROVE  /\ DOMAIN bridge' = BridgeFields /\ BoundTo(frame', bridge')
         /\ bridge'.granting = bridge.granting /\ bridge'.granted = bridge.granted /\ bridge'.port = bridge.port
         /\ bridge.armed # {} => bridge'.armed = bridge.armed
         /\ bridge'.relay = bridge.relay /\ bridge'.starting = bridge.starting
<1>1. CASE bridge' = bridge
  BY <1>1 DEF BridgeTypes, Bound
<1>2. CASE bridge' # bridge
  <2>1. ~frame.quarantined /\ ~frame.pending /\ bridge.armed = {} /\ ~bridge.granted /\ m.page # NoPage
    BY <1>2 DEF B!Armed
  <2>2. bridge' = [bridge EXCEPT !.armed = {B!Identity(m)}, !.can = m.can]
    BY <2>1 DEF B!Armed
  <2>3. /\ DOMAIN bridge' = BridgeFields /\ bridge'.armed = {B!Identity(m)}
        /\ bridge'.relay = bridge.relay /\ bridge'.starting = bridge.starting
        /\ bridge'.granting = bridge.granting /\ bridge'.granted = bridge.granted /\ bridge'.port = bridge.port
    BY <2>2 DEF BridgeTypes, BridgeFields
  <2>4. m.page \in Pages
    BY <2>1 DEF B!Metas
  <2>5. bridge'.armed = {[page |-> m.page, ver |-> frame.expected]}
    BY <2>3 DEF B!Identity
  <2> QED
    BY <2>1, <2>3, <2>4, <2>5 DEF BoundTo, Bound
<1> QED
  BY <1>1, <1>2

\* The frame goes to another document: what was asked for is of an older one.
LEMMA NewDocument ==
  ASSUME BridgeInv, ops' = ops, frame'.gen = frame.gen + 1
  PROVE  (\A o \in ops : Informed(o) /\ Placed(o))' /\ OneRun'
<1>1. frame.gen \in Nat
  BY DEF BridgeInv, BridgeTypes, Frame
<1>2. ASSUME NEW o \in ops PROVE o.gen <= frame.gen /\ o.gen \in Nat /\ Informed(o)
  BY <1>2 DEF BridgeInv, Placed, PlacedIn, Informed, OpRecord
<1>3. \A o \in ops : o.gen <= frame'.gen /\ o.gen # frame'.gen
  BY <1>1, <1>2
<1>4. (\A o \in ops : Informed(o) /\ Placed(o))'
  BY <1>2, <1>3 DEF Placed, PlacedIn, Informed
<1>5. OneRun'
  BY <1>3 DEF OneRun, Running
<1> QED
  BY <1>4, <1>5

\* The same document: its operations keep their identity.
LEMMA SameDocument ==
  ASSUME BridgeInv, ops' = ops, frame'.gen = frame.gen,
         \/ frame'.pending /\ bridge'.relay = NoJob
         \/ /\ frame' = frame /\ (bridge.armed # {} => bridge'.armed = bridge.armed)
            /\ bridge'.relay \in {bridge.relay, NoJob} /\ bridge'.starting = bridge.starting
  PROVE  (\A o \in ops : Informed(o) /\ Placed(o))' /\ OneRun'
<1>1. ASSUME NEW o \in ops PROVE Informed(o) /\ Placed(o)
  BY <1>1 DEF BridgeInv
<1>2. (\A o \in ops : Informed(o) /\ Placed(o))'
  BY <1>1 DEF Placed, PlacedIn, Informed
<1>3. OneRun'
  BY DEF OneRun, Running, BridgeInv
<1> QED
  BY <1>2, <1>3

\* The browser moves: the runtime knows nothing of it.
LEMMA BrowserSteps ==
  ASSUME BridgeInv, B!Commit \/ B!SelfNavigate
  PROVE  BridgeInv'
<1>1. UNCHANGED <<meta, frame, bridge, fetches, ops>> /\ frame \in Frame /\ shown \in View
  BY DEF B!Commit, B!SelfNavigate, BridgeInv, BridgeTypes
<1>2. ASSUME NEW v \in Versions
      PROVE  B!Served(v) \in Docs /\ B!Served(v).ver = v /\ B!Served(v).kind \in {"page", "refused"}
  BY DEF B!Served, B!Shown, Docs
<1>3. shown' \in View /\ Watched'
  <2>1. CASE B!Commit
    <3>1. PICK d \in Docs : d = B!Served(frame.expected)
      BY <1>1, <1>2 DEF Frame
    <3>2. /\ shown.going
          /\ shown' = [shown EXCEPT !.doc = d, !.loading = TRUE, !.going = FALSE, !.own = FALSE]
      BY <2>1, <3>1 DEF B!Commit
    <3>3. /\ shown' \in View /\ shown'.doc = d /\ shown'.loading
          /\ shown'.astray = shown.astray
      BY <1>1, <3>1, <3>2 DEF View
    <3>4. ~frame.pending /\ ~frame.quarantined => shown.astray
      BY <3>2 DEF BridgeInv, Watched, ShownTo
    <3> QED
      BY <1>1, <1>2, <3>1, <3>3, <3>4 DEF Watched, ShownTo, HeldBy, Frame
  <2>2. CASE B!SelfNavigate
    <3>1. shown.doc.ver \in Versions
      BY <1>1 DEF View, Docs
    <3>2. B!Shown("other", shown.doc.ver) \in Docs /\ B!Served(shown.doc.ver) \in Docs
      BY <1>2, <3>1 DEF B!Shown, Docs
    <3>3. PICK d \in Docs :
            shown' = [shown EXCEPT !.doc = d, !.loading = TRUE, !.going = FALSE, !.own = TRUE]
      BY <2>2, <3>2 DEF B!SelfNavigate
    <3>4. shown' \in View /\ shown'.loading /\ shown'.own /\ ~shown'.going
      BY <1>1, <3>3 DEF View
    <3> QED
      BY <3>4 DEF Watched, ShownTo, HeldBy
  <2> QED
    BY <2>1, <2>2
<1> QED
  BY <1>1, <1>3, SameDocument DEF BridgeInv, BridgeTypes, Bound, BoundTo

LEMMA Loads ==
  ASSUME BridgeInv, B!Load
  PROVE  BridgeInv'
<1>1. frame \in Frame /\ frame.gen \in Nat /\ frame.gen + 1 \in Nat /\ frame.reasserts \in Nat /\ shown \in View
  BY DEF BridgeInv, BridgeTypes, Frame
<1>2. bridge' = B!NoBridge /\ UNCHANGED <<meta, ops>> /\ shown.loading
  BY DEF B!Load
<1>3. PICK next : next = [frame EXCEPT !.gen = @ + 1]
  OBVIOUS
<1>4. PICK loaded : loaded = [shown EXCEPT !.loading = FALSE]
  OBVIOUS
<1>5. /\ next \in Frame /\ next.gen = frame.gen + 1 /\ next.expected = frame.expected
      /\ next.pending = frame.pending
  BY <1>1, <1>3 DEF Frame
<1>6. /\ loaded \in View /\ ~loaded.loading /\ loaded.doc = shown.doc
      /\ loaded.own = shown.own /\ loaded.going = shown.going
  BY <1>1, <1>4 DEF View
<1>7. /\ frame' \in Frame /\ frame'.gen = frame.gen + 1 /\ fetches' \subseteq FetchRecord
      /\ shown' \in View /\ ShownTo(frame', shown')
  <2>1. CASE frame.pending
    <3>1. PICK astray \in BOOLEAN : astray = (shown.own \/ shown.going)
      OBVIOUS
    <3>2. /\ frame' = [next EXCEPT !.pending = FALSE] /\ shown' = [loaded EXCEPT !.astray = astray]
          /\ fetches' = fetches \union {[B!Fetch("bind", {}) EXCEPT !.gen = frame.gen + 1]}
      BY <1>3, <1>4, <2>1, <3>1 DEF B!Load
    <3>3. [B!Fetch("bind", {}) EXCEPT !.gen = frame.gen + 1] \in FetchRecord
      BY <1>1 DEF B!Fetch, FetchRecord
    <3>4. frame' \in Frame /\ frame'.gen = frame.gen + 1 /\ frame'.expected = frame.expected
      BY <1>5, <3>2 DEF Frame
    <3>5. /\ shown' \in View /\ ~shown'.loading /\ shown'.doc = shown.doc
          /\ shown'.own = shown.own /\ shown'.going = shown.going /\ shown'.astray = astray
      BY <1>6, <3>2 DEF View
    <3>6. ShownTo(frame', shown')
      BY <1>1, <3>1, <3>4, <3>5 DEF BridgeInv, Watched, ShownTo, View
    <3> QED
      BY <3>2, <3>3, <3>4, <3>5, <3>6 DEF BridgeInv, BridgeTypes
  <2>2. CASE ~frame.pending
    <3>1. /\ frame' = B!Reasserted(next) /\ UNCHANGED fetches
          /\ shown' = IF frame.reasserts < MaxReasserts THEN B!SentOn(loaded) ELSE loaded
      BY <1>3, <1>4, <2>2 DEF B!Load
    <3>2. next.reasserts = frame.reasserts
      BY <1>1, <1>3 DEF Frame
    <3>3. CASE frame.reasserts < MaxReasserts
      <4>1. PICK n \in Nat : n = next.reasserts + 1
        BY <1>1, <3>2
      <4>2. frame' = [next EXCEPT !.reasserts = n, !.pending = TRUE] /\ shown' = B!SentOn(loaded)
        BY <3>1, <3>2, <3>3, <4>1 DEF B!Reasserted
      <4>3. frame' \in Frame /\ frame'.gen = next.gen /\ frame'.pending
        BY <1>5, <4>2 DEF Frame
      <4>4. shown' \in View /\ shown'.going
        BY <1>6, <4>2 DEF View, B!SentOn
      <4> QED
        BY <1>5, <3>1, <4>3, <4>4 DEF ShownTo, BridgeInv, BridgeTypes
    <3>4. CASE ~(frame.reasserts < MaxReasserts)
      <4>1. frame' = [next EXCEPT !.quarantined = TRUE] /\ shown' = loaded
        BY <3>1, <3>2, <3>4 DEF B!Reasserted
      <4>2. frame' \in Frame /\ frame'.gen = next.gen /\ frame'.quarantined /\ frame'.expected = frame.expected
        BY <1>5, <4>1 DEF Frame
      <4> QED
        BY <1>5, <1>6, <3>1, <4>1, <4>2 DEF ShownTo, BridgeInv, BridgeTypes, Watched
    <3> QED
      BY <3>3, <3>4
  <2> QED
    BY <2>1, <2>2
<1>8. BoundTo(frame', bridge') /\ HeldBy(shown', bridge')
  BY <1>2, Shapes DEF BoundTo, HeldBy
<1> QED
  BY <1>2, <1>7, <1>8, NewDocument, Shapes DEF BridgeInv, BridgeTypes, Bound, Watched

LEMMA Fetches ==
  ASSUME BridgeInv, B!Tick \/ B!Answering
  PROVE  BridgeInv'
<1>1. frame \in Frame /\ frame.gen \in Nat /\ meta \in B!Metas /\ shown \in View
  BY DEF BridgeInv, BridgeTypes, Frame
<1>2. CASE B!Tick
  <2>1. [B!Fetch("tick", {}) EXCEPT !.gen = 0] \in FetchRecord
    BY <1>1 DEF B!Fetch, FetchRecord
  <2>2. UNCHANGED <<meta, frame, shown, bridge, ops>> /\ fetches' \subseteq FetchRecord
    BY <1>2, <2>1 DEF B!Tick, BridgeInv, BridgeTypes
  <2> QED
    BY <2>2, SameDocument DEF BridgeInv, BridgeTypes, Bound, BoundTo, Watched, HeldBy
<1>3. ASSUME NEW f \in fetches, B!AnswerFetch(f)
      PROVE  BridgeInv'
  <2>1. f \in FetchRecord
    BY DEF BridgeInv, BridgeTypes
  <2>2. [f EXCEPT !.seen = meta] \in FetchRecord /\ [f EXCEPT !.seen = B!Lost] \in FetchRecord
    BY <1>1, <2>1 DEF FetchRecord
  <2>3. UNCHANGED <<meta, frame, shown, bridge, ops>> /\ fetches' \subseteq FetchRecord
    BY <1>3, <2>2 DEF B!AnswerFetch, BridgeInv, BridgeTypes
  <2> QED
    BY <2>3, SameDocument DEF BridgeInv, BridgeTypes, Bound, BoundTo, Watched, HeldBy
<1>4. ASSUME NEW f \in fetches, f.seen # B!Waiting, f.seen # B!Lost
      PROVE  f.seen \in B!Metas
  BY <1>4 DEF BridgeInv, BridgeTypes, FetchRecord
<1>5. ASSUME NEW f \in fetches, B!BindDone(f) \/ B!TickDone(f)
      PROVE  BridgeInv'
  <2>1. UNCHANGED <<meta, ops>> /\ fetches' = fetches \ {f} /\ f.seen # B!Waiting
    BY <1>5 DEF B!BindDone, B!TickDone
  <2>2. \/ UNCHANGED <<frame, shown, bridge>>
        \/ f.seen # B!Lost /\ B!Navigate(f.seen)
        \/ f.seen # B!Lost /\ f.seen.ver = frame.expected /\ bridge' = B!Armed(bridge, f.seen) /\ UNCHANGED <<frame, shown>>
    BY <1>5 DEF B!BindDone, B!TickDone
  <2>3. CASE UNCHANGED <<frame, shown, bridge>>
    BY <2>1, <2>3, SameDocument DEF BridgeInv, BridgeTypes, Bound, BoundTo, Watched, HeldBy
  <2>4. CASE f.seen # B!Lost /\ B!Navigate(f.seen)
    <3>1. f.seen \in B!Metas
      BY <1>4, <2>1, <2>4
    <3>2. /\ frame' \in Frame /\ DOMAIN bridge' = BridgeFields /\ BoundTo(frame', bridge')
          /\ frame'.gen = frame.gen /\ frame'.pending /\ bridge'.relay = NoJob
          /\ shown' \in View /\ Watched'
      BY <1>1, <2>4, <3>1, Navigates
    <3> QED
      BY <2>1, <3>2, SameDocument DEF BridgeInv, BridgeTypes, Bound
  <2>5. CASE f.seen # B!Lost /\ f.seen.ver = frame.expected /\ bridge' = B!Armed(bridge, f.seen) /\ UNCHANGED <<frame, shown>>
    <3>1. f.seen \in B!Metas
      BY <1>4, <2>1, <2>5
    <3>2. /\ DOMAIN bridge' = BridgeFields /\ BoundTo(frame', bridge')
          /\ bridge'.granting = bridge.granting /\ bridge'.granted = bridge.granted /\ bridge'.port = bridge.port
          /\ bridge.armed # {} => bridge'.armed = bridge.armed
          /\ bridge'.relay = bridge.relay /\ bridge'.starting = bridge.starting
      BY <2>5, <3>1, Arms DEF BridgeInv
    <3> QED
      BY <2>1, <2>5, <3>2, SameDocument DEF BridgeInv, BridgeTypes, Bound, Watched, HeldBy
  <2> QED
    BY <2>2, <2>3, <2>4, <2>5
<1>6. ASSUME NEW f \in fetches, B!GrantDone(f)
      PROVE  BridgeInv'
  <2>1. UNCHANGED <<meta, ops, frame, shown>> /\ fetches' = fetches \ {f}
    BY <1>6 DEF B!GrantDone
  <2>2. CASE bridge' = bridge
    BY <2>1, <2>2, SameDocument DEF BridgeInv, BridgeTypes, Bound, BoundTo, Watched, HeldBy
  <2>3. CASE bridge' # bridge
    <3>1. PICK b : b = [bridge EXCEPT !.granting = FALSE]
      OBVIOUS
    <3>2. bridge.granting
      BY <1>6, <2>3 DEF B!GrantDone
    <3>3. \/ bridge' = b
          \/ bridge' = B!Granted([b EXCEPT !.can = f.seen.can], f.want)
      BY <1>6, <2>3, <3>1 DEF B!GrantDone
    <3>4. /\ DOMAIN bridge' = BridgeFields /\ bridge'.armed = bridge.armed
          /\ bridge'.relay = bridge.relay /\ bridge'.starting = bridge.starting
      BY <3>1, <3>3 DEF B!Granted, BridgeInv, BridgeTypes, BridgeFields
    <3>5. bridge.armed # {} /\ (shown.loading \/ shown.doc.kind \in {"page", "other"})
      BY <3>2 DEF BridgeInv, Bound, BoundTo, Watched, HeldBy
    <3>6. BoundTo(frame', bridge') /\ HeldBy(shown', bridge')
      BY <2>1, <3>4, <3>5 DEF BridgeInv, Bound, BoundTo, HeldBy
    <3> QED
      BY <2>1, <3>4, <3>6, SameDocument DEF BridgeInv, BridgeTypes, Bound, Watched, HeldBy
  <2> QED
    BY <2>2, <2>3
<1> QED
  BY <1>2, <1>3, <1>5, <1>6 DEF B!Answering

LEMMA Handshakes ==
  ASSUME BridgeInv, (\E want \in B!Wants : B!Announce(want)) \/ B!ProtocolError
  PROVE  BridgeInv'
<1>1. frame \in Frame /\ frame.gen \in Nat
  BY DEF BridgeInv, BridgeTypes, Frame
<1>2. ASSUME NEW want \in B!Wants, B!Announce(want)
      PROVE  BridgeInv'
  <2>1. UNCHANGED <<meta, ops, frame, shown>> /\ shown.doc.kind \in {"page", "other"}
    BY <1>2 DEF B!Announce
  <2>3. B!Fetch("bind", {}) \in FetchRecord /\ B!Fetch("grant", want) \in FetchRecord
    BY <1>1 DEF B!Fetch, FetchRecord
  <2>4. fetches' \subseteq FetchRecord
    BY <1>2, <2>3 DEF B!Announce, BridgeInv, BridgeTypes
  <2>5. CASE bridge.armed = {}
    <3>1. bridge' = bridge
      BY <1>2, <2>5 DEF B!Announce
    <3> QED
      BY <2>1, <2>4, <3>1, SameDocument DEF BridgeInv, BridgeTypes, Bound, BoundTo, Watched, HeldBy
  <2>6. CASE bridge.armed # {}
    <3>1. bridge' = [bridge EXCEPT !.granting = TRUE] \/ bridge' = B!Granted(bridge, want)
      BY <1>2, <2>6 DEF B!Announce
    <3>2. /\ DOMAIN bridge' = BridgeFields /\ bridge'.armed = bridge.armed
          /\ bridge'.relay = bridge.relay /\ bridge'.starting = bridge.starting
      BY <3>1 DEF B!Granted, BridgeInv, BridgeTypes, BridgeFields
    <3>3. BoundTo(frame', bridge') /\ HeldBy(shown', bridge')
      BY <2>1, <2>6, <3>2 DEF BridgeInv, Bound, BoundTo, HeldBy
    <3> QED
      BY <2>1, <2>4, <3>2, <3>3, SameDocument DEF BridgeInv, BridgeTypes, Bound, Watched, HeldBy
  <2> QED
    BY <2>5, <2>6
<1>3. CASE B!ProtocolError
  <2>1. UNCHANGED <<meta, ops, frame, shown, fetches>> /\ bridge.port
    BY <1>3 DEF B!ProtocolError
  <2>2. /\ DOMAIN bridge' = BridgeFields /\ bridge'.armed = bridge.armed
        /\ bridge'.relay = bridge.relay /\ bridge'.starting = bridge.starting
        /\ bridge'.granting = bridge.granting /\ bridge'.granted = bridge.granted
    BY <1>3 DEF B!ProtocolError, BridgeInv, BridgeTypes, BridgeFields
  <2>3. BoundTo(frame', bridge')
    BY <2>1, <2>2 DEF BridgeInv, Bound, BoundTo
  <2> QED
    BY <2>1, <2>2, <2>3, SameDocument DEF BridgeInv, BridgeTypes, Bound, Watched, HeldBy
<1> QED
  BY <1>2, <1>3

LEMMA Relays ==
  ASSUME BridgeInv, (\E seq \in 1 .. (Outputs + 1) : B!RelayEvent(seq)) \/ B!RelayEnds
  PROVE  BridgeInv'
<1>1. \E owned : B!Disowned(bridge) = [bridge EXCEPT !.owned = owned, !.relay = NoJob]
  BY DEF B!Disowned
<1>2. PICK owned : B!Disowned(bridge) = [bridge EXCEPT !.owned = owned, !.relay = NoJob]
  BY <1>1
<1>3. UNCHANGED <<meta, ops, frame, shown, fetches>>
  BY DEF B!RelayEvent, B!RelayEnds
<1>4. bridge' \in {bridge, B!Disowned(bridge), [bridge EXCEPT !.relay = NoJob]}
  BY DEF B!RelayEvent, B!RelayEnds
<1>5. /\ DOMAIN bridge' = BridgeFields /\ bridge'.armed = bridge.armed
      /\ bridge'.relay \in {bridge.relay, NoJob} /\ bridge'.starting = bridge.starting
      /\ bridge'.granting = bridge.granting /\ bridge'.granted = bridge.granted /\ bridge'.port = bridge.port
  BY <1>2, <1>4 DEF BridgeInv, BridgeTypes, BridgeFields
<1>6. BoundTo(frame', bridge')
  BY <1>3, <1>5 DEF BridgeInv, Bound, BoundTo
<1> QED
  BY <1>3, <1>5, <1>6, SameDocument DEF BridgeInv, BridgeTypes, Bound, Watched, HeldBy
-----------------------------------------------------------------------------
(* Operations. *)

\* Of two that are the same but for what they heard, at their stage or the next.
LEMMA Replaces ==
  ASSUME BridgeInv, NEW o \in ops, NEW q, Informed(q), q.gen = o.gen, q.kind = o.kind, q.page = o.page,
         ops' = (ops \ {o}) \union {q}, meta' \in B!Metas, frame' = frame, shown' = shown, fetches' = fetches,
         DOMAIN bridge' = BridgeFields, bridge'.armed = bridge.armed, bridge'.relay = bridge.relay,
         bridge'.starting = bridge.starting, bridge'.granting = bridge.granting,
         bridge'.granted = bridge.granted, bridge'.port = bridge.port
  PROVE  BridgeInv'
<1>1. BridgeTypes' /\ Bound' /\ Watched'
  BY DEF BridgeInv, BridgeTypes, Bound, BoundTo, Watched, HeldBy
<1>2. ASSUME NEW p \in ops PROVE Informed(p) /\ Placed(p)
  BY <1>2 DEF BridgeInv
<1>3. (\A p \in ops : Informed(p) /\ Placed(p))'
  BY <1>2 DEF Placed, PlacedIn, Informed
<1>4. Running(o) <=> Running(q)
  BY DEF Running
<1>5. OneRun'
  BY <1>4 DEF OneRun, Running, BridgeInv
<1> QED
  BY <1>1, <1>3, <1>5 DEF BridgeInv

LEMMA Stays ==
  ASSUME BridgeInv
  PROVE  /\ DOMAIN bridge = BridgeFields /\ meta \in B!Metas
         /\ \A o \in ops : o \in OpRecord /\ Informed(o)
  BY DEF BridgeInv, BridgeTypes, Informed

LEMMA Edits ==
  ASSUME BridgeInv, B!EditBundle
  PROVE  BridgeInv'
<1>1. meta' \in B!Metas /\ UNCHANGED <<frame, shown, bridge, fetches>>
  BY DEF B!EditBundle
<1>2. PICK m : ops' = {IF B!Needs(o) \subseteq m.can /\ B!Identity(m) \in o.page
                       THEN [o EXCEPT !.fresh = TRUE] ELSE o : o \in ops}
  BY DEF B!EditBundle
<1>3. ASSUME NEW o \in ops
      PROVE  LET q == [o EXCEPT !.fresh = TRUE]
             IN  Informed(q) /\ q.gen = o.gen /\ q.kind = o.kind /\ q.page = o.page
  <2>1. o \in OpRecord /\ Informed(o)
    BY Stays
  <2> PICK q : q = [o EXCEPT !.fresh = TRUE]
    OBVIOUS
  <2>2. q \in OpRecord /\ q.gen = o.gen /\ q.kind = o.kind /\ q.page = o.page /\ q.fresh /\ q.at = o.at
    BY <2>1 DEF OpRecord
  <2> QED
    BY <2>1, <2>2 DEF Informed
<1>4. ASSUME NEW q \in ops'
      PROVE  Informed(q) /\ \E o \in ops : /\ q.gen = o.gen /\ q.kind = o.kind /\ q.page = o.page
                                          /\ q = IF B!Needs(o) \subseteq m.can /\ B!Identity(m) \in o.page
                                                 THEN [o EXCEPT !.fresh = TRUE] ELSE o
  BY <1>2, <1>3, Stays
<1>5. ASSUME NEW q \in ops' PROVE PlacedIn(q, frame, bridge)
  BY <1>4 DEF BridgeInv, Placed, PlacedIn
<1>6. (\A q \in ops : Informed(q) /\ Placed(q))'
  BY <1>1, <1>4, <1>5 DEF Placed, Informed
<1>7. OneRun'
  <2>1. ASSUME NEW p \in ops', NEW q \in ops', Running(p), Running(q)
        PROVE  p = q /\ bridge.relay = NoJob /\ (bridge.starting \/ frame.pending)
    <3>1. PICK a \in ops : /\ Running(a)
                          /\ p = IF B!Needs(a) \subseteq m.can /\ B!Identity(m) \in a.page
                                 THEN [a EXCEPT !.fresh = TRUE] ELSE a
      BY <1>4, <2>1 DEF Running
    <3>2. PICK b \in ops : /\ Running(b)
                          /\ q = IF B!Needs(b) \subseteq m.can /\ B!Identity(m) \in b.page
                                 THEN [b EXCEPT !.fresh = TRUE] ELSE b
      BY <1>4, <2>1 DEF Running
    <3>3. a = b /\ bridge.relay = NoJob /\ (bridge.starting \/ frame.pending)
      BY <3>1, <3>2 DEF BridgeInv, OneRun
    <3> QED
      BY <3>1, <3>2, <3>3
  <2> QED
    BY <1>1, <2>1 DEF OneRun, Running
<1> QED
  BY <1>1, <1>6, <1>7 DEF BridgeInv, BridgeTypes, Bound, BoundTo, Watched, HeldBy

LEMMA Asks ==
  ASSUME KnownKinds, BridgeInv, NEW r \in Requests, NEW k \in OpKinds, B!Ask(r, k)
  PROVE  BridgeInv'
<1>1. PICK q : q = [req |-> r, kind |-> k, gen |-> frame.gen, at |-> 1, seen |-> B!Waiting,
                    page |-> bridge.armed, fresh |-> FALSE]
  OBVIOUS
<1>2. /\ ops' = ops \union {q} /\ UNCHANGED <<meta, frame, shown, fetches>> /\ bridge.port
      /\ bridge' = [bridge EXCEPT !.starting = @ \/ k = "run"]
      /\ k = "run" => bridge.relay = NoJob /\ ~bridge.starting
  BY <1>1 DEF B!Ask
<1>3. bridge.armed # {} /\ ~frame.pending /\ bridge.armed \subseteq Identities /\ frame.gen \in Nat
  BY <1>2 DEF BridgeInv, Bound, BoundTo, BridgeTypes, Frame, Identities
<1>4. /\ DOMAIN bridge' = BridgeFields /\ bridge'.armed = bridge.armed /\ bridge'.relay = bridge.relay
      /\ bridge'.starting = (bridge.starting \/ k = "run") /\ bridge'.granting = bridge.granting
      /\ bridge'.granted = bridge.granted /\ bridge'.port = bridge.port
  BY <1>2 DEF BridgeInv, BridgeTypes, BridgeFields
<1>5. Informed(q)
  <2>1. q \in OpRecord
    BY <1>1, <1>3 DEF OpRecord, Answers
  <2>2. B!Stages[k][1] = "look" /\ 1 <= Len(B!Stages[k]) /\ Len(B!Stages[k]) \in Nat
    BY StageOrder
  <2>3. B!Stage(q) = "look" /\ q.at \in 1 .. Len(B!Stages[q.kind]) /\ q.seen = B!Waiting
    BY <1>1, <2>2 DEF B!Stage
  <2> QED
    BY <2>1, <2>3 DEF Informed, B!Sends
<1>6. PlacedIn(q, frame, bridge)
  BY <1>1, <1>3 DEF PlacedIn
<1>7. (\A o \in ops : Informed(o) /\ Placed(o))'
  BY <1>2, <1>4, <1>5, <1>6 DEF BridgeInv, Placed, PlacedIn, Informed
<1>8. OneRun'
  <2>1. (Running(q) <=> k = "run") /\ (Running(q) => bridge'.relay = NoJob /\ bridge'.starting)
    BY <1>1, <1>2, <1>4 DEF Running
  <2>2. ASSUME NEW o \in ops, Running(o)
        PROVE  bridge.starting /\ bridge'.relay = NoJob /\ bridge'.starting /\ ~Running(q)
    BY <1>2, <1>3, <1>4, <2>1, <2>2 DEF BridgeInv, OneRun
  <2>3. \A o, p \in ops : Running(o) /\ Running(p) => o = p
    BY DEF BridgeInv, OneRun
  <2>4. ASSUME NEW o \in ops', NEW p \in ops', Running(o), Running(p)
        PROVE  o = p /\ bridge'.relay = NoJob /\ bridge'.starting
    BY <1>2, <2>1, <2>2, <2>3, <2>4
  <2> QED
    BY <1>2, <2>4 DEF OneRun, Running
<1> QED
  BY <1>2, <1>4, <1>7, <1>8 DEF BridgeInv, BridgeTypes, Bound, BoundTo, Watched, HeldBy

LEMMA Answered ==
  ASSUME BridgeInv, NEW o \in ops, B!AnswerOp(o)
  PROVE  BridgeInv'
<1>1. o \in OpRecord /\ Informed(o) /\ meta \in B!Metas /\ DOMAIN bridge = BridgeFields
  BY Stays
<1>2. UNCHANGED <<meta, frame, shown, bridge, fetches>> /\ o.seen = B!Waiting /\ B!Stage(o) # "settle"
  BY DEF B!AnswerOp
<1> DEFINE now == B!Needs(o) \subseteq meta.can /\ B!Identity(meta) \in o.page
<1>3. PICK q : /\ ops' = (ops \ {o}) \union {q}
               /\ \/ q = [o EXCEPT !.seen = IF B!Stage(o) = "look" THEN meta ELSE B!Done,
                                   !.fresh = IF B!Stage(o) = "look" THEN @ \/ now ELSE now]
                  \/ q = [o EXCEPT !.seen = B!Lost]
  BY DEF B!AnswerOp
<1>4. \/ q = [o EXCEPT !.seen = meta, !.fresh = @ \/ now] /\ B!Stage(o) = "look"
      \/ q = [o EXCEPT !.seen = B!Done, !.fresh = now] /\ B!Stage(o) # "look"
      \/ q = [o EXCEPT !.seen = B!Lost]
  BY <1>3
<1>5. B!Lost # B!Waiting /\ B!Done # B!Waiting
  BY DEF B!Lost, B!Waiting, B!Done
<1>6. /\ q \in OpRecord /\ q.gen = o.gen /\ q.kind = o.kind /\ q.page = o.page /\ q.at = o.at
      /\ B!Stage(q) = B!Stage(o)
      /\ \/ q.seen = meta /\ q.fresh = (o.fresh \/ now) /\ B!Stage(o) = "look"
         \/ q.seen = B!Done /\ B!Stage(o) # "look"
         \/ q.seen = B!Lost /\ q.fresh = o.fresh
  <2> now \in BOOLEAN
    OBVIOUS
  <2> HIDE DEF now
  <2>1. CASE q = [o EXCEPT !.seen = meta, !.fresh = @ \/ now] /\ B!Stage(o) = "look"
    BY <1>1, <2>1 DEF OpRecord, Answers, B!Stage
  <2>2. CASE q = [o EXCEPT !.seen = B!Done, !.fresh = now] /\ B!Stage(o) # "look"
    BY <1>1, <2>2 DEF OpRecord, Answers, B!Stage
  <2>3. CASE q = [o EXCEPT !.seen = B!Lost]
    BY <1>1, <2>3 DEF OpRecord, Answers, B!Stage
  <2> QED
    BY <1>4, <2>1, <2>2, <2>3
<1>7. Informed(q)
  <2>1. B!Needs(q) = B!Needs(o)
    BY <1>6 DEF B!Needs
  <2>2. CASE q.seen = meta /\ q.fresh = (o.fresh \/ now) /\ B!Stage(o) = "look"
    BY <1>1, <1>2, <1>6, <2>1, <2>2 DEF Informed, B!Sends
  <2>3. CASE q.seen = B!Done /\ B!Stage(o) # "look"
    BY <1>1, <1>2, <1>5, <1>6, <2>1, <2>3 DEF Informed
  <2>4. CASE q.seen = B!Lost /\ q.fresh = o.fresh
    BY <1>1, <1>2, <1>5, <1>6, <2>1, <2>4 DEF Informed
  <2> QED
    BY <1>6, <2>2, <2>3, <2>4
<1> QED
  BY <1>1, <1>2, <1>3, <1>6, <1>7, Replaces

\* What lets an operation go on past a look is an answer that makes it fresh.
LEMMA AllowedIsFresh ==
  ASSUME BridgeInv, NEW o \in ops, B!Allows(o), B!Stage(o) = "look", o.seen # B!Waiting
  PROVE  o.fresh
<1>1. /\ o.gen = frame.gen /\ bridge.port /\ o.seen # B!Lost /\ ~frame.pending
      /\ o.seen.ver = frame.expected /\ o.seen.page # NoPage /\ B!IdentityMatches(o.seen)
      /\ B!Needs(o) \subseteq o.seen.can
  BY DEF B!Allows, B!Live, B!LookAllows, B!Settled
<1>2. o.page = bridge.armed /\ bridge.armed # {} /\ Informed(o)
  BY <1>1 DEF BridgeInv, Placed, PlacedIn
<1>3. bridge.armed \subseteq {B!Identity(o.seen)}
  BY <1>1 DEF B!IdentityMatches
<1>4. B!Identity(o.seen) \in o.page
  BY <1>2, <1>3
<1> QED
  BY <1>1, <1>2, <1>4 DEF Informed

LEMMA Goes ==
  ASSUME KnownKinds, BridgeInv, NEW o \in ops, B!GoOn(o)
  PROVE  BridgeInv'
<1>1. o \in OpRecord /\ Informed(o) /\ meta \in B!Metas /\ DOMAIN bridge = BridgeFields
  BY Stays
<1>2. /\ UNCHANGED <<meta, frame, shown, fetches>> /\ o.at < Len(B!Stages[o.kind])
      /\ B!Allows(o) /\ (o.seen # B!Waiting \/ B!Stage(o) = "settle")
  BY DEF B!GoOn
<1>3. o.at \in Nat /\ o.at >= 1 /\ o.kind \in OpKinds /\ o.fresh \in BOOLEAN /\ Len(B!Stages[o.kind]) \in Nat
  BY <1>1, StageOrder DEF Informed, OpRecord
<1>4. /\ DOMAIN bridge' = BridgeFields /\ bridge'.armed = bridge.armed /\ bridge'.relay = bridge.relay
      /\ bridge'.starting = bridge.starting /\ bridge'.granting = bridge.granting
      /\ bridge'.granted = bridge.granted /\ bridge'.port = bridge.port
  <2>1. \E c : bridge' \in {bridge, [bridge EXCEPT !.consent = c]}
    BY DEF B!GoOn
  <2> QED
    BY <1>1, <2>1 DEF BridgeFields
<1> DEFINE keep == o.fresh /\ ~(B!Stage(o) = "settle" /\ o.kind # "attempt")
<1>5. \/ ops' = ops \ {o}
      \/ \E q : /\ ops' = (ops \ {o}) \union {q}
               /\ \/ q = [o EXCEPT !.at = @ + 1, !.seen = B!Waiting, !.fresh = FALSE] /\ o.kind = "get" /\ o.at = 1
                  \/ q = [o EXCEPT !.at = @ + 1, !.seen = B!Waiting, !.fresh = keep]
  BY DEF B!GoOn
<1>6. CASE ops' = ops \ {o}
  <2>1. (\A p \in ops : Informed(p) /\ Placed(p))'
    BY <1>2, <1>4, <1>6 DEF BridgeInv, Placed, PlacedIn, Informed
  <2>2. OneRun'
    BY <1>2, <1>4, <1>6 DEF BridgeInv, OneRun, Running
  <2> QED
    BY <1>2, <1>4, <2>1, <2>2 DEF BridgeInv, BridgeTypes, Bound, BoundTo, Watched, HeldBy
<1>7. ASSUME NEW q, ops' = (ops \ {o}) \union {q},
             \/ q = [o EXCEPT !.at = @ + 1, !.seen = B!Waiting, !.fresh = FALSE] /\ o.kind = "get" /\ o.at = 1
             \/ q = [o EXCEPT !.at = @ + 1, !.seen = B!Waiting, !.fresh = keep]
      PROVE  BridgeInv'
  <2>1. keep \in BOOLEAN
    OBVIOUS
  <2>2. PICK n \in Nat : n = o.at + 1
    BY <1>3
  <2>3. /\ q \in OpRecord /\ q.gen = o.gen /\ q.kind = o.kind /\ q.page = o.page
        /\ q.at = n /\ q.seen = B!Waiting
        /\ (o.kind = "get" /\ o.at = 1) \/ q.fresh = keep
    <3> HIDE DEF keep
    <3> QED
      BY <1>1, <1>7, <2>1, <2>2 DEF OpRecord, Answers
  <2>4. B!Stage(q) = B!Stages[o.kind][o.at + 1] /\ B!Stage(o) = B!Stages[o.kind][o.at]
    BY <2>2, <2>3 DEF B!Stage
  <2>5. /\ B!Stage(q) \in B!Sends => B!Stage(o) = "look" \/ (B!Stage(o) = "settle" /\ o.kind = "attempt")
        /\ B!Stage(q) = "settle" => B!Stage(o) = "look"
        /\ o.at = 1 /\ o.kind = "get" => B!Stage(q) = "look"
    BY <1>2, <1>3, <2>4, StageOrder
  <2>6. B!Stage(q) \in B!Sends \/ (q.kind = "attempt" /\ B!Stage(q) = "settle") => q.fresh
    <3>1. SUFFICES ASSUME B!Stage(q) \in B!Sends \/ (q.kind = "attempt" /\ B!Stage(q) = "settle") PROVE q.fresh
      OBVIOUS
    <3>2. q.fresh = keep
      BY <2>3, <2>5, <3>1 DEF B!Sends
    <3>3. CASE B!Stage(o) = "look"
      <4>1. o.fresh
        BY <1>2, <3>3, AllowedIsFresh
      <4> QED
        BY <3>2, <3>3, <4>1
    <3>4. CASE B!Stage(o) = "settle" /\ o.kind = "attempt"
      BY <1>1, <3>2, <3>4 DEF Informed
    <3> QED
      BY <2>3, <2>5, <3>1, <3>3, <3>4
  <2>7. q.at \in 1 .. Len(B!Stages[q.kind])
    BY <1>2, <1>3, <2>2, <2>3
  <2>8. Informed(q)
    BY <2>3, <2>6, <2>7 DEF Informed
  <2> QED
    BY <1>1, <1>2, <1>4, <1>7, <2>3, <2>8, Replaces
<1> QED
  BY <1>5, <1>6, <1>7

LEMMA Ends ==
  ASSUME BridgeInv, NEW o \in ops, B!Stop(o) \/ B!Finish(o)
  PROVE  BridgeInv'
<1>1. o \in OpRecord /\ DOMAIN bridge = BridgeFields
  BY Stays
<1>2. ops' = ops \ {o} /\ UNCHANGED <<meta, frame, shown, fetches>>
  BY DEF B!Stop, B!Finish
<1>3. \E owned : B!Remembered(bridge, o.req) = [bridge EXCEPT !.owned = owned, !.relay = o.req]
  BY DEF B!Remembered
<1>4. PICK owned : B!Remembered(bridge, o.req) = [bridge EXCEPT !.owned = owned, !.relay = o.req]
  BY <1>3
<1>5. PICK b : /\ bridge' = B!Finished(o, b)
               /\ b = bridge \/ (b = [bridge EXCEPT !.owned = owned, !.relay = o.req] /\ Running(o) /\ ~frame.pending)
  <2>1. CASE B!Stop(o)
    BY <2>1 DEF B!Stop
  <2>2. CASE B!Finish(o)
    <3>1. bridge' = B!Finished(o, IF o.kind = "run" THEN B!Remembered(bridge, o.req) ELSE bridge)
      BY <2>2 DEF B!Finish
    <3>2. o.gen = frame.gen /\ bridge.port
      BY <2>2 DEF B!Finish, B!Allows, B!Live
    <3>3. ~frame.pending
      BY <3>2 DEF BridgeInv, Bound, BoundTo
    <3> QED
      BY <1>4, <3>1, <3>2, <3>3 DEF Running
  <2> QED
    BY <2>1, <2>2
<1>6. /\ DOMAIN b = BridgeFields /\ b.armed = bridge.armed /\ b.starting = bridge.starting
      /\ b.granting = bridge.granting /\ b.granted = bridge.granted /\ b.port = bridge.port
      /\ b.relay = bridge.relay \/ (Running(o) /\ ~frame.pending)
  BY <1>1, <1>5 DEF BridgeFields
<1>7. /\ DOMAIN bridge' = BridgeFields /\ bridge'.armed = bridge.armed
      /\ bridge'.starting = (bridge.starting /\ ~Running(o))
      /\ bridge'.granting = bridge.granting /\ bridge'.granted = bridge.granted /\ bridge'.port = bridge.port
      /\ bridge'.relay = b.relay
  BY <1>5, <1>6 DEF B!Finished, BridgeFields, Running
<1>8. (\A p \in ops : Informed(p) /\ Placed(p))'
  BY <1>2, <1>7 DEF BridgeInv, Placed, PlacedIn, Informed
<1>9. OneRun'
  <2>1. \A p, q \in ops : Running(p) /\ Running(q) => p = q
    BY DEF BridgeInv, OneRun
  <2>2. CASE Running(o)
    <3>1. \A p \in ops' : ~Running(p)
      BY <1>2, <2>1, <2>2
    <3> QED
      BY <1>2, <3>1 DEF OneRun, Running
  <2>3. CASE ~Running(o)
    BY <1>2, <1>6, <1>7, <2>3 DEF BridgeInv, OneRun, Running
  <2> QED
    BY <2>2, <2>3
<1> QED
  BY <1>2, <1>7, <1>8, <1>9 DEF BridgeInv, BridgeTypes, Bound, BoundTo, Watched, HeldBy
-----------------------------------------------------------------------------
LEMMA Begins ==
  ASSUME B!Init
  PROVE  BridgeInv
<1>1. PICK v \in Versions, p \in Pages, loads \in 0 .. 2, own \in BOOLEAN :
        /\ meta = [ver |-> v, page |-> p, can |-> {"question", "block", "run"}]
        /\ frame = [gen |-> 0, expected |-> v, pending |-> loads # 1,
                    reasserts |-> IF loads = 2 THEN 1 ELSE 0, quarantined |-> FALSE]
        /\ own => loads # 0
        /\ loads = 2 => own
        /\ shown = [doc |-> B!Shown(IF own THEN "other" ELSE IF loads = 0 THEN "blank" ELSE "page", v),
                    loading |-> FALSE, going |-> loads # 1, own |-> own, astray |-> own /\ loads = 1]
        /\ bridge = B!NoBridge
        /\ fetches = {} /\ ops = {}
  BY DEF B!Init
<1>2. meta \in B!Metas
  BY <1>1 DEF B!Metas
<1>3. frame \in Frame
  BY <1>1 DEF Frame
<1>4. PICK kind \in {"other", "blank", "page"} :
        kind = IF own THEN "other" ELSE IF loads = 0 THEN "blank" ELSE "page"
  OBVIOUS
<1>5. PICK going \in BOOLEAN, astray \in BOOLEAN : going = (loads # 1) /\ astray = (own /\ loads = 1)
  OBVIOUS
<1>6. shown = [doc |-> B!Shown(kind, v), loading |-> FALSE, going |-> going, own |-> own, astray |-> astray]
  BY <1>1, <1>4, <1>5
<1>7. B!Shown(kind, v) \in Docs /\ B!Shown(kind, v).kind = kind /\ B!Shown(kind, v).ver = v
  BY <1>4 DEF B!Shown, Docs
<1>8. shown \in View
  BY <1>6, <1>7 DEF View
<1>9. /\ frame.expected = v /\ frame.pending = (loads # 1)
      /\ shown.doc.kind = kind /\ shown.doc.ver = v /\ ~shown.loading
      /\ shown.going = going /\ shown.own = own /\ shown.astray = astray
  BY <1>1, <1>6, <1>7
<1>10. ShownTo(frame, shown)
  BY <1>1, <1>4, <1>5, <1>9 DEF ShownTo
<1>11. Bound /\ HeldBy(shown, bridge)
  BY <1>1, Shapes DEF Bound, BoundTo, HeldBy
<1> QED
  BY <1>1, <1>2, <1>3, <1>8, <1>10, <1>11, Shapes DEF BridgeInv, BridgeTypes, Watched, OneRun

LEMMA Honest ==
  ASSUME BridgeInv
  PROVE  B!BridgeHonest
<1>1. bridge.port =>
        /\ ~frame.pending /\ ~frame.quarantined
        /\ \E p \in Pages : bridge.armed = {[page |-> p, ver |-> frame.expected]}
        /\ shown.doc = B!Shown("page", frame.expected) \/ B!Strayed
  <2> SUFFICES ASSUME bridge.port
               PROVE  /\ ~frame.pending /\ ~frame.quarantined
                      /\ \E p \in Pages : bridge.armed = {[page |-> p, ver |-> frame.expected]}
                      /\ shown.doc = B!Shown("page", frame.expected) \/ B!Strayed
    OBVIOUS
  <2>1. /\ ~frame.pending /\ ~frame.quarantined
        /\ \E p \in Pages : bridge.armed = {[page |-> p, ver |-> frame.expected]}
    BY DEF BridgeInv, Bound, BoundTo
  <2>2. CASE B!Strayed
    BY <2>1, <2>2
  <2>3. CASE ~B!Strayed
    <3>1. ~shown.going /\ ~shown.own /\ ~shown.loading
      BY <2>1, <2>3 DEF BridgeInv, Watched, ShownTo, B!Strayed
    <3>2. shown.doc.kind = "page" /\ shown.doc.ver = frame.expected
      BY <3>1 DEF BridgeInv, Watched, ShownTo, HeldBy
    <3>3. shown.doc \in Docs
      BY DEF BridgeInv, BridgeTypes, View
    <3> QED
      BY <2>1, <3>2, <3>3 DEF Docs, B!Shown
  <2> QED
    BY <2>2, <2>3
<1>2. \A o \in ops : B!Live(o) /\ o.seen = B!Waiting /\ B!Stage(o) \in B!Sends => o.fresh
  BY DEF BridgeInv, Informed
<1>3. Cardinality({o \in ops : o.kind = "run" /\ o.gen = frame.gen}) + (IF B!OwnsRelay THEN 1 ELSE 0) <= 1
  <2> DEFINE runs == {o \in ops : o.kind = "run" /\ o.gen = frame.gen}
  <2>1. CASE runs = {}
    BY <2>1, FS_EmptySet
  <2>2. CASE runs # {}
    <3>1. PICK o \in ops : Running(o)
      BY <2>2 DEF Running
    <3>2. runs = {o}
      BY <3>1 DEF BridgeInv, OneRun, Running
    <3>3. ~B!OwnsRelay
      BY <3>1 DEF BridgeInv, OneRun, B!OwnsRelay
    <3> QED
      BY <3>2, <3>3, FS_Singleton
  <2> QED
    BY <2>1, <2>2
<1>4. B!Cardinality({o \in ops : o.kind = "run" /\ o.gen = frame.gen}) = Cardinality({o \in ops : o.kind = "run" /\ o.gen = frame.gen})
  BY DEF B!Cardinality, Cardinality
<1> QED
  BY <1>1, <1>2, <1>3, <1>4 DEF B!BridgeHonest

LEMMA BridgeStands == B!Spec => []BridgeInv
<1>1. BridgeInv /\ [B!Next]_B!vars => BridgeInv'
  <2> SUFFICES ASSUME BridgeInv, [B!Next]_B!vars PROVE BridgeInv'
    OBVIOUS
  <2>1. CASE UNCHANGED B!vars
    BY <2>1 DEF B!vars, BridgeInv, BridgeTypes, Bound, BoundTo, Watched, HeldBy, Placed, PlacedIn, Informed, OneRun, Running
  <2>2. ASSUME NEW o \in ops, B!AnswerOp(o) \/ B!Stop(o) \/ B!GoOn(o) \/ B!Finish(o) PROVE BridgeInv'
    BY <2>2, LearnConstants, Answered, Goes, Ends
  <2> QED
    BY <2>1, <2>2, LearnConstants, Edits, BrowserSteps, Loads, Fetches, Handshakes, Asks, Relays DEF B!Next
<1> QED
  BY <1>1, Begins, PTL DEF B!Spec

\* learn-bridge.ts: a port is open only under the identity of the version the
\* parent expects, and only to that version's document or to one that strayed (a
\* successor before its load event, or one whose load was taken for that of the
\* parent's navigation); an operation is sent only when the page was seen to
\* declare what it needs since it last asked, and a document has one run at a time.
THEOREM PortIsItsPages == LearnSpec => []BridgeHonest
<1>1. B!BridgeHonest => BridgeHonest
  BY DEF BridgeHonest
<1> QED
  BY <1>1, Honest, BridgeMoves, BridgeStands, PTL
-----------------------------------------------------------------------------
(* Manifests: the items a reader keeps, in the order of their list.        *)

LEMMA AsCounted == \A U : M!Cardinality(U) = Cardinality(U)
  BY Zenon DEF M!Cardinality, Cardinality

Rank(at, i) == Cardinality({j \in at : j <= i})
Place(at, n) == CHOOSE i \in at : Rank(at, i) = n

\* Places enumerates a set of numbers: each has one place and each place one number.
LEMMA Places ==
  ASSUME NEW n \in Nat, NEW at \in SUBSET (1..n)
  PROVE  /\ Cardinality(at) \in Nat /\ (Cardinality(at) = 0 => at = {})
         /\ \A k \in 1..Cardinality(at) : Place(at, k) \in at /\ Rank(at, Place(at, k)) = k
         /\ \A i \in at : Rank(at, i) \in 1..Cardinality(at) /\ Place(at, Rank(at, i)) = i
<1> DEFINE Below(i) == {j \in at : j <= i}
           c == Cardinality(at)
           rank == [i \in at |-> Cardinality(Below(i))]
           T == {rank[i] : i \in at}
<1>0. IsFiniteSet(1..n) /\ \A i \in at : i \in Nat
  BY FS_Interval
<1>1. IsFiniteSet(at) /\ c \in Nat /\ (c = 0 => at = {})
  <2>1. IsFiniteSet(at)
    BY <1>0, FS_Subset
  <2> QED
    BY <2>1, FS_CardinalityType, FS_EmptySet
<1>2. \A i \in at : IsFiniteSet(Below(i)) /\ Cardinality(Below(i)) \in Nat /\ Cardinality(Below(i)) <= c
  BY <1>1, FS_Subset, FS_CardinalityType
<1>3. ASSUME NEW i \in at, NEW j \in at, i < j
      PROVE  Cardinality(Below(i)) < Cardinality(Below(j))
  <2>0. i \in Nat /\ j \in Nat /\ \A k \in at : k \in Nat
    BY <1>0
  <2>1. Below(i) \in SUBSET Below(j) /\ j \in Below(j) /\ j \notin Below(i)
    <3>1. \A k \in at : k <= i => k <= j
      BY <2>0, <1>3
    <3>2. j <= j /\ ~(j <= i)
      BY <2>0, <1>3
    <3>3. Below(i) \in SUBSET Below(j)
      BY <3>1
    <3> QED
      BY <3>2, <3>3
  <2>2. Cardinality(Below(i)) <= Cardinality(Below(j)) /\ Cardinality(Below(j)) # Cardinality(Below(i))
    BY <1>2, <2>1, FS_Subset
  <2> QED
    BY <1>2, <2>2
<1>4. \A i \in at : rank[i] \in 1..c
  <2> SUFFICES ASSUME NEW i \in at PROVE rank[i] \in 1..c
    OBVIOUS
  <2>1. i \in Below(i)
    OBVIOUS
  <2>2. Cardinality(Below(i)) # 0
    BY <1>2, <2>1, FS_EmptySet
  <2> QED
    BY <1>1, <1>2, <2>2
<1>5. rank \in Injection(at, T) /\ rank \in Surjection(at, T)
  <2>1. \A i, j \in at : rank[i] = rank[j] => i = j
    BY <1>2, <1>3
  <2> QED
    BY <2>1 DEF Injection, Surjection, IsInjective
<1>6. ExistsBijection(at, T)
  BY <1>5 DEF ExistsBijection, Bijection
<1>7. Cardinality(T) = c /\ T \in SUBSET (1..c)
  <2>1. T \in SUBSET (1..c)
    BY <1>4
  <2> HIDE DEF T
  <2>2. Cardinality(T) = Cardinality(at)
    BY <1>1, <1>6, FS_Bijection
  <2> QED
    BY <2>1, <2>2
<1>8. IsFiniteSet(1..c) /\ Cardinality(1..c) = c
  BY <1>1, FS_Interval
<1>9. T = 1..c
  BY <1>7, <1>8, FS_Subset
<1>10. \A i \in at : Rank(at, i) = rank[i]
  BY DEF Rank
<1>11. \A k \in 1..c : \E i \in at : Rank(at, i) = k
  BY <1>9, <1>10
<1>12. \A k \in 1..c : Place(at, k) \in at /\ Rank(at, Place(at, k)) = k
  BY <1>11 DEF Place
<1>13. \A i \in at : Place(at, Rank(at, i)) = i
  <2> SUFFICES ASSUME NEW i \in at PROVE Place(at, Rank(at, i)) = i
    OBVIOUS
  <2>1. Place(at, Rank(at, i)) \in at /\ Rank(at, Place(at, Rank(at, i))) = Rank(at, i)
    BY <1>4, <1>10, <1>12
  <2>2. \A a, b \in at : rank[a] = rank[b] => a = b
    BY <1>5 DEF Injection, IsInjective
  <2> HIDE DEF rank
  <2> QED
    BY <2>1, <2>2, <1>10
<1> QED
  BY <1>1, <1>4, <1>10, <1>12, <1>13

LEMMA PickedPlaces ==
  ASSUME NEW items, NEW at
  PROVE  M!Picked(items, at) = [k \in 1..Cardinality(at) |-> items[Place(at, k)]]
  BY Zenon DEF M!Picked, Place, Rank, M!Cardinality, Cardinality

\* What is picked stays in its order and keeps apart what the positions keep apart.
LEMMA PickedFacts ==
  ASSUME NEW W, NEW items \in Seq(W), NEW at \in SUBSET DOMAIN items
  PROVE  LET p == M!Picked(items, at) IN
         /\ p \in Seq(W) /\ Len(p) = Cardinality(at) /\ DOMAIN p = 1..Len(p)
         /\ \A k \in DOMAIN p : Place(at, k) \in at /\ p[k] = items[Place(at, k)]
         /\ \A i \in at : \E k \in DOMAIN p : Place(at, k) = i /\ p[k] = items[i]
         /\ \A k, l \in DOMAIN p : Place(at, k) = Place(at, l) => k = l
         /\ p = <<>> => at = {}
<1> DEFINE p == M!Picked(items, at)
           c == Cardinality(at)
<1>1. DOMAIN items = 1..Len(items) /\ Len(items) \in Nat
  BY LenProperties
<1>2. /\ c \in Nat /\ (c = 0 => at = {})
      /\ \A k \in 1..c : Place(at, k) \in at /\ Rank(at, Place(at, k)) = k
      /\ \A i \in at : Rank(at, i) \in 1..c /\ Place(at, Rank(at, i)) = i
  BY <1>1, Places
<1>3. p = [k \in 1..c |-> items[Place(at, k)]]
  BY PickedPlaces
<1>4. \A k \in 1..c : items[Place(at, k)] \in W
  BY <1>1, <1>2, ElementOfSeq
<1>5. p \in [1..c -> W]
  BY <1>3, <1>4
<1> HIDE DEF p
<1>6. p \in Seq(W)
  BY <1>2, <1>5, SeqDef
<1>7. DOMAIN p = 1..c /\ Len(p) = c
  BY <1>2, <1>5, <1>6, LenProperties
<1>8. \A i \in at : \E k \in DOMAIN p : Place(at, k) = i /\ p[k] = items[i]
  BY <1>2, <1>3, <1>7
<1>9. \A k, l \in DOMAIN p : Place(at, k) = Place(at, l) => k = l
  BY <1>2, <1>7
<1>10. p = <<>> => at = {}
  BY <1>2, <1>7, <1>6
<1>11. \A k \in DOMAIN p : Place(at, k) \in at /\ p[k] = items[Place(at, k)]
  BY <1>2, <1>3, <1>7
<1> QED
  BY <1>6, <1>7, <1>8, <1>9, <1>10, <1>11 DEF p

LEMMA PickedSet ==
  ASSUME NEW W, NEW items \in Seq(W), NEW at \in SUBSET DOMAIN items
  PROVE  M!ToSet(M!Picked(items, at)) = {items[i] : i \in at}
<1> DEFINE p == M!Picked(items, at)
<1>1. /\ \A k \in DOMAIN p : Place(at, k) \in at /\ p[k] = items[Place(at, k)]
      /\ \A i \in at : \E k \in DOMAIN p : Place(at, k) = i /\ p[k] = items[i]
  BY PickedFacts
<1> HIDE DEF p
<1>2. M!ToSet(p) = {items[i] : i \in at}
  BY <1>1 DEF M!ToSet
<1> QED
  BY <1>2 DEF p

\* Nothing dropped: the list itself.
LEMMA PickedAll ==
  ASSUME NEW W, NEW items \in Seq(W)
  PROVE  M!Picked(items, DOMAIN items) = items
<1> DEFINE n == Len(items)
<1>1. n \in Nat /\ DOMAIN items = 1..n /\ items \in [1..n -> W]
  BY LenProperties
<1>2. Cardinality(1..n) = n
  BY <1>1, FS_Interval
<1>3. \A k \in 1..n : Rank(1..n, k) = k
  <2> SUFFICES ASSUME NEW k \in 1..n PROVE Rank(1..n, k) = k
    OBVIOUS
  <2>1. {j \in 1..n : j <= k} = 1..k
    BY <1>1
  <2>2. Cardinality(1..k) = k
    BY <1>1, FS_Interval
  <2> QED
    BY <2>1, <2>2 DEF Rank
<1>4. \A k \in 1..n : Place(1..n, k) = k
  <2> SUFFICES ASSUME NEW k \in 1..n PROVE Place(1..n, k) = k
    OBVIOUS
  <2>1. 1..n \in SUBSET (1..n)
    OBVIOUS
  <2>2. Place(1..n, Rank(1..n, k)) = k
    BY <1>1, <2>1, Places
  <2> QED
    BY <1>3, <2>2
<1>5. M!Picked(items, 1..n) = [k \in 1..n |-> items[k]]
  BY <1>2, <1>4, PickedPlaces
<1> QED
  BY <1>1, <1>5

LEMMA UnderFacts ==
  ASSUME NEW W, NEW x \in Seq(W), NEW y \in Seq(W), NEW f \in Seq(W)
  PROVE  /\ ~M!Under(x, x)
         /\ M!Under(x, y) => Len(x) < Len(y)
         /\ M!Under(x, y) /\ M!Under(y, f) => M!Under(x, f)
         /\ M!Under(x, f) /\ M!Under(y, f) => x = y \/ M!Under(x, y) \/ M!Under(y, x)
<1>1. Len(x) \in Nat /\ Len(y) \in Nat /\ Len(f) \in Nat
  BY LenProperties
<1>2. ASSUME NEW a \in Seq(W), NEW b \in Seq(W), Len(a) <= Len(b), SubSeq(f, 1, Len(b)) = b, Len(b) <= Len(f)
      PROVE  SubSeq(f, 1, Len(a)) = SubSeq(b, 1, Len(a))
  <2>1. SubSeq(b, 1, Len(a)) = SubSeq(SubSeq(f, 1, Len(b)), 1, Len(a))
    BY <1>2
  <2> QED
    BY <1>1, <1>2, <2>1, LenProperties
<1>3. \A a, b \in Seq(W) : M!Under(a, b) => Len(a) < Len(b)
  BY LenProperties DEF M!Under
<1>4. M!Under(x, y) /\ M!Under(y, f) => M!Under(x, f)
  BY <1>1, <1>2 DEF M!Under
<1>5. ASSUME M!Under(x, f), M!Under(y, f), x # y PROVE M!Under(x, y) \/ M!Under(y, x)
  <2>1. CASE Len(x) < Len(y)
    BY <1>1, <1>2, <1>5, <2>1 DEF M!Under
  <2>2. CASE Len(y) < Len(x)
    BY <1>1, <1>2, <1>5, <2>2 DEF M!Under
  <2>3. CASE Len(x) = Len(y)
    BY <1>1, <1>5, <2>3 DEF M!Under
  <2> QED
    BY <1>1, <2>1, <2>2, <2>3
<1> QED
  BY <1>1, <1>3, <1>4, <1>5

LEMMA FirstOf ==
  ASSUME NEW n \in Nat, NEW at \in SUBSET (1..n), at # {}
  PROVE  \E i \in at : \A j \in at : i <= j
<1> DEFINE i == Place(at, 1)
           Below == {j \in at : j <= i}
<1>0. \A j \in at : j \in Nat
  OBVIOUS
<1>1. Cardinality(at) \in Nat /\ (Cardinality(at) = 0 => at = {})
  BY Places
<1> HIDE DEF Below, i
<1>2. Cardinality(at) # 0 /\ 1 \in 1..Cardinality(at)
  <2>1. Cardinality(at) # 0
    BY <1>1, Zenon
  <2> DEFINE c == Cardinality(at)
  <2>2. c \in Nat /\ c # 0
    BY <1>1, <2>1
  <2> HIDE DEF c
  <2>3. 1 \in 1..c
    BY <2>2
  <2> QED
    BY <2>1, <2>3 DEF c
<1> USE DEF i
<1>3. i \in at /\ Rank(at, i) = 1
  BY <1>2, Places
<1>4. i \in Below /\ Below \in SUBSET (1..n)
  <2> HIDE DEF i
  <2>1. i \in at /\ i <= i
    BY <1>0, <1>3
  <2> QED
    BY <2>1 DEF Below
<1>5. IsFiniteSet(Below) /\ Cardinality(Below) = 1
  BY <1>3, <1>4, FS_Interval, FS_Subset DEF Rank, Below
<1>6. PICK x : Below = {x}
  BY <1>5, FS_Singleton
<1> HIDE DEF i
<1>7. ASSUME NEW j \in at, j < i PROVE FALSE
  <2>1. j <= i /\ j # i
    BY <1>0, <1>3, <1>7
  <2> QED
    BY <1>4, <1>6, <1>7, <2>1 DEF Below
<1> QED
  BY <1>0, <1>3, <1>7

\* What never repeats an earlier value has distinct values.
LEMMA Unrepeated ==
  ASSUME NEW v, NEW n \in Nat, NEW at \in SUBSET (1..n), \A i \in at : ~M!Repeated(v, i)
  PROVE  \A i, j \in at : v[i] = v[j] => i = j
<1>1. \A i, j \in at : i < j => v[i] # v[j]
  BY DEF M!Repeated
<1> QED
  BY <1>1

LEMMA Distinctly ==
  ASSUME NEW W, NEW s \in Seq(W), NEW v, \A k, l \in DOMAIN s : v[k] = v[l] => k = l
  PROVE  Cardinality({v[k] : k \in DOMAIN s}) = Len(s)
<1> DEFINE D == 1..Len(s)
           T == {v[k] : k \in D}
           f == [k \in D |-> v[k]]
<1>1. Len(s) \in Nat /\ DOMAIN s = D
  BY LenProperties
<1>2. f \in Injection(D, T) /\ f \in Surjection(D, T)
  BY <1>1 DEF Injection, Surjection, IsInjective
<1>3. ExistsBijection(D, T)
  BY <1>2 DEF ExistsBijection, Bijection
<1>4. IsFiniteSet(D) /\ Cardinality(D) = Len(s)
  BY <1>1, FS_Interval
<1> HIDE DEF T, D
<1>5. Cardinality(T) = Cardinality(D)
  BY <1>3, <1>4, FS_Bijection
<1> QED
  BY <1>1, <1>4, <1>5 DEF T

LEMMA Walked ==
  ASSUME NEW W, NEW items \in Seq(W), NEW codes, NEW more
  PROVE  LET w == M!Walk(items, codes, more)
             at == {i \in DOMAIN items : codes[i] \union more[i] = {}}
         IN  /\ w.kept \in Seq(W) /\ DOMAIN w.kept = 1..Len(w.kept)
             /\ \A k \in DOMAIN w.kept : Place(at, k) \in at /\ w.kept[k] = items[Place(at, k)]
             /\ \A k, l \in DOMAIN w.kept : Place(at, k) = Place(at, l) => k = l
             /\ (\A i \in DOMAIN items : codes[i] = {} /\ more[i] = {}) => w.kept = items /\ w.codes = {}
<1> DEFINE w == M!Walk(items, codes, more)
           at == {i \in DOMAIN items : codes[i] \union more[i] = {}}
<1>1. w.kept = M!Picked(items, at)
  BY DEF M!Walk
<1>2. ASSUME \A i \in DOMAIN items : codes[i] = {} /\ more[i] = {} PROVE w.kept = items /\ w.codes = {}
  <2>1. at = DOMAIN items
    BY <1>2
  <2>2. w.kept = items
    BY <1>1, <2>1, PickedAll
  <2>3. w.codes = {}
    BY <1>2 DEF M!Walk
  <2> QED
    BY <2>2, <2>3
<1>3. at \in SUBSET DOMAIN items
  OBVIOUS
<1> HIDE DEF at, w
<1>4. /\ w.kept \in Seq(W) /\ DOMAIN w.kept = 1..Len(w.kept)
      /\ \A k \in DOMAIN w.kept : Place(at, k) \in at /\ w.kept[k] = items[Place(at, k)]
      /\ \A k, l \in DOMAIN w.kept : Place(at, k) = Place(at, l) => k = l
  BY <1>1, <1>3, PickedFacts
<1> QED
  BY <1>2, <1>4 DEF at, w

LEMMA PagesRead ==
  ASSUME NEW W, NEW items \in Seq(W)
  PROVE  LET w == M!ReadPages(items) IN
         /\ w.kept \in Seq(W)
         /\ \A k \in DOMAIN w.kept : w.kept[k].path # Bad
         /\ \A k, l \in DOMAIN w.kept : w.kept[k].id = w.kept[l].id \/ w.kept[k].path = w.kept[l].path => k = l
         /\ w.kept = <<>> => "no-pages" \in w.codes
         /\ /\ items # <<>>
            /\ \A i \in DOMAIN items : items[i].id # Bad /\ items[i].path # Bad
            /\ \A i, j \in DOMAIN items : items[i].id = items[j].id \/ items[i].path = items[j].path => i = j
            => w.kept = items /\ w.codes = {}
<1> DEFINE ids == M!Every(items, "id")
           paths == M!Every(items, "path")
           codes == [i \in DOMAIN items |-> M!IdCodes(ids, i) \union M!PathCodes(paths, i)]
           more == [i \in DOMAIN items |-> {}]
           v == M!Walk(items, codes, more)
           at == {i \in DOMAIN items : codes[i] \union more[i] = {}}
           w == M!ReadPages(items)
<1>1. w.kept = v.kept /\ w.codes = v.codes \union (IF v.kept = <<>> THEN {"no-pages"} ELSE {})
  BY DEF M!ReadPages
<1>2. Len(items) \in Nat /\ DOMAIN items = 1..Len(items)
  BY LenProperties
<1>3. \A i \in DOMAIN items : ids[i] = items[i].id /\ paths[i] = items[i].path
  BY DEF M!Every
<1>4. \A i \in at : /\ ids[i] # Bad /\ paths[i] # Bad
                    /\ ~M!Repeated(ids, i) /\ ~M!Repeated(paths, i)
  BY DEF M!IdCodes, M!PathCodes
<1>5. at \in SUBSET DOMAIN items
  OBVIOUS
<1>6. \A i, j \in at : ids[i] = ids[j] \/ paths[i] = paths[j] => i = j
  BY <1>2, <1>4, <1>5, Unrepeated
<1>7. /\ v.kept \in Seq(W) /\ DOMAIN v.kept = 1..Len(v.kept)
      /\ \A k \in DOMAIN v.kept : Place(at, k) \in at /\ v.kept[k] = items[Place(at, k)]
      /\ \A k, l \in DOMAIN v.kept : Place(at, k) = Place(at, l) => k = l
      /\ (\A i \in DOMAIN items : codes[i] = {} /\ more[i] = {}) => v.kept = items /\ v.codes = {}
  <2> HIDE DEF codes, more
  <2> QED
    BY Walked
<1>8. ASSUME items # <<>>,
             \A i \in DOMAIN items : items[i].id # Bad /\ items[i].path # Bad,
             \A i, j \in DOMAIN items : items[i].id = items[j].id \/ items[i].path = items[j].path => i = j
      PROVE  w.kept = items /\ w.codes = {}
  <2>1. \A i \in DOMAIN items : ~M!Repeated(ids, i) /\ ~M!Repeated(paths, i)
    BY <1>2, <1>3, <1>8 DEF M!Repeated
  <2>2. \A i \in DOMAIN items : codes[i] = {} /\ more[i] = {}
    BY <1>3, <1>8, <2>1 DEF M!IdCodes, M!PathCodes
  <2> HIDE DEF codes, more, v
  <2> QED
    BY <1>1, <1>7, <1>8, <2>2
<1> HIDE DEF at, v, w, ids, paths
<1>9. \A k \in DOMAIN v.kept : v.kept[k].path # Bad
  BY <1>3, <1>4, <1>5, <1>7
<1>10. \A k, l \in DOMAIN v.kept : v.kept[k].id = v.kept[l].id \/ v.kept[k].path = v.kept[l].path => k = l
  BY <1>3, <1>5, <1>6, <1>7
<1> QED
  BY <1>1, <1>7, <1>8, <1>9, <1>10 DEF w

LEMMA QuestionsRead ==
  ASSUME NEW W, NEW items \in Seq(W), NEW pages
  PROVE  LET w == M!ReadQuestions(items, pages) IN
         /\ w.kept \in Seq(W)
         /\ \A k \in DOMAIN w.kept : w.kept[k].page \in M!IdsOf(pages)
         /\ \A k, l \in DOMAIN w.kept : w.kept[k].id = w.kept[l].id => k = l
         /\ items = <<>> => w.kept = <<>> /\ w.codes = {}
<1> DEFINE ids == M!Every(items, "id")
           codes == [i \in DOMAIN items |-> M!IdCodes(ids, i)]
           more == [i \in DOMAIN items |-> M!Dangling(items[i], pages)]
           w == M!Walk(items, codes, more)
           at == {i \in DOMAIN items : codes[i] \union more[i] = {}}
<1>1. w = M!ReadQuestions(items, pages)
  BY DEF M!ReadQuestions
<1>2. Len(items) \in Nat /\ DOMAIN items = 1..Len(items)
  BY LenProperties
<1>3. \A i \in DOMAIN items : ids[i] = items[i].id
  BY DEF M!Every
<1>4. \A i \in at : ~M!Repeated(ids, i) /\ items[i].page \in M!IdsOf(pages)
  BY DEF M!IdCodes, M!Dangling
<1>5. at \in SUBSET DOMAIN items
  OBVIOUS
<1>6. \A i, j \in at : ids[i] = ids[j] => i = j
  BY <1>2, <1>4, <1>5, Unrepeated
<1>7. /\ w.kept \in Seq(W) /\ DOMAIN w.kept = 1..Len(w.kept)
      /\ \A k \in DOMAIN w.kept : Place(at, k) \in at /\ w.kept[k] = items[Place(at, k)]
      /\ \A k, l \in DOMAIN w.kept : Place(at, k) = Place(at, l) => k = l
      /\ (\A i \in DOMAIN items : codes[i] = {} /\ more[i] = {}) => w.kept = items /\ w.codes = {}
  <2> HIDE DEF codes, more
  <2> QED
    BY Walked
<1> HIDE DEF at, w, ids, codes, more
<1>8. \A k \in DOMAIN w.kept : w.kept[k].page \in M!IdsOf(pages)
  BY <1>4, <1>7
<1>9. \A k, l \in DOMAIN w.kept : w.kept[k].id = w.kept[l].id => k = l
  BY <1>3, <1>5, <1>6, <1>7
<1>10. items = <<>> => w.kept = <<>> /\ w.codes = {}
  BY <1>7
<1> QED
  BY <1>1, <1>7, <1>8, <1>9, <1>10

LEMMA BlocksRead ==
  ASSUME NEW W, NEW items \in Seq(W), NEW pages, NEW roots
  PROVE  LET w == M!ReadBlocks(items, pages, roots) IN
         /\ w.kept \in Seq(W)
         /\ \A k \in DOMAIN w.kept : /\ w.kept[k].page \in M!IdsOf(pages) /\ w.kept[k].file # Bad
                                     /\ \E r \in M!ToSet(roots) : M!Under(r, w.kept[k].file)
         /\ \A k, l \in DOMAIN w.kept : w.kept[k].id = w.kept[l].id => k = l
         /\ items = <<>> => w.kept = <<>> /\ w.codes = {}
<1> DEFINE ids == M!Every(items, "id")
           paths == M!Every(items, "file")
           codes == [i \in DOMAIN items |-> M!IdCodes(ids, i) \union M!PathCodes(paths, i)]
           more == [i \in DOMAIN items |-> M!Dangling(items[i], pages) \union M!UnknownKind(items[i])
                                           \union M!Outside(items[i], roots)]
           v == M!Walk(items, codes, more)
           at == {i \in DOMAIN items : codes[i] \union more[i] = {}}
           w == M!ReadBlocks(items, pages, roots)
<1>1. /\ w.kept = v.kept
      /\ w.codes = v.codes \union UNION {M!RunnerCodes(v.kept[i]) : i \in DOMAIN v.kept}
  BY DEF M!ReadBlocks
<1>2. Len(items) \in Nat /\ DOMAIN items = 1..Len(items)
  BY LenProperties
<1>3. \A i \in DOMAIN items : ids[i] = items[i].id
  BY DEF M!Every
<1>4. \A i \in at : /\ ~M!Repeated(ids, i) /\ items[i].page \in M!IdsOf(pages) /\ items[i].file # Bad
                    /\ \E r \in M!ToSet(roots) : M!Under(r, items[i].file)
  <2> SUFFICES ASSUME NEW i \in at
               PROVE  /\ ~M!Repeated(ids, i) /\ items[i].page \in M!IdsOf(pages) /\ items[i].file # Bad
                      /\ \E r \in M!ToSet(roots) : M!Under(r, items[i].file)
    OBVIOUS
  <2>1. /\ M!IdCodes(ids, i) = {} /\ M!Dangling(items[i], pages) = {}
        /\ M!Outside(items[i], roots) = {}
    OBVIOUS
  <2> QED
    BY <2>1 DEF M!IdCodes, M!Dangling, M!Outside
<1>5. at \in SUBSET DOMAIN items
  OBVIOUS
<1>6. \A i, j \in at : ids[i] = ids[j] => i = j
  BY <1>2, <1>4, <1>5, Unrepeated
<1>7. /\ v.kept \in Seq(W) /\ DOMAIN v.kept = 1..Len(v.kept)
      /\ \A k \in DOMAIN v.kept : Place(at, k) \in at /\ v.kept[k] = items[Place(at, k)]
      /\ \A k, l \in DOMAIN v.kept : Place(at, k) = Place(at, l) => k = l
      /\ (\A i \in DOMAIN items : codes[i] = {} /\ more[i] = {}) => v.kept = items /\ v.codes = {}
  <2> HIDE DEF codes, more
  <2> QED
    BY Walked
<1> HIDE DEF at, v, w, ids, paths, codes, more
<1>8. \A k \in DOMAIN v.kept : /\ v.kept[k].page \in M!IdsOf(pages) /\ v.kept[k].file # Bad
                               /\ \E r \in M!ToSet(roots) : M!Under(r, v.kept[k].file)
  BY <1>4, <1>7
<1>9. \A k, l \in DOMAIN v.kept : v.kept[k].id = v.kept[l].id => k = l
  BY <1>3, <1>5, <1>6, <1>7
<1>10. items = <<>> => v.kept = <<>> /\ v.codes = {}
  BY <1>7
<1> QED
  BY <1>1, <1>7, <1>8, <1>9, <1>10 DEF w

Segments == {"attempts", "assets"} \union Folders \union FileNames

LEMMA RootPaths == Roots \union {<<"attempts">>} \subseteq Seq(Segments) /\ EditorFiles \subseteq Seq(Segments)
<1>1. \A a, b, c \in Segments : <<a>> \in Seq(Segments) /\ <<a, b>> \in Seq(Segments) /\ <<a, b, c>> \in Seq(Segments)
  OBVIOUS
<1>2. Folders \subseteq Segments /\ FileNames \subseteq Segments /\ "attempts" \in Segments /\ "assets" \in Segments
  BY DEF Segments
<1>3. Roots \subseteq Seq(Segments)
  <2> SUFFICES ASSUME NEW x \in Roots PROVE x \in Seq(Segments)
    OBVIOUS
  <2>1. \E f \in Folders : x = <<f>> \/ x = <<"attempts", f>> \/ x = <<"assets", f>>
    BY DEF Roots
  <2>2. PICK f \in Folders : x = <<f>> \/ x = <<"attempts", f>> \/ x = <<"assets", f>>
    BY <2>1
  <2>3. f \in Segments
    BY <1>2
  <2>4. <<f>> \in Seq(Segments) /\ <<"attempts", f>> \in Seq(Segments) /\ <<"assets", f>> \in Seq(Segments)
    BY <1>1, <1>2, <2>3
  <2> QED
    BY <2>2, <2>4
<1>4. EditorFiles \subseteq Seq(Segments)
  <2> SUFFICES ASSUME NEW x \in EditorFiles PROVE x \in Seq(Segments)
    OBVIOUS
  <2>1. \E f \in Folders, n \in FileNames : x = <<f, n>> \/ x = <<"attempts", f, n>>
    BY DEF EditorFiles
  <2>2. PICK f \in Folders, n \in FileNames : x = <<f, n>> \/ x = <<"attempts", f, n>>
    BY <2>1
  <2>3. f \in Segments /\ n \in Segments
    BY <1>2
  <2>4. <<f, n>> \in Seq(Segments) /\ <<"attempts", f, n>> \in Seq(Segments)
    BY <1>1, <1>2, <2>3
  <2> QED
    BY <2>2, <2>4
<1> QED
  BY <1>1, <1>2, <1>3, <1>4

LEMMA RootsRead ==
  ASSUME NEW items \in Seq(Roots \union {Bad, <<"attempts">>})
  PROVE  LET r == M!ToSet(M!ReadRoots(items)) IN
         /\ r \subseteq Seq(Segments) /\ <<"attempts">> \in r
         /\ \A x, y \in r : ~M!Under(x, y)
         /\ Spelled /\ items = <<<<"attempts">>>> => M!ReadRoots(items) = items
<1> DEFINE A == <<"attempts">>
           R == Roots \union {A}
           proper == {i \in DOMAIN items : items[i] # Bad /\ Head(items[i]) # "assets"}
           valid == M!Picked(items, proper)
           all == IF A \in M!ToSet(valid) THEN valid ELSE Append(valid, A)
           Nested(p) == \E q \in M!ToSet(all) : M!Under(q, p)
           at == {i \in DOMAIN all : ~M!Repeated(all, i) /\ ~Nested(all[i])}
           roots == M!Picked(all, at)
<1>1. M!ReadRoots(items) = roots
  BY DEF M!ReadRoots
<1>2. valid \in Seq(R)
  <2>0. proper \in SUBSET DOMAIN items
    OBVIOUS
  <2>1. DOMAIN items = 1..Len(items) /\ Len(items) \in Nat
    BY LenProperties
  <2>2. \A i \in proper : items[i] \in R
    BY <2>1, ElementOfSeq
  <2> HIDE DEF proper
  <2>3. /\ valid \in Seq(Roots \union {Bad, A}) /\ DOMAIN valid = 1..Len(valid)
        /\ \A k \in DOMAIN valid : valid[k] \in R
    BY <2>0, <2>2, PickedFacts
  <2> HIDE DEF valid, R
  <2>4. Len(valid) \in Nat /\ valid \in [1..Len(valid) -> R]
    BY <2>3, LenProperties
  <2> QED
    BY <2>4, SeqDef
<1> HIDE DEF proper, valid, R
<1>3. all \in Seq(R) /\ A \in M!ToSet(all)
  <2>1. A \in R
    BY DEF R
  <2>2. CASE A \in M!ToSet(valid)
    BY <1>2, <2>2
  <2>3. CASE A \notin M!ToSet(valid)
    <3>1. Append(valid, A) \in Seq(R) /\ Len(Append(valid, A)) = Len(valid) + 1 /\ Append(valid, A)[Len(valid) + 1] = A
      BY <1>2, <2>1, AppendProperties
    <3>2. DOMAIN Append(valid, A) = 1..(Len(valid) + 1) /\ Len(valid) \in Nat
      BY <1>2, <3>1, LenProperties
    <3> QED
      BY <2>3, <3>1, <3>2 DEF M!ToSet
  <2> QED
    BY <2>2, <2>3
<1> HIDE DEF all
<1>4. DOMAIN all = 1..Len(all) /\ Len(all) \in Nat /\ M!ToSet(all) \subseteq R
  BY <1>3, LenProperties, ElementOfSeq DEF M!ToSet
<1>5. at \in SUBSET DOMAIN all
  OBVIOUS
<1>6. R \subseteq Seq(Segments) /\ \A x \in R : Len(x) >= 1
  <2>1. \A a, b : Len(<<a>>) = 1 /\ Len(<<a, b>>) = 2
    OBVIOUS
  <2>2. \A x \in R : (\E a : x = <<a>>) \/ (\E a, b : x = <<a, b>>)
    BY DEF R, Roots
  <2>3. \A x \in R : Len(x) >= 1
    BY <2>1, <2>2
  <2> QED
    BY <2>3, RootPaths DEF R
<1>7. M!ToSet(roots) = {all[i] : i \in at}
  <2> HIDE DEF at
  <2> QED
    BY <1>3, <1>5, PickedSet
<1>8. M!ToSet(roots) \subseteq M!ToSet(all)
  BY <1>5, <1>7 DEF M!ToSet
<1>9. \A x, y \in M!ToSet(roots) : ~M!Under(x, y)
  <2> HIDE DEF roots
  <2> QED
    BY <1>7, <1>8
<1>10. A \in M!ToSet(roots)
  <2> DEFINE same == {i \in DOMAIN all : all[i] = A}
  <2>1. same # {} /\ same \in SUBSET (1..Len(all))
    BY <1>3, <1>4 DEF M!ToSet
  <2>2. PICK i \in same : \A j \in same : i <= j
    <3> HIDE DEF same
    <3> QED
      BY <1>4, <2>1, FirstOf
  <2>3. ~M!Repeated(all, i)
    BY <1>4, <2>1, <2>2 DEF M!Repeated
  <2>4. ~Nested(A)
    <3> SUFFICES ASSUME NEW q \in M!ToSet(all), M!Under(q, A) PROVE FALSE
      OBVIOUS
    <3>1. Len(q) >= 1 /\ q \in Seq(Segments) /\ A \in Seq(Segments)
      BY <1>4, <1>6, RootPaths
    <3>2. Len(q) < Len(A) /\ Len(A) = 1
      BY <3>1, UnderFacts
    <3> QED
      BY <3>1, <3>2, LenProperties
  <2> QED
    BY <1>7, <2>2, <2>3, <2>4
<1>11. ASSUME Spelled, items = <<A>> PROVE roots = items
  <2>1. proper = DOMAIN items
    BY <1>11 DEF proper, Spelled
  <2>2. valid = items
    BY <2>1, PickedAll DEF valid
  <2>3. A \in M!ToSet(valid)
    BY <1>11, <2>2 DEF M!ToSet
  <2>4. all = items
    BY <2>2, <2>3 DEF all
  <2>5. M!ToSet(all) = {A}
    BY <1>11, <2>4 DEF M!ToSet
  <2>6. A \in Seq(Segments)
    BY RootPaths
  <2>7. ~M!Under(A, A)
    BY <2>6, UnderFacts
  <2>8. at = DOMAIN all
    BY <1>11, <2>4, <2>5, <2>7 DEF M!Repeated
  <2> QED
    BY <1>3, <2>4, <2>8, PickedAll
<1>12. M!ToSet(roots) \subseteq Seq(Segments)
  BY <1>4, <1>6, <1>8
<1> HIDE DEF roots
<1> QED
  BY <1>1, <1>9, <1>10, <1>11, <1>12

PageItem == [id : PageIds \union {Bad}, path : Html \union {Bad}]
QuestionItem == [id : ItemIds \union {Bad}, page : PageIds]
BlockItem == [id : ItemIds, file : EditorFiles \union {Bad}, page : PageIds, kind : {"editor", "quiz"},
              runner : {None, "known", "unknown", "unsuited"}]
V1 == [form : {"v1"}, entry : M!Refs, related : Seq(M!Refs)]
V2 == [form : {"v2"}, uid : {"echo", "other", Bad}, entry : Html \union {Bad}, pages : Seq(PageItem),
       questions : Seq(QuestionItem), blocks : Seq(BlockItem), roots : Seq(Roots \union {Bad, <<"attempts">>}),
       profile : {"interactive", "legacy-display"}]

LEMMA RefsOf == \A ref \in M!Refs : ref.path \in Html \union {Bad}
  BY DEF M!Refs

LEMMA RelatedRead ==
  ASSUME NEW m \in V1, NEW entry
  PROVE  LET r == M!Related(m, entry) IN
         /\ r \in Seq(Html)
         /\ \A k \in DOMAIN r : r[k] # entry /\ r[k] # Bad
         /\ \A k, l \in DOMAIN r : r[k] = r[l] => k = l
<1> DEFINE Spellings == Html \union {Bad}
           paths == M!Every(m.related, "path")
           at == {i \in DOMAIN paths : paths[i] \notin {Bad, entry} /\ ~M!Repeated(paths, i)}
           r == M!Picked(paths, at)
<1>1. r = M!Related(m, entry)
  BY DEF M!Related
<1>2. m.related \in Seq(M!Refs) /\ Len(m.related) \in Nat /\ DOMAIN m.related = 1..Len(m.related)
  BY LenProperties DEF V1
<1>3. paths \in Seq(Spellings) /\ DOMAIN paths = 1..Len(paths) /\ Len(paths) \in Nat
  <2>1. \A i \in 1..Len(m.related) : m.related[i].path \in Spellings
    BY <1>2, ElementOfSeq, RefsOf
  <2>2. paths = [i \in 1..Len(m.related) |-> m.related[i].path]
    BY <1>2 DEF M!Every
  <2> HIDE DEF Spellings
  <2>3. paths \in [1..Len(m.related) -> Spellings]
    BY <2>1, <2>2
  <2> HIDE DEF paths
  <2>4. paths \in Seq(Spellings)
    BY <1>2, <2>3, SeqDef
  <2> QED
    BY <2>4, LenProperties
<1>4. at \in SUBSET DOMAIN paths
  OBVIOUS
<1>5. \A i \in at : paths[i] # Bad /\ paths[i] # entry /\ ~M!Repeated(paths, i)
  OBVIOUS
<1> HIDE DEF at, r, paths, Spellings
<1>6. \A i, j \in at : paths[i] = paths[j] => i = j
  BY <1>3, <1>4, <1>5, Unrepeated
<1>7. /\ r \in Seq(Spellings) /\ DOMAIN r = 1..Len(r)
      /\ \A k \in DOMAIN r : Place(at, k) \in at /\ r[k] = paths[Place(at, k)]
      /\ \A k, l \in DOMAIN r : Place(at, k) = Place(at, l) => k = l
  BY <1>3, <1>4, PickedFacts DEF r
<1>8. \A k \in DOMAIN r : r[k] # entry /\ r[k] # Bad
  BY <1>5, <1>7
<1>9. \A k \in DOMAIN r : r[k] \in Html
  BY <1>7, <1>8, ElementOfSeq DEF Spellings
<1>10. r \in Seq(Html)
  BY <1>7, <1>9, LenProperties, SeqDef
<1>11. \A k, l \in DOMAIN r : r[k] = r[l] => k = l
  BY <1>6, <1>7
<1> QED
  BY <1>1, <1>8, <1>10, <1>11

\* The pages of a version 1 read: the entry, then others, each once.
LEMMA V1Read ==
  ASSUME NEW m \in V1, Spelled
  PROVE  LET r == M!ReadV1(m) IN
         /\ r.version = 1 /\ r.entry \in Html /\ r.blocks = <<>> /\ r.questions = <<>>
         /\ r.roots = <<<<"attempts">>>>
         /\ \E p \in Seq(Html) :
              /\ r.pages = [i \in DOMAIN p |-> [id |-> None, path |-> p[i]]]
              /\ 1 \in DOMAIN p /\ p[1] = r.entry
              /\ \A k, l \in DOMAIN p : p[k] = p[l] => k = l
<1> DEFINE entry == IF m.entry.path = Bad THEN <<"index">> ELSE m.entry.path
           rel == M!Related(m, entry)
           p == <<entry>> \o rel
           r == M!ReadV1(m)
<1>1. entry \in Html /\ entry # Bad
  <2>1. m.entry.path \in Html \union {Bad}
    BY RefsOf DEF V1
  <2>2. <<"index">> \in Html /\ Bad \notin Html
    BY DEF Spelled, Html
  <2> QED
    BY <2>1, <2>2
<1>2. /\ rel \in Seq(Html)
      /\ \A k \in DOMAIN rel : rel[k] # entry /\ rel[k] # Bad
      /\ \A k, l \in DOMAIN rel : rel[k] = rel[l] => k = l
  BY RelatedRead
<1>3. /\ r.version = 1 /\ r.entry = entry /\ r.blocks = <<>> /\ r.questions = <<>>
      /\ r.roots = <<<<"attempts">>>>
      /\ r.pages = [i \in DOMAIN p |-> [id |-> None, path |-> p[i]]]
  BY DEF M!ReadV1, M!Item
<1> HIDE DEF entry, rel, r
<1>4. Len(rel) \in Nat /\ DOMAIN rel = 1..Len(rel)
  BY <1>2, LenProperties
<1>5. /\ p \in Seq(Html) /\ Len(p) = 1 + Len(rel) /\ p[1] = entry
      /\ \A i \in 1..Len(rel) : p[i + 1] = rel[i]
  <2>1. <<entry>> \in Seq(Html) /\ Len(<<entry>>) = 1 /\ <<entry>>[1] = entry
    BY <1>1
  <2> QED
    BY <1>2, <1>4, <2>1, ConcatProperties
<1> HIDE DEF p
<1>6. DOMAIN p = 1..(1 + Len(rel))
  BY <1>5, LenProperties
<1>7. \A k \in DOMAIN p : k = 1 \/ (k - 1 \in DOMAIN rel /\ p[k] = rel[k - 1])
  BY <1>4, <1>5, <1>6
<1>8. \A k, l \in DOMAIN p : p[k] = p[l] => k = l
  BY <1>2, <1>4, <1>5, <1>6, <1>7
<1>9. 1 \in DOMAIN p
  BY <1>4, <1>6
<1> QED
  BY <1>1, <1>3, <1>5, <1>8, <1>9 DEF r

\* A version 2 read, part by part.
LEMMA V2Parts ==
  ASSUME NEW m
  PROVE  LET p == M!ReadPages(m.pages)
             q == M!ReadQuestions(m.questions, p.kept)
             b == M!ReadBlocks(m.blocks, p.kept, M!ReadRoots(m.roots))
             r == M!ReadV2(m)
             identity == IF m.uid = Bad THEN {"missing-identity"}
                         ELSE IF m.uid # manifestRow.uid THEN {"identity-mismatch"} ELSE {}
         IN  /\ r.version = 2 /\ r.pages = p.kept /\ r.questions = q.kept /\ r.roots = M!ReadRoots(m.roots)
             /\ r.codes = p.codes \union q.codes \union b.codes \union identity
                          \union (IF m.entry \in M!Paths(p.kept) THEN {} ELSE {"invalid-entry"})
             /\ r.entry = IF m.entry \in M!Paths(p.kept) THEN m.entry
                          ELSE IF p.kept # <<>> THEN Head(p.kept).path ELSE None
             /\ r.profile = IF "identity-mismatch" \in identity \/ m.profile # "interactive" THEN "legacy-display"
                            ELSE m.profile
             /\ DOMAIN r.blocks = DOMAIN b.kept
             /\ r.blocks = [i \in DOMAIN b.kept |-> [id |-> b.kept[i].id, page |-> b.kept[i].page,
                                                     file |-> b.kept[i].file,
                                                     run |-> b.kept[i].runner = "known" /\ M!BridgeEligible(r)]]
<1> DEFINE p == M!ReadPages(m.pages)
           q == M!ReadQuestions(m.questions, p.kept)
           b == M!ReadBlocks(m.blocks, p.kept, M!ReadRoots(m.roots))
           identity == IF m.uid = Bad THEN {"missing-identity"}
                       ELSE IF m.uid # manifestRow.uid THEN {"identity-mismatch"} ELSE {}
           declared == m.entry \in M!Paths(p.kept)
           s == [version |-> 2, pages |-> p.kept, questions |-> q.kept, roots |-> M!ReadRoots(m.roots),
                 codes |-> p.codes \union q.codes \union b.codes \union identity
                        \union (IF declared THEN {} ELSE {"invalid-entry"}),
                 entry |-> IF declared THEN m.entry ELSE IF p.kept # <<>> THEN Head(p.kept).path ELSE None,
                 profile |-> IF "identity-mismatch" \in identity \/ m.profile # "interactive" THEN "legacy-display"
                             ELSE m.profile,
                 blocks |-> <<>>]
           blocks == [i \in DOMAIN b.kept |-> [id |-> b.kept[i].id, page |-> b.kept[i].page, file |-> b.kept[i].file,
                                               run |-> b.kept[i].runner = "known" /\ M!BridgeEligible(s)]]
           r == M!ReadV2(m)
<1>1. r = [s EXCEPT !.blocks = blocks]
  BY Zenon DEF M!ReadV2
<1>2. /\ r.version = s.version /\ r.pages = s.pages /\ r.questions = s.questions /\ r.roots = s.roots
      /\ r.codes = s.codes /\ r.entry = s.entry /\ r.profile = s.profile /\ r.blocks = blocks
  <2> HIDE DEF blocks, p, q, b, identity, declared, r
  <2> QED
    BY <1>1
<1>3. M!BridgeEligible(r) = M!BridgeEligible(s)
  <2> HIDE DEF s, r
  <2> QED
    BY <1>2 DEF M!BridgeEligible, M!EffectiveProfile, M!Rejected
<1>4. blocks = [i \in DOMAIN b.kept |-> [id |-> b.kept[i].id, page |-> b.kept[i].page, file |-> b.kept[i].file,
                                         run |-> b.kept[i].runner = "known" /\ M!BridgeEligible(r)]]
  <2> HIDE DEF s, r, b
  <2> QED
    BY Zenon, <1>3
<1>5. /\ s.version = 2 /\ s.pages = p.kept /\ s.questions = q.kept /\ s.roots = M!ReadRoots(m.roots)
      /\ s.codes = p.codes \union q.codes \union b.codes \union identity
                   \union (IF declared THEN {} ELSE {"invalid-entry"})
      /\ s.entry = IF declared THEN m.entry ELSE IF p.kept # <<>> THEN Head(p.kept).path ELSE None
      /\ s.profile = IF "identity-mismatch" \in identity \/ m.profile # "interactive" THEN "legacy-display"
                     ELSE m.profile
  <2> HIDE DEF p, q, b, identity, declared
  <2> QED
    OBVIOUS
<1>6. DOMAIN blocks = DOMAIN b.kept
  OBVIOUS
<1> HIDE DEF r, s, blocks, p, q, b
<1> QED
  BY <1>2, <1>4, <1>5, <1>6 DEF r, p, q, b

LEMMA V2Honest ==
  ASSUME raw \in V2, Spelled
  PROVE  M!ReadHonest
<1> DEFINE p == M!ReadPages(raw.pages)
           q == M!ReadQuestions(raw.questions, p.kept)
           roots == M!ReadRoots(raw.roots)
           b == M!ReadBlocks(raw.blocks, p.kept, roots)
           r == M!ReadV2(raw)
           identity == IF raw.uid = Bad THEN {"missing-identity"}
                       ELSE IF raw.uid # manifestRow.uid THEN {"identity-mismatch"} ELSE {}
           Runs(i) == b.kept[i].runner = "known" /\ M!BridgeEligible(r)
<1>1. /\ r.version = 2 /\ r.pages = p.kept /\ r.questions = q.kept /\ r.roots = roots
      /\ p.codes \subseteq r.codes /\ identity \subseteq r.codes
      /\ r.entry = IF raw.entry \in M!Paths(p.kept) THEN raw.entry
                   ELSE IF p.kept # <<>> THEN Head(p.kept).path ELSE None
      /\ r.profile = IF "identity-mismatch" \in identity \/ raw.profile # "interactive" THEN "legacy-display"
                     ELSE raw.profile
      /\ DOMAIN r.blocks = DOMAIN b.kept
      /\ r.blocks = [i \in DOMAIN b.kept |-> [id |-> b.kept[i].id, page |-> b.kept[i].page,
                                              file |-> b.kept[i].file, run |-> Runs(i)]]
  <2> HIDE DEF p, q, roots, b, identity, r
  <2> QED
    BY V2Parts DEF p, q, roots, b, identity, r
<1>2. /\ raw.form = "v2" /\ raw.pages \in Seq(PageItem) /\ raw.questions \in Seq(QuestionItem)
      /\ raw.blocks \in Seq(BlockItem) /\ raw.roots \in Seq(Roots \union {Bad, <<"attempts">>})
  BY DEF V2
<1>3. /\ p.kept \in Seq(PageItem)
      /\ \A k, l \in DOMAIN p.kept : p.kept[k].id = p.kept[l].id \/ p.kept[k].path = p.kept[l].path => k = l
      /\ p.kept = <<>> => "no-pages" \in p.codes
  BY <1>2, PagesRead
<1> HIDE DEF p
<1>4. /\ q.kept \in Seq(QuestionItem)
      /\ \A k \in DOMAIN q.kept : q.kept[k].page \in M!IdsOf(p.kept)
      /\ \A k, l \in DOMAIN q.kept : q.kept[k].id = q.kept[l].id => k = l
  BY <1>2, QuestionsRead
<1> HIDE DEF q
<1>5. /\ b.kept \in Seq(BlockItem)
      /\ \A k \in DOMAIN b.kept : /\ b.kept[k].page \in M!IdsOf(p.kept) /\ b.kept[k].file # Bad
                                  /\ \E x \in M!ToSet(roots) : M!Under(x, b.kept[k].file)
      /\ \A k, l \in DOMAIN b.kept : b.kept[k].id = b.kept[l].id => k = l
  <2> HIDE DEF roots
  <2> QED
    BY <1>2, BlocksRead
<1>6. /\ M!ToSet(roots) \subseteq Seq(Segments) /\ <<"attempts">> \in M!ToSet(roots)
      /\ \A x, y \in M!ToSet(roots) : ~M!Under(x, y)
  BY <1>2, RootsRead
<1> HIDE DEF b, roots, r, identity
<1>7. M!ReadManifestPath(raw) = r
  BY <1>2 DEF M!ReadManifestPath, M!ReadManifest, r
<1>8. /\ DOMAIN p.kept = 1..Len(p.kept) /\ Len(p.kept) \in Nat
      /\ DOMAIN b.kept = 1..Len(b.kept) /\ Len(b.kept) \in Nat
  BY <1>3, <1>5, LenProperties
<1>9. ~M!Rejected(r) => /\ "no-pages" \notin r.codes /\ "missing-identity" \notin r.codes
                        /\ p.kept # <<>> /\ raw.uid # Bad
  BY <1>1, <1>3 DEF M!Rejected, M!Rejecting, identity
<1>10. ASSUME ~M!Rejected(r) PROVE r.entry \in M!Paths(r.pages)
  <2>1. CASE raw.entry \in M!Paths(p.kept)
    BY <1>1, <2>1
  <2>2. CASE raw.entry \notin M!Paths(p.kept)
    <3>1. 1 \in DOMAIN p.kept /\ Head(p.kept) = p.kept[1]
      BY <1>3, <1>8, <1>9, <1>10
    <3>2. r.entry = p.kept[1].path
      BY <1>1, <1>9, <1>10, <2>2, <3>1
    <3> QED
      BY <1>1, <3>1, <3>2 DEF M!Paths
  <2> QED
    BY <2>1, <2>2
<1>11. Cardinality(M!Paths(p.kept)) = Len(p.kept) /\ Cardinality(M!IdsOf(p.kept)) = Len(p.kept)
  <2> DEFINE v == [k \in DOMAIN p.kept |-> p.kept[k].path]
             u == [k \in DOMAIN p.kept |-> p.kept[k].id]
  <2>1. \A k, l \in DOMAIN p.kept : (v[k] = v[l] => k = l) /\ (u[k] = u[l] => k = l)
    BY <1>3
  <2>2. M!Paths(p.kept) = {v[k] : k \in DOMAIN p.kept} /\ M!IdsOf(p.kept) = {u[k] : k \in DOMAIN p.kept}
    BY DEF M!Paths, M!IdsOf
  <2> HIDE DEF v, u
  <2> QED
    BY <1>3, <2>1, <2>2, Distinctly
<1>12. Cardinality(M!IdsOf(q.kept)) = Len(q.kept)
  <2> DEFINE u == [k \in DOMAIN q.kept |-> q.kept[k].id]
  <2>1. \A k, l \in DOMAIN q.kept : u[k] = u[l] => k = l
    BY <1>4
  <2>2. M!IdsOf(q.kept) = {u[k] : k \in DOMAIN q.kept}
    BY DEF M!IdsOf
  <2> HIDE DEF u
  <2> QED
    BY <1>4, <2>1, <2>2, Distinctly
<1>13. \A i \in DOMAIN r.blocks : /\ r.blocks[i].id = b.kept[i].id /\ r.blocks[i].page = b.kept[i].page
                                  /\ r.blocks[i].file = b.kept[i].file
                                  /\ r.blocks[i].run => M!BridgeEligible(r)
  <2>1. \A i \in DOMAIN b.kept : Runs(i) => M!BridgeEligible(r)
    OBVIOUS
  <2> HIDE DEF Runs
  <2> QED
    BY <1>1, <2>1
<1>14. Cardinality(M!IdsOf(r.blocks)) = Len(r.blocks)
  <2> DEFINE u == [k \in DOMAIN b.kept |-> b.kept[k].id]
  <2>1. \A k, l \in DOMAIN b.kept : u[k] = u[l] => k = l
    BY <1>5
  <2>2. M!IdsOf(r.blocks) = {u[k] : k \in DOMAIN b.kept}
    <3>1. \A k \in DOMAIN b.kept : u[k] = r.blocks[k].id
      BY <1>1, <1>13
    <3>2. M!IdsOf(r.blocks) = {r.blocks[k].id : k \in DOMAIN b.kept}
      BY Zenon, <1>1 DEF M!IdsOf
    <3> HIDE DEF u
    <3> QED
      BY <3>1, <3>2
  <2>3. Len(r.blocks) = Len(b.kept)
    BY <1>1, <1>8
  <2> HIDE DEF u
  <2> QED
    BY <1>5, <2>1, <2>2, <2>3, Distinctly
<1>15. ASSUME NEW i \in DOMAIN r.blocks
       PROVE  Cardinality({x \in M!ToSet(r.roots) : M!Under(x, r.blocks[i].file)}) = 1
  <2> DEFINE f == r.blocks[i].file
             U == {x \in M!ToSet(roots) : M!Under(x, f)}
  <2>1. f = b.kept[i].file /\ i \in DOMAIN b.kept
    BY <1>1, <1>13
  <2>2. b.kept[i] \in BlockItem
    BY <1>5, <2>1, <1>8, ElementOfSeq
  <2>3. f \in Seq(Segments)
    BY <1>5, <2>1, <2>2, RootPaths DEF BlockItem
  <2>4. PICK x \in M!ToSet(roots) : M!Under(x, f)
    BY <1>5, <2>1
  <2>5. \A y \in U : y = x
    BY <1>6, <2>3, <2>4, UnderFacts
  <2>6. U = {x}
    BY <2>4, <2>5
  <2> QED
    BY <1>1, <2>6, FS_Singleton
<1>16. ASSUME M!BridgeEligible(r) PROVE raw.uid = manifestRow.uid /\ r.pages # <<>>
  <2>1. ~M!Rejected(r) /\ r.profile = "interactive"
    BY <1>16 DEF M!BridgeEligible, M!EffectiveProfile
  <2>2. raw.uid # Bad /\ p.kept # <<>>
    BY <1>9, <2>1
  <2>3. "identity-mismatch" \notin identity
    BY <1>1, <2>1
  <2> QED
    BY <1>1, <2>2, <2>3 DEF identity
<1>17. \A x \in Html : M!Servable(r, x) => x \in M!Paths(r.pages)
  <2>1. \A x \in Html : Head(x) # "assets"
    BY DEF Html, Spelled
  <2> QED
    BY <1>1, <2>1 DEF M!Servable
<1>18. <<"attempts">> \in M!ToSet(r.roots) /\ \A x, y \in M!ToSet(r.roots) : ~M!Under(x, y)
  BY <1>1, <1>6
<1>19. /\ \A i \in DOMAIN r.questions : r.questions[i].page \in M!IdsOf(r.pages)
       /\ \A i \in DOMAIN r.blocks : r.blocks[i].page \in M!IdsOf(r.pages)
  BY <1>1, <1>4, <1>5, <1>13
<1>20. /\ M!Cardinality(M!Paths(r.pages)) = Len(r.pages)
       /\ M!Distinct(r.pages) /\ M!Distinct(r.questions) /\ M!Distinct(r.blocks)
  BY <1>1, <1>11, <1>12, <1>14, AsCounted DEF M!Distinct
<1>21. \A i \in DOMAIN r.blocks : M!Cardinality({x \in M!ToSet(r.roots) : M!Under(x, r.blocks[i].file)}) = 1
  BY <1>15, AsCounted
<1> QED
  BY <1>2, <1>7, <1>10, <1>13, <1>16, <1>17, <1>18, <1>19, <1>20, <1>21 DEF M!ReadHonest

LEMMA RejectedHonest ==
  ASSUME NEW code \in M!Rejecting, M!ReadManifestPath(raw) = M!RejectedRead(code), Timeless
  PROVE  M!ReadHonest
<1> DEFINE r == M!RejectedRead(code)
<1>1. /\ r.version = None /\ r.codes = {code} /\ r.blocks = <<>> /\ r.roots = <<<<"attempts">>>>
  BY DEF M!RejectedRead, M!Item
<1> HIDE DEF r
<1>2. r.version # 1 /\ r.version # 2
  BY <1>1 DEF Timeless
<1>3. M!Rejected(r) /\ ~M!BridgeEligible(r)
  BY <1>1, <1>2 DEF M!Rejected, M!BridgeEligible
<1>4. M!ToSet(r.roots) = {<<"attempts">>}
  BY <1>1 DEF M!ToSet
<1>5. ~M!Under(<<"attempts">>, <<"attempts">>)
  BY RootPaths, UnderFacts
<1>6. \A x \in Html : ~M!Servable(r, x)
  BY <1>3 DEF M!Servable
<1>7. DOMAIN r.blocks = {}
  BY <1>1
<1> QED
  BY <1>3, <1>4, <1>5, <1>6, <1>7 DEF M!ReadHonest, r

LEMMA V1Honest ==
  ASSUME raw \in V1, Spelled
  PROVE  M!ReadHonest
<1> DEFINE r == M!ReadV1(raw)
<1>1. M!ReadManifestPath(raw) = r
  BY DEF M!ReadManifestPath, M!ReadManifest, V1
<1>2. /\ r.version = 1 /\ r.entry \in Html /\ r.blocks = <<>> /\ r.questions = <<>>
      /\ r.roots = <<<<"attempts">>>>
  BY V1Read
<1>3. PICK p \in Seq(Html) :
        /\ r.pages = [i \in DOMAIN p |-> [id |-> None, path |-> p[i]]]
        /\ 1 \in DOMAIN p /\ p[1] = r.entry
        /\ \A k, l \in DOMAIN p : p[k] = p[l] => k = l
  BY V1Read
<1> HIDE DEF r
<1>4. DOMAIN p = 1..Len(p) /\ Len(p) \in Nat
  BY <1>3, LenProperties
<1>5. \A i \in DOMAIN p : r.pages[i].path = p[i]
  BY <1>3
<1>6. DOMAIN r.pages = DOMAIN p /\ Len(r.pages) = Len(p)
  BY <1>3, <1>4
<1>7. M!Paths(r.pages) = {p[i] : i \in DOMAIN p}
  <2>1. M!Paths(r.pages) = {r.pages[i].path : i \in DOMAIN p}
    BY Zenon, <1>6 DEF M!Paths
  <2> QED
    BY <1>5, <2>1
<1>8. r.entry \in M!Paths(r.pages)
  BY <1>3, <1>7
<1>9. M!Cardinality(M!Paths(r.pages)) = Len(r.pages)
  <2>1. Cardinality({p[i] : i \in DOMAIN p}) = Len(p)
    BY <1>3, Distinctly
  <2> QED
    BY <1>6, <1>7, <2>1, AsCounted
<1>10. M!ToSet(r.roots) = {<<"attempts">>} /\ ~M!Under(<<"attempts">>, <<"attempts">>)
  BY <1>2, RootPaths, UnderFacts DEF M!ToSet
<1>11. ~M!BridgeEligible(r) /\ r.version # 2
  BY <1>2 DEF M!BridgeEligible
<1>12. DOMAIN r.blocks = {} /\ DOMAIN r.questions = {}
  BY <1>2
<1> QED
  BY <1>1, <1>8, <1>9, <1>10, <1>11, <1>12 DEF M!ReadHonest

LEMMA KeepsPages ==
  ASSUME raw \in V1, manifestRow \in [uid : {"echo"}, entry : {None} \union M!Refs], Spelled
  PROVE  M!MigrationKeepsPages
<1> DEFINE old == M!ReadV1(raw)
           m == M!BuildV2(raw)
           new == M!ReadV2(m)
           sel == manifestRow.entry
           A == <<"attempts">>
           Paged(q) == [i \in DOMAIN q |-> [id |-> <<"pg", q[i]>>, path |-> q[i]]]
<1>1. old.version = 1 /\ old.entry \in Html
  BY V1Read
<1>2. PICK p \in Seq(Html) :
        /\ old.pages = [i \in DOMAIN p |-> [id |-> None, path |-> p[i]]]
        /\ 1 \in DOMAIN p /\ p[1] = old.entry
        /\ \A k, l \in DOMAIN p : p[k] = p[l] => k = l
  BY V1Read
<1> HIDE DEF old
<1>3. /\ DOMAIN p = 1..Len(p) /\ Len(p) \in Nat /\ DOMAIN old.pages = DOMAIN p
      /\ \A i \in DOMAIN p : old.pages[i].path = p[i]
  BY <1>2, LenProperties
<1>4. M!Paths(old.pages) = {p[i] : i \in DOMAIN p}
  <2>1. M!Paths(old.pages) = {old.pages[i].path : i \in DOMAIN p}
    BY Zenon, <1>3 DEF M!Paths
  <2> QED
    BY <1>3, <2>1
<1> DEFINE folds == sel # None /\ sel.path # Bad /\ sel.path \notin M!Paths(old.pages)
           paths == IF folds THEN <<sel.path>> \o [i \in DOMAIN old.pages |-> old.pages[i].path]
                    ELSE [i \in DOMAIN old.pages |-> old.pages[i].path]
<1>5. [i \in DOMAIN old.pages |-> old.pages[i].path] = p
  BY <1>2, <1>3, LenProperties
<1>6. sel = None \/ sel \in M!Refs
  OBVIOUS
<1>7. /\ paths \in Seq(Html) /\ {p[i] : i \in DOMAIN p} \subseteq {paths[i] : i \in DOMAIN paths}
      /\ folds => sel.path \in {paths[i] : i \in DOMAIN paths}
      /\ \A k, l \in DOMAIN paths : paths[k] = paths[l] => k = l
      /\ paths # <<>>
  <2>1. CASE ~folds
    <3>1. paths = p /\ p # <<>>
      BY <1>2, <1>5, <2>1
    <3> HIDE DEF paths, folds
    <3> QED
      BY <1>2, <2>1, <3>1
  <2>2. CASE folds
    <3> DEFINE s == sel.path
    <3>1. s \in Html /\ s \notin {p[i] : i \in DOMAIN p}
      BY <1>4, <1>6, <2>2, RefsOf
    <3>2. paths = <<s>> \o p
      BY <1>5, <2>2
    <3> HIDE DEF s, paths, folds
    <3>3. <<s>> \in Seq(Html) /\ Len(<<s>>) = 1 /\ <<s>>[1] = s
      BY <3>1
    <3>4. /\ paths \in Seq(Html) /\ Len(paths) = 1 + Len(p) /\ paths[1] = s
          /\ \A i \in 1..Len(p) : paths[i + 1] = p[i]
      BY <1>3, <3>2, <3>3, ConcatProperties
    <3>5. DOMAIN paths = 1..(1 + Len(p))
      BY <3>4, LenProperties
    <3>6. \A k \in DOMAIN paths : k = 1 \/ (k - 1 \in DOMAIN p /\ paths[k] = p[k - 1])
      BY <1>3, <3>4, <3>5
    <3>7. \A k, l \in DOMAIN paths : paths[k] = paths[l] => k = l
      BY <1>2, <1>3, <3>1, <3>4, <3>5, <3>6
    <3>8. \A i \in DOMAIN p : i + 1 \in DOMAIN paths /\ paths[i + 1] = p[i]
      BY <1>3, <3>4, <3>5
    <3>9. {p[i] : i \in DOMAIN p} \subseteq {paths[i] : i \in DOMAIN paths}
      BY <3>8
    <3>10. 1 \in DOMAIN paths
      BY <1>3, <3>5
    <3>11. paths # <<>>
      BY <3>10
    <3>12. s \in {paths[i] : i \in DOMAIN paths}
      BY <3>4, <3>10
    <3>13. s = sel.path
      BY Zenon DEF s
    <3>14. paths \in Seq(Html)
      BY <3>4
    <3> HIDE DEF sel
    <3> QED
      BY Zenon, <3>7, <3>9, <3>11, <3>12, <3>13, <3>14
  <2> QED
    BY <2>1, <2>2
<1>8. /\ m.uid = manifestRow.uid /\ m.entry = old.entry /\ m.pages = Paged(paths)
      /\ m.questions = <<>> /\ m.blocks = <<>> /\ m.roots = <<A>> /\ m.profile = "legacy-display"
  <2>1. m = [form |-> "v2", uid |-> manifestRow.uid, entry |-> old.entry, pages |-> Paged(paths),
             questions |-> <<>>, blocks |-> <<>>, roots |-> <<A>>, profile |-> "legacy-display"]
    BY DEF M!BuildV2, old
  <2> DEFINE pp == Paged(paths)
  <2> HIDE DEF pp, m
  <2> QED
    BY <2>1 DEF pp
<1> HIDE DEF m, paths, folds, new
<1> DEFINE q == M!ReadPages(m.pages)
           roots == M!ReadRoots(m.roots)
           qs == M!ReadQuestions(m.questions, q.kept)
           b == M!ReadBlocks(m.blocks, q.kept, roots)
<1>9. q.kept = m.pages /\ q.codes = {}
  <2> DEFINE W == [id : {<<"pg", x>> : x \in Html}, path : Html]
  <2>1. DOMAIN paths = 1..Len(paths) /\ Len(paths) \in Nat /\ \A i \in DOMAIN paths : paths[i] \in Html
    BY <1>7, LenProperties, ElementOfSeq
  <2>2. m.pages \in [1..Len(paths) -> W] /\ DOMAIN m.pages = DOMAIN paths
    BY <1>8, <2>1
  <2>3. \A i \in DOMAIN paths : m.pages[i].id = <<"pg", paths[i]>> /\ m.pages[i].path = paths[i]
    BY <1>8, <2>1
  <2> HIDE DEF W
  <2>4. m.pages \in Seq(W)
    BY <2>1, <2>2, SeqDef
  <2>5. \A i \in DOMAIN m.pages : m.pages[i].id # Bad /\ m.pages[i].path # Bad
    <3>1. Bad \notin Html /\ \A x \in Html : <<"pg", x>> # Bad
      BY DEF Spelled
    <3> QED
      BY <2>1, <2>2, <2>3, <3>1
  <2>6. \A i, j \in DOMAIN m.pages : m.pages[i].id = m.pages[j].id \/ m.pages[i].path = m.pages[j].path => i = j
    <3>1. \A x, y : <<"pg", x>> = <<"pg", y>> => x = y
      OBVIOUS
    <3> QED
      BY <1>7, <2>2, <2>3, <3>1
  <2>7. m.pages # <<>>
    BY <1>7, <2>1, <2>2
  <2> QED
    BY <2>4, <2>5, <2>6, <2>7, PagesRead
<1>10. qs.codes = {} /\ b.codes = {}
  <2> HIDE DEF roots, q
  <2>1. m.questions \in Seq({}) /\ m.blocks \in Seq({})
    BY <1>8
  <2> QED
    BY <1>8, <2>1, QuestionsRead, BlocksRead
<1>11. M!Paths(q.kept) = {paths[i] : i \in DOMAIN paths}
  <2>1. DOMAIN m.pages = DOMAIN paths /\ \A i \in DOMAIN paths : m.pages[i].path = paths[i]
    BY <1>8
  <2>2. M!Paths(q.kept) = {m.pages[i].path : i \in DOMAIN paths}
    BY Zenon, <1>9, <2>1 DEF M!Paths
  <2> HIDE DEF q
  <2> QED
    BY <2>1, <2>2
<1>12. old.entry \in M!Paths(q.kept)
  <2>1. old.entry \in {p[i] : i \in DOMAIN p}
    BY <1>2
  <2> QED
    BY <1>7, <1>11, <2>1
<1>13. manifestRow.uid = "echo" /\ "echo" # Bad
  BY DEF Spelled
<1> HIDE DEF q, qs, b, roots
<1>14. /\ new.version = 2 /\ new.pages = q.kept /\ new.entry = old.entry
       /\ new.codes = q.codes \union qs.codes \union b.codes
  <2> DEFINE identity == IF m.uid = Bad THEN {"missing-identity"}
                         ELSE IF m.uid # manifestRow.uid THEN {"identity-mismatch"} ELSE {}
  <2>1. identity = {}
    BY <1>8, <1>13
  <2> HIDE DEF identity
  <2>2. /\ new.version = 2 /\ new.pages = q.kept
        /\ new.codes = q.codes \union qs.codes \union b.codes \union identity
                        \union (IF m.entry \in M!Paths(q.kept) THEN {} ELSE {"invalid-entry"})
        /\ new.entry = IF m.entry \in M!Paths(q.kept) THEN m.entry
                       ELSE IF q.kept # <<>> THEN Head(q.kept).path ELSE None
    BY V2Parts DEF new, q, qs, b, roots, identity
  <2> QED
    BY <1>8, <1>12, <2>1, <2>2
<1>15. new.codes = {} /\ M!Paths(old.pages) \subseteq M!Paths(new.pages)
  BY <1>4, <1>7, <1>9, <1>10, <1>11, <1>14
<1>16. ASSUME sel = None \/ (~sel.dotted /\ sel.path # Bad)
       PROVE  M!ResolveEntry(new, sel) = M!ResolveEntry(old, sel)
  <2>1. CASE sel = None
    BY <1>14, <2>1 DEF M!ResolveEntry
  <2>2. CASE sel # None /\ sel.path # Bad
    <3>1. sel.path \in M!Paths(new.pages)
      BY <1>7, <1>11, <1>14, <1>15, <2>2 DEF folds
    <3> QED
      BY <1>1, <1>14, <1>16, <2>2, <3>1 DEF M!ResolveEntry
  <2> QED
    BY <1>16, <2>1, <2>2
<1> QED
  BY <1>14, <1>15, <1>16 DEF M!MigrationKeepsPages, old, new, m

\* A manifest the readers look into is a record of its version.
MInv ==
    /\ raw.form \in {"v1", "v2", "unreadable", "later", "symlink"} /\ "form" \in DOMAIN raw
    /\ raw.form = "v1" => raw \in V1
    /\ raw.form = "v2" => raw \in V2
    /\ manifestRow \in [uid : {"echo"}, entry : {None} \union M!Refs]

LEMMA ReadsHonest ==
  ASSUME MInv, Spelled, Timeless
  PROVE  M!ReadHonest /\ M!MigrationKeepsPages
<1>1. CASE raw.form = "unreadable"
  <2>1. M!ReadManifestPath(raw) = M!RejectedRead("manifest-unreadable")
    BY <1>1 DEF M!ReadManifestPath, M!ReadManifest
  <2> QED
    BY <1>1, <2>1, RejectedHonest DEF M!Rejecting, M!MigrationKeepsPages
<1>2. CASE raw.form = "later"
  <2>1. M!ReadManifestPath(raw) = M!RejectedRead("unsupported-version")
    BY <1>2 DEF M!ReadManifestPath, M!ReadManifest
  <2> QED
    BY <1>2, <2>1, RejectedHonest DEF M!Rejecting, M!MigrationKeepsPages
<1>3. CASE raw.form = "symlink"
  <2>1. M!ReadManifestPath(raw) = M!RejectedRead("symlinked-bundle")
    BY <1>3 DEF M!ReadManifestPath
  <2> QED
    BY <1>3, <2>1, RejectedHonest DEF M!Rejecting, M!MigrationKeepsPages
<1>4. CASE raw.form = "v1"
  BY <1>4, V1Honest, KeepsPages DEF MInv
<1>5. CASE raw.form = "v2"
  BY <1>5, V2Honest DEF MInv, M!MigrationKeepsPages
<1> QED
  BY <1>1, <1>2, <1>3, <1>4, <1>5 DEF MInv

LEMMA ManifestStart == ASSUME M!Init, Spelled PROVE MInv
<1>1. manifestRow \in [uid : {"echo"}, entry : {None} \union M!Refs]
  BY DEF M!Init
<1>2. CASE raw = M!Skeleton
  <2>1. <<"index">> \in Html /\ (CHOOSE i \in PageIds : TRUE) \in PageIds
    BY DEF Spelled, Html
  <2> DEFINE page == [id |-> CHOOSE i \in PageIds : TRUE, path |-> <<"index">>]
  <2>2. raw = [form |-> "v2", uid |-> manifestRow.uid, entry |-> <<"index">>, questions |-> <<>>, blocks |-> <<>>,
               pages |-> <<page>>, roots |-> <<<<"attempts">>>>, profile |-> "interactive"]
    BY <1>2 DEF M!Skeleton
  <2>3. page \in PageItem
    BY <2>1 DEF PageItem
  <2> HIDE DEF page
  <2>4. <<page>> \in Seq(PageItem)
    BY <2>3
  <2>5. raw.form = "v2" /\ "form" \in DOMAIN raw
    BY <2>2
  <2>6. <<<<"attempts">>>> \in Seq(Roots \union {Bad, <<"attempts">>})
    OBVIOUS
  <2>7. manifestRow.uid = "echo"
    BY <1>1
  <2>8. <<>> \in Seq(QuestionItem) /\ <<>> \in Seq(BlockItem)
    BY EmptySeq
  <2>9. raw \in V2
    BY <2>1, <2>2, <2>4, <2>6, <2>7, <2>8 DEF V2
  <2> QED
    BY <1>1, <2>5, <2>9 DEF MInv
<1>3. CASE \E e \in M!Refs : raw = [form |-> "v1", entry |-> e, related |-> <<>>]
  <2>1. PICK e \in M!Refs : raw = [form |-> "v1", entry |-> e, related |-> <<>>]
    BY <1>3
  <2>2. raw \in V1 /\ raw.form = "v1" /\ "form" \in DOMAIN raw
    BY <2>1, EmptySeq DEF V1
  <2> QED
    BY <1>1, <2>2 DEF MInv
<1> QED
  BY <1>2, <1>3 DEF M!Init

LEMMA ManifestStep == ASSUME MInv, [M!Next]_(M!vars) PROVE MInv'
<1>1. CASE UNCHANGED M!vars
  BY <1>1 DEF MInv, M!vars, V1, V2
<1>2. CASE M!Next
  <2>0. manifestRow' = manifestRow
    BY <1>2 DEF M!Next
  <2>1. CASE M!Spoil
    <3>1. PICK f \in {"unreadable", "later", "symlink"} : raw' = [raw EXCEPT !.form = f]
      BY <2>1 DEF M!Spoil
    <3>2. raw'.form = f /\ "form" \in DOMAIN raw'
      BY <3>1 DEF MInv
    <3> QED
      BY <2>0, <3>2 DEF MInv
  <2>2. CASE M!AgentEditV1
    <3>1. raw \in V1
      BY <2>2 DEF M!AgentEditV1, MInv
    <3>2. PICK ref \in M!Refs : raw' = [raw EXCEPT !.related = Append(@, ref)]
      BY <2>2 DEF M!AgentEditV1
    <3>3. Append(raw.related, ref) \in Seq(M!Refs)
      BY <3>1, AppendProperties DEF V1
    <3>4. raw' \in V1 /\ raw'.form = "v1" /\ "form" \in DOMAIN raw'
      BY <3>1, <3>2, <3>3 DEF V1
    <3> QED
      BY <2>0, <3>4 DEF MInv
  <2>3. CASE M!AgentEdit
    <3>1. raw \in V2
      BY <2>3 DEF M!AgentEdit, MInv
    <3>2. raw' \in V2
      <4>1. ASSUME NEW i \in M!Items, NEW k \in DOMAIN i, raw' = [raw EXCEPT ![k] = Append(@, i[k])]
            PROVE  raw' \in V2
        <5>1. CASE k = "pages" /\ i[k] \in PageItem
          <6>1. Append(raw.pages, i[k]) \in Seq(PageItem)
            BY <3>1, <5>1, AppendProperties DEF V2
          <6> QED
            BY <3>1, <4>1, <5>1, <6>1 DEF V2
        <5>2. CASE k = "questions" /\ i[k] \in QuestionItem
          <6>1. Append(raw.questions, i[k]) \in Seq(QuestionItem)
            BY <3>1, <5>2, AppendProperties DEF V2
          <6> QED
            BY <3>1, <4>1, <5>2, <6>1 DEF V2
        <5>3. CASE k = "blocks" /\ i[k] \in BlockItem
          <6>1. Append(raw.blocks, i[k]) \in Seq(BlockItem)
            BY <3>1, <5>3, AppendProperties DEF V2
          <6> QED
            BY <3>1, <4>1, <5>3, <6>1 DEF V2
        <5>4. CASE k = "roots" /\ i[k] \in Roots \union {Bad}
          <6>1. Append(raw.roots, i[k]) \in Seq(Roots \union {Bad, <<"attempts">>})
            BY <3>1, <5>4, AppendProperties DEF V2
          <6> QED
            BY <3>1, <4>1, <5>4, <6>1 DEF V2
        <5>5. \/ k = "pages" /\ i[k] \in PageItem
              \/ k = "questions" /\ i[k] \in QuestionItem
              \/ k = "blocks" /\ i[k] \in BlockItem
              \/ k = "roots" /\ i[k] \in Roots \union {Bad}
          BY <4>1 DEF M!Items, PageItem, QuestionItem, BlockItem
        <5> QED
          BY <5>1, <5>2, <5>3, <5>4, <5>5
      <4>2. ASSUME NEW u \in {"other", Bad}, raw' = [raw EXCEPT !.uid = u] PROVE raw' \in V2
        BY <3>1, <4>2 DEF V2
      <4>3. ASSUME NEW e \in Html \union {Bad}, raw' = [raw EXCEPT !.entry = e] PROVE raw' \in V2
        BY <3>1, <4>3 DEF V2
      <4>4. ASSUME raw' = [raw EXCEPT !.profile = "legacy-display"] PROVE raw' \in V2
        BY <3>1, <4>4 DEF V2
      <4>5. ASSUME NEW k \in {"roots", "pages"}, raw' = [raw EXCEPT ![k] = <<>>] PROVE raw' \in V2
        <5>1. <<>> \in Seq(PageItem) /\ <<>> \in Seq(Roots \union {Bad, <<"attempts">>})
          BY EmptySeq
        <5> QED
          BY <3>1, <4>5, <5>1 DEF V2
      <4> QED
        BY <2>3, <4>1, <4>2, <4>3, <4>4, <4>5 DEF M!AgentEdit
    <3>3. raw'.form = "v2" /\ "form" \in DOMAIN raw'
      BY <3>2 DEF V2
    <3> QED
      BY <2>0, <3>2, <3>3 DEF MInv
  <2> QED
    BY <1>2, <2>1, <2>2, <2>3 DEF M!Next
<1> QED
  BY <1>1, <1>2

LEMMA ManifestsMove == LearnSpec => M!Spec
<1>1. LearnInit => M!Init
  BY DEF LearnInit
<1>2. [LearnNext]_<<scene, ofManifest, ofLessons, ofPages, vars, ofBridge>> => [M!Next]_(M!vars)
  BY DEF LearnNext, ofManifest, M!vars
<1> QED
  BY <1>1, <1>2, PTL DEF LearnSpec, M!Spec

(* Whatever the study agent writes, a read in force refers only to what is *)
(* in force, and a migrated manifest reads clean with the same pages and   *)
(* the same page selected (bundle_schema.py, migrate_bundles.py).          *)
THEOREM ReadsAreHonest == LearnSpec => []ManifestHonest
<1> USE LearnConstants
<1>1. M!Init => MInv
  BY ManifestStart
<1>2. MInv /\ [M!Next]_(M!vars) => MInv'
  BY ManifestStep
<1>3. MInv => ManifestHonest
  BY ReadsHonest DEF ManifestHonest
<1> QED
  BY <1>1, <1>2, <1>3, ManifestsMove, PTL DEF M!Spec
-----------------------------------------------------------------------------
(* Types.  What the invariants above leave open is how far each service goes, *)
(* and what a column or a request may hold.                                   *)

(* The bridge. *)

\* A frame is put back so often, and a document owns so many runs.
Limited ==
    /\ frame.reasserts <= MaxReasserts
    /\ bridge.owned \in Seq(Requests) /\ Len(bridge.owned) <= MaxOwned

LEMMA Removed ==
  ASSUME NEW s \in Seq(Requests), NEW r
  PROVE  B!Without(s, r) \in Seq(Requests) /\ Len(B!Without(s, r)) <= Len(s)
<1>1. CASE \E i \in DOMAIN s : s[i] = r
  <2> DEFINE i == CHOOSE i \in DOMAIN s : s[i] = r
             before == SubSeq(s, 1, i - 1)
             after == SubSeq(s, i + 1, Len(s))
  <2>1. i \in 1..Len(s) /\ Len(s) \in Nat
    BY <1>1
  <2>2. B!Without(s, r) = before \o after
    BY <1>1 DEF B!Without
  <2> HIDE DEF i
  <2>3. before \in Seq(Requests) /\ Len(before) = i - 1
    BY <2>1
  <2>4. after \in Seq(Requests) /\ Len(after) = Len(s) - i
    BY <2>1
  <2> HIDE DEF before, after
  <2>5. before \o after \in Seq(Requests) /\ Len(before \o after) = Len(before) + Len(after)
    BY <2>3, <2>4
  <2> QED
    BY <2>1, <2>2, <2>3, <2>4, <2>5
<1>2. CASE ~\E i \in DOMAIN s : s[i] = r
  BY <1>2 DEF B!Without
<1> QED
  BY <1>1, <1>2

\* A document that is put back, and one that is not.
LEMMA PutBack ==
  ASSUME Limits, NEW f, f \in Frame, f.reasserts <= MaxReasserts
  PROVE  B!Reasserted(f).reasserts <= MaxReasserts
  BY DEF Limits, Frame, B!Reasserted

LEMMA FrameLimited ==
  ASSUME Limits, BridgeInv, Limited,
         B!Load \/ (\E m \in B!Metas : B!Navigate(m))
  PROVE  Limited'
<1>1. frame \in Frame /\ frame.reasserts \in Nat /\ frame.gen \in Nat
  BY DEF BridgeInv, BridgeTypes, Frame
<1>2. bridge' = B!NoBridge
  BY DEF B!Load, B!Navigate
<1>3. frame'.reasserts <= MaxReasserts
  <2>1. CASE \E m \in B!Metas : B!Navigate(m)
    <3>1. frame'.reasserts = 0
      BY <2>1, <1>1 DEF B!Navigate, B!Navigated, Frame
    <3> QED
      BY <3>1 DEF Limits
  <2>2. CASE B!Load
    <3>1. PICK next : next = [frame EXCEPT !.gen = @ + 1]
      OBVIOUS
    <3>2. next \in Frame /\ next.reasserts = frame.reasserts
      BY <1>1, <3>1 DEF Frame
    <3>3. frame' = [next EXCEPT !.pending = FALSE] \/ frame' = B!Reasserted(next)
      BY <2>2, <3>1 DEF B!Load
    <3>4. CASE frame' = [next EXCEPT !.pending = FALSE]
      BY <3>2, <3>4 DEF Frame, Limited
    <3>5. CASE frame' = B!Reasserted(next)
      BY <3>2, <3>5, PutBack DEF Limited
    <3> QED
      BY <3>3, <3>4, <3>5
  <2> QED
    BY <2>1, <2>2
<1>4. B!NoBridge.owned = <<>> /\ <<>> \in Seq(Requests) /\ Len(<<>>) = 0
  BY DEF B!NoBridge
<1> QED
  BY <1>2, <1>3, <1>4 DEF Limited, Limits

\* Nothing of either moves.
LEMMA Unmoved ==
  ASSUME Limited, frame' = frame, bridge'.owned = bridge.owned
  PROVE  Limited'
  BY DEF Limited

LEMMA RunsLimited ==
  ASSUME Limits, BridgeInv, Limited, NEW o \in ops, B!Finish(o)
  PROVE  Limited'
<1>1. DOMAIN bridge = BridgeFields /\ o.req \in Requests /\ frame' = frame
  BY DEF BridgeInv, BridgeTypes, Informed, OpRecord, B!Finish
<1>2. bridge.owned \in Seq(Requests) /\ Len(bridge.owned) <= MaxOwned /\ MaxOwned \in Nat
  BY DEF Limited, Limits
<1>3. CASE o.kind = "run"
  <2> DEFINE kept == B!Without(bridge.owned, o.req)
             all == Append(kept, o.req)
             owned == IF Len(all) > MaxOwned THEN Tail(all) ELSE all
  <2>1. bridge' = B!Finished(o, B!Remembered(bridge, o.req))
    BY <1>3 DEF B!Finish
  <2>2. B!Remembered(bridge, o.req) = [bridge EXCEPT !.owned = owned, !.relay = o.req]
    BY DEF B!Remembered
  <2>3. kept \in Seq(Requests) /\ Len(kept) <= Len(bridge.owned)
    BY <1>2, Removed
  <2> HIDE DEF kept
  <2>4. all \in Seq(Requests) /\ Len(all) = Len(kept) + 1 /\ all # <<>>
    BY <1>1, <2>3
  <2> HIDE DEF all
  <2>5. owned \in Seq(Requests) /\ Len(owned) <= MaxOwned
    BY <1>2, <2>3, <2>4
  <2> HIDE DEF owned
  <2>6. DOMAIN B!Remembered(bridge, o.req) = BridgeFields /\ B!Remembered(bridge, o.req).owned = owned
    BY <1>1, <2>2 DEF BridgeFields
  <2>7. bridge'.owned = owned
    BY <2>1, <2>6 DEF B!Finished, BridgeFields
  <2> QED
    BY <1>1, <2>5, <2>7 DEF Limited
<1>4. CASE o.kind # "run"
  <2>1. bridge' = B!Finished(o, bridge)
    BY <1>4 DEF B!Finish
  <2> QED
    BY <1>1, <2>1, Unmoved DEF B!Finished, BridgeFields
<1> QED
  BY <1>3, <1>4

LEMMA RelaysLimited ==
  ASSUME BridgeInv, Limits, Limited, (\E seq \in 1 .. (Outputs + 1) : B!RelayEvent(seq)) \/ B!RelayEnds
  PROVE  Limited'
<1> DEFINE kept == B!Without(bridge.owned, bridge.relay)
<1>1. kept \in Seq(Requests) /\ Len(kept) <= Len(bridge.owned)
  BY Removed DEF Limited
<1>2. frame' = frame /\ DOMAIN bridge = BridgeFields
  BY DEF B!RelayEvent, B!RelayEnds, BridgeInv, BridgeTypes
<1>3. B!Disowned(bridge).owned = kept
  BY <1>2 DEF B!Disowned, BridgeFields
<1>4. bridge' \in {bridge, B!Disowned(bridge), [bridge EXCEPT !.relay = NoJob]}
  BY DEF B!RelayEvent, B!RelayEnds
<1>5. bridge'.owned \in {bridge.owned, kept}
  BY <1>2, <1>3, <1>4 DEF BridgeFields
<1> HIDE DEF kept
<1>6. Len(kept) <= MaxOwned
  BY <1>1 DEF Limited, Limits
<1> QED
  BY <1>1, <1>2, <1>5, <1>6 DEF Limited

LEMMA BridgeLimited ==
  ASSUME Limits, BridgeInv, Limited, [B!Next]_B!vars
  PROVE  Limited'
<1>0. DOMAIN bridge = BridgeFields /\ fetches \subseteq FetchRecord
  BY DEF BridgeInv, BridgeTypes
<1>1. CASE UNCHANGED B!vars
  BY <1>1 DEF B!vars, Limited
<1>2. CASE B!EditBundle \/ B!Tick \/ B!Commit \/ B!SelfNavigate
  BY <1>2, Unmoved DEF B!EditBundle, B!Tick, B!Commit, B!SelfNavigate
<1>3. CASE B!Load
  BY <1>3, FrameLimited
<1>4. ASSUME NEW f \in fetches, B!AnswerFetch(f) \/ B!BindDone(f) \/ B!TickDone(f) \/ B!GrantDone(f)
      PROVE  Limited'
  <2>1. ASSUME NEW m \in B!Metas, bridge' = B!Armed(bridge, m) PROVE bridge'.owned = bridge.owned
    BY <1>0, <2>1 DEF B!Armed, BridgeFields
  <2>2. f.seen \in {B!Waiting, B!Lost} \union B!Metas
    BY <1>0 DEF FetchRecord
  <2>3. CASE B!AnswerFetch(f)
    BY <2>3, Unmoved DEF B!AnswerFetch
  <2>4. CASE B!BindDone(f)
    <3>1. \/ UNCHANGED <<frame, bridge>>
          \/ f.seen \in B!Metas /\ B!Navigate(f.seen)
          \/ f.seen \in B!Metas /\ bridge' = B!Armed(bridge, f.seen) /\ frame' = frame
      BY <2>2, <2>4 DEF B!BindDone
    <3> QED
      BY <2>1, <3>1, Unmoved, FrameLimited
  <2>5. CASE B!TickDone(f)
    <3>1. \/ UNCHANGED <<frame, bridge>>
          \/ f.seen \in B!Metas /\ B!Navigate(f.seen)
          \/ f.seen \in B!Metas /\ bridge' = B!Armed(bridge, f.seen) /\ frame' = frame
      BY <2>2, <2>5 DEF B!TickDone
    <3> QED
      BY <2>1, <3>1, Unmoved, FrameLimited
  <2>6. CASE B!GrantDone(f)
    <3> DEFINE b == [bridge EXCEPT !.granting = FALSE]
               c == [b EXCEPT !.can = f.seen.can]
    <3>1. frame' = frame /\ bridge' \in {bridge, b, B!Granted(c, f.want)}
      BY <2>6 DEF B!GrantDone
    <3>2. DOMAIN c = BridgeFields /\ c.owned = bridge.owned /\ b.owned = bridge.owned
      BY <1>0 DEF BridgeFields
    <3> HIDE DEF c
    <3>3. B!Granted(c, f.want).owned = bridge.owned
      BY <3>2 DEF B!Granted, BridgeFields
    <3> QED
      BY <3>1, <3>2, <3>3, Unmoved
  <2> QED
    BY <1>4, <2>3, <2>4, <2>5, <2>6
<1>5. ASSUME NEW want \in B!Wants, B!Announce(want) PROVE Limited'
  <2>1. frame' = frame /\ bridge' \in {bridge, [bridge EXCEPT !.granting = TRUE], B!Granted(bridge, want)}
    BY <1>5 DEF B!Announce
  <2>2. bridge'.owned = bridge.owned
    BY <1>0, <2>1 DEF B!Granted, BridgeFields
  <2> QED
    BY <2>1, <2>2, Unmoved
<1>6. CASE B!ProtocolError
  BY <1>0, <1>6, Unmoved DEF B!ProtocolError, BridgeFields
<1>7. ASSUME NEW r \in Requests, NEW k \in OpKinds, B!Ask(r, k) PROVE Limited'
  BY <1>0, <1>7, Unmoved DEF B!Ask, BridgeFields
<1>8. ASSUME NEW o \in ops, B!AnswerOp(o) \/ B!Stop(o) \/ B!GoOn(o) PROVE Limited'
  <2>1. frame' = frame
    BY <1>8 DEF B!AnswerOp, B!Stop, B!GoOn
  <2>2. \/ bridge' = bridge \/ bridge' = B!Finished(o, bridge)
        \/ \E x : bridge' = [bridge EXCEPT !.consent = x]
    BY <1>8 DEF B!AnswerOp, B!Stop, B!GoOn
  <2>3. bridge'.owned = bridge.owned
    BY <1>0, <2>2 DEF B!Finished, BridgeFields
  <2> QED
    BY <2>1, <2>3, Unmoved
<1> QED
  BY <1>1, <1>2, <1>3, <1>4, <1>5, <1>6, <1>7, <1>8, RunsLimited, RelaysLimited DEF B!Next, B!Answering

LEMMA BridgeTyped ==
  ASSUME BridgeInv, Limited
  PROVE  B!TypeOK
<1>1. frame.expected \in Versions /\ frame.reasserts \in Nat
  BY DEF BridgeInv, BridgeTypes, Frame
<1>2. frame.reasserts \in 0..MaxReasserts
  BY <1>1 DEF Limited
<1>3. \A o \in ops : o.req \in Requests /\ o.kind \in OpKinds /\ o.at \in DOMAIN B!Stages[o.kind]
  BY DEF BridgeInv, Informed, OpRecord
<1> QED
  BY <1>1, <1>2, <1>3 DEF B!TypeOK, BridgeInv, BridgeTypes, Limited

LEMMA BridgeStarts == Limits /\ B!Init => Limited
<1> SUFFICES ASSUME Limits, B!Init PROVE Limited
  OBVIOUS
<1>1. bridge = B!NoBridge /\ frame.reasserts \in {0, 1}
  BY DEF B!Init
<1>2. B!NoBridge.owned = <<>> /\ <<>> \in Seq(Requests) /\ Len(<<>>) = 0
  BY DEF B!NoBridge
<1> QED
  BY <1>1, <1>2 DEF Limited, Limits

(* Pages. *)

\* Modification times that a rename or a utime puts back are older ones.
Dated ==
    /\ changes <= MaxChanges
    /\ \A n \in DOMAIN inodes : inodes[n].mtime <= changes
    /\ profile \in P!Profiles
    /\ \A r \in readers : r.kind \in P!Kinds /\ r.prof \in P!Profiles

\* An inode changes, or a new one comes, with a time no later than the change.
LEMMA Redated ==
  ASSUME Limits, PagesInv, Dated, P!Change, UNCHANGED <<readers, profile>>,
         NEW node, DOMAIN inodes' \subseteq DOMAIN inodes \union {node},
         inodes'[node].mtime \in 0 .. changes + 1,
         \A n \in DOMAIN inodes : n = node \/ inodes'[n] = inodes[n]
  PROVE  Dated'
<1>1. changes \in Nat /\ MaxChanges \in Nat /\ changes' = changes + 1 /\ changes' <= MaxChanges
  BY DEF PagesInv, Nodes, Limits, P!Change
<1>2. ASSUME NEW n \in DOMAIN inodes' PROVE inodes'[n].mtime <= changes'
  <2>1. CASE n = node
    BY <1>1, <2>1
  <2>2. CASE n # node
    <3>1. n \in DOMAIN inodes /\ inodes'[n] = inodes[n] /\ inodes[n].mtime \in Nat /\ inodes[n].mtime <= changes
      BY <2>2 DEF PagesInv, Nodes, Inode, Dated
    <3> QED
      BY <1>1, <3>1
  <2> QED
    BY <2>1, <2>2
<1> QED
  BY <1>1, <1>2 DEF Dated

LEMMA EditorsDated ==
  ASSUME Limits, PagesInv, Dated,
         P!WriteFirstHalf \/ P!WriteSecondHalf \/ P!Rename \/ P!Utime \/ P!Remove \/ P!FlipProfile
  PROVE  Dated'
<1>1. changes \in Nat /\ \A n \in DOMAIN inodes : inodes[n].mtime \in 0..changes
  BY DEF PagesInv, Nodes, Inode, Dated
<1>2. (name # None => name \in DOMAIN inodes) /\ (writing # None => writing.node \in DOMAIN inodes)
  BY DEF PagesInv, Nodes
<1>3. ASSUME P!Change, UNCHANGED <<readers, profile>>, NEW node \in DOMAIN inodes,
             NEW m \in 0 .. changes + 1, NEW bytes, inodes' = P!Touched(node, m, bytes)
      PROVE  Dated'
  <2>1. DOMAIN inodes' = DOMAIN inodes /\ inodes'[node].mtime = m
        /\ \A n \in DOMAIN inodes : n = node \/ inodes'[n] = inodes[n]
    BY <1>3 DEF P!Touched
  <2> QED
    BY <1>3, <2>1, Redated
<1>4. changes + 1 \in 0 .. changes + 1 /\ \A n \in DOMAIN inodes : inodes[n].mtime \in 0 .. changes + 1
  BY <1>1
<1>5. CASE P!WriteFirstHalf
  <2>1. PICK x \in Halves : inodes' = P!Touched(name, changes + 1, <<x, inodes[name].bytes[2]>>)
    BY <1>5 DEF P!WriteFirstHalf
  <2> QED
    BY <1>2, <1>3, <1>4, <1>5, <2>1 DEF P!WriteFirstHalf, P!Quiet
<1>6. CASE P!WriteSecondHalf
  BY <1>2, <1>3, <1>4, <1>6 DEF P!WriteSecondHalf, P!Quiet
<1>7. CASE P!Utime
  BY <1>2, <1>3, <1>4, <1>7 DEF P!Utime, P!Quiet
<1>8. CASE P!Rename
  <2> DEFINE node == Cardinality(DOMAIN inodes) + 1
  <2>1. PICK x \in Halves, m \in {changes + 1} \union {inodes[n].mtime : n \in DOMAIN inodes} :
           inodes' = [n \in DOMAIN inodes \union {node} |->
                        IF n = node THEN [mtime |-> m, ctime |-> changes + 1, bytes |-> <<x, x>>] ELSE inodes[n]]
    BY <1>8, Zenon DEF P!Rename, P!Cardinality, Cardinality
  <2> HIDE DEF node
  <2>2. m \in 0 .. changes + 1
    BY <1>4
  <2>3. DOMAIN inodes' = DOMAIN inodes \union {node} /\ inodes'[node].mtime = m
        /\ \A n \in DOMAIN inodes : n = node \/ inodes'[n] = inodes[n]
    BY <2>1
  <2>4. P!Change /\ UNCHANGED <<readers, profile>>
    BY <1>8 DEF P!Rename, P!Quiet
  <2> QED
    BY <2>2, <2>3, <2>4, Redated
<1>9. CASE P!Remove \/ P!FlipProfile
  <2>1. inodes' = inodes /\ readers' = readers /\ profile' \in P!Profiles /\ changes' = changes + 1
        /\ changes' <= MaxChanges
    BY <1>1, <1>9 DEF P!Remove, P!FlipProfile, P!Quiet, P!Change, Dated, Limits
  <2>2. \A n \in DOMAIN inodes : inodes[n].mtime <= changes + 1
    BY <1>4
  <2> QED
    BY <2>1, <2>2 DEF Dated
<1> QED
  BY <1>5, <1>6, <1>7, <1>8, <1>9

LEMMA ReadersDated ==
  ASSUME PagesInv, Dated,
         (\E k \in P!Kinds : P!Ask(k))
         \/ \E r \in readers : P!Open(r) \/ P!ReadFirst(r) \/ P!ReadSecond(r) \/ P!Close(r)
  PROVE  Dated'
<1>1. UNCHANGED <<changes, inodes, profile>>
  BY DEF P!Ask, P!Open, P!ReadFirst, P!ReadSecond, P!Close, P!Unread
<1>2. CASE \E k \in P!Kinds : P!Ask(k)
  <2>1. PICK k \in P!Kinds : P!Ask(k)
    BY <1>2
  <2>2. \E v : readers' = readers \union {[id |-> reads, kind |-> k, v |-> v, at |-> "open", prof |-> profile,
                                           node |-> None, key |-> None, first |-> None, second |-> None]}
    BY <2>1 DEF P!Ask
  <2>3. \A r \in readers' \ readers : r.kind = k /\ r.prof = profile
    BY <2>2
  <2> QED
    BY <1>1, <2>3 DEF Dated
<1>3. ASSUME NEW r \in readers, P!Open(r) \/ P!ReadFirst(r) \/ P!ReadSecond(r) \/ P!Close(r)
      PROVE  Dated'
  <2>1. DOMAIN r = ReaderFields
    BY DEF PagesInv, Reader
  <2>2. CASE readers' = readers \ {r}
    BY <1>1, <2>2 DEF Dated
  <2>3. ASSUME NEW q, readers' = (readers \ {r}) \union {q}, q.kind = r.kind, q.prof = r.prof
        PROVE  Dated'
    BY <1>1, <2>3 DEF Dated
  <2>4. CASE P!Open(r)
    <3>1. \/ readers' = readers \ {r}
          \/ readers' = (readers \ {r}) \union {[r EXCEPT !.at = "first", !.node = name, !.key = P!Key(name)]}
      BY <2>4 DEF P!Open, P!Drop
    <3> DEFINE q == [r EXCEPT !.at = "first", !.node = name, !.key = P!Key(name)]
    <3>2. q.kind = r.kind /\ q.prof = r.prof
      BY <2>1 DEF ReaderFields
    <3> HIDE DEF q
    <3> QED
      BY <2>2, <2>3, <3>1, <3>2 DEF q
  <2>5. CASE P!ReadFirst(r)
    <3> DEFINE q == [r EXCEPT !.at = "second", !.first = inodes[r.node].bytes[1]]
    <3>1. readers' = (readers \ {r}) \union {q} /\ q.kind = r.kind /\ q.prof = r.prof
      BY <2>1, <2>5 DEF P!ReadFirst, ReaderFields
    <3> QED
      BY <2>3, <3>1
  <2>6. CASE P!ReadSecond(r)
    <3> DEFINE q == [r EXCEPT !.at = "stat", !.second = inodes[r.node].bytes[2]]
    <3>1. readers' = (readers \ {r}) \union {q} /\ q.kind = r.kind /\ q.prof = r.prof
      BY <2>1, <2>6 DEF P!ReadSecond, ReaderFields
    <3> QED
      BY <2>3, <3>1
  <2>7. CASE P!Close(r)
    BY <2>2, <2>7 DEF P!Close, P!Drop
  <2> QED
    BY <1>3, <2>4, <2>5, <2>6, <2>7
<1> QED
  BY <1>2, <1>3

LEMMA PagesDated ==
  ASSUME Limits, PagesInv, Dated, [P!Next]_P!vars
  PROVE  Dated'
<1>1. CASE UNCHANGED P!vars
  BY <1>1 DEF P!vars, Dated
<1> QED
  BY <1>1, EditorsDated, ReadersDated DEF P!Next

LEMMA PagesTyped ==
  ASSUME Limits, PagesInv, Dated
  PROVE  P!TypeOK
<1>1. ASSUME NEW n \in DOMAIN inodes
      PROVE  inodes[n] \in [mtime : 0 .. MaxChanges, ctime : 0 .. MaxChanges, bytes : Halves \X Halves]
  <2>1. /\ inodes[n] \in [mtime : Nat, ctime : Nat, bytes : Halves \X Halves]
        /\ inodes[n].mtime <= changes /\ inodes[n].ctime <= changes
        /\ changes \in Nat /\ MaxChanges \in Nat /\ changes <= MaxChanges
    BY DEF PagesInv, Nodes, Inode, Dated, Limits
  <2>2. inodes[n].mtime \in 0 .. MaxChanges /\ inodes[n].ctime \in 0 .. MaxChanges
    BY <2>1
  <2> QED
    BY <2>1, <2>2
<1> QED
  BY <1>1 DEF P!TypeOK, PagesInv, Nodes, Dated

LEMMA PagesStart == Limits /\ P!Init => Dated
<1> SUFFICES ASSUME Limits, P!Init PROVE Dated
  OBVIOUS
<1>1. PICK x \in Halves : inodes = [n \in {1} |-> [mtime |-> 0, ctime |-> 0, bytes |-> <<x, x>>]]
  BY DEF P!Init
<1>2. changes = 0 /\ readers = {} /\ profile \in P!Profiles
  BY DEF P!Init
<1> QED
  BY <1>1, <1>2 DEF Dated, Limits

(* Lessons. *)

LRow == [slug : L!SlugNames, status : L!Statuses, archived : BOOLEAN, entry : EntryPaths \union {None},
         started : {None} \union Nat, completed : {None} \union Nat]

\* A handler that inserts has a slug whose lower numbers are taken; others
\* have the slug of a row, and what they write into one is a page.
CallFiled(c, used) ==
    /\ IF c.at = "insert"
       THEN \E t \in Titles, n \in 1 .. MaxLessons + 1 :
                c.slug = <<t, n>> /\ \A k \in 1 .. n - 1 : <<t, k>> \in used
       ELSE c.slug \in L!SlugNames
    /\ c.op = "entry" \/ (c.op = "open" /\ c.at = "write") => c.arg \in EntryPaths

\* As many lessons as the bound allows, so that as many numbers are enough.
Filed ==
    /\ clock <= MaxClock /\ Len(lessons) <= MaxLessons
    /\ \A i \in DOMAIN lessons : lessons[i] \in LRow /\ Upto(lessons[i].completed, clock)
    /\ manifests \in [L!SlugNames -> {None} \union L!Manifests]
    /\ \A c \in calls : CallFiled(c, L!Used)

LEMMA Counted == IsSeq(lessons) => Len(lessons) \in Nat /\ DOMAIN lessons = 1 .. Len(lessons)
<1> SUFFICES ASSUME IsSeq(lessons) PROVE Len(lessons) \in Nat /\ DOMAIN lessons = 1 .. Len(lessons)
  OBVIOUS
<1>1. PICK S : lessons \in Seq(S)
  BY DEF IsSeq
<1> QED
  BY <1>1

\* Each number that is taken is a lesson's.
LEMMA Numbers ==
  ASSUME IsSeq(lessons), NEW t, NEW m \in Nat, \A k \in 1 .. m : <<t, k>> \in L!Used
  PROVE  m <= Len(lessons)
<1> DEFINE f == [k \in 1 .. m |-> CHOOSE i \in DOMAIN lessons : lessons[i].slug = <<t, k>>]
           n == Len(lessons)
<1>0. n \in Nat /\ DOMAIN lessons = 1 .. n
  BY Counted
<1>1. \A k \in 1 .. m : f[k] \in DOMAIN lessons /\ lessons[f[k]].slug = <<t, k>>
  BY DEF L!Used
<1>2. f \in [1 .. m -> DOMAIN lessons]
  BY <1>1
<1> HIDE DEF f, n
<1>3. \A j, k \in 1 .. m : f[j] = f[k] => j = k
  BY <1>1
<1>4. f \in [1 .. m -> 1 .. n]
  BY <1>0, <1>2
<1>5. IsInjective(f)
  BY <1>2, <1>3 DEF IsInjective
<1>6. f \in Injection(1 .. m, 1 .. n)
  BY <1>4, <1>5 DEF Injection
<1>7. /\ IsFiniteSet(1 .. n) /\ Cardinality(1 .. n) = n /\ Cardinality(1 .. m) = m
  BY <1>0, FS_Interval
<1> QED
  BY <1>6, <1>7, FS_Injection DEF n

LEMMA SlugIsNew ==
  ASSUME Limits, IsSeq(lessons), Len(lessons) <= MaxLessons, NEW t \in Titles
  PROVE  \E n \in 1 .. MaxLessons + 1 :
            L!UniqueSlug(t) = <<t, n>> /\ \A k \in 1 .. n - 1 : <<t, k>> \in L!Used
<1> DEFINE free == {n \in 1 .. MaxLessons + 1 : <<t, n>> \notin L!Used}
           Fit(n) == <<t, n>> \notin L!Used /\ \A k \in 1 .. n - 1 : <<t, k>> \in L!Used
<1>0. MaxLessons \in Nat /\ Len(lessons) \in Nat /\ MaxLessons + 1 \in Nat
  BY Counted DEF Limits
<1>1. free # {}
  <2>1. SUFFICES ASSUME free = {} PROVE FALSE
    OBVIOUS
  <2>2. \A k \in 1 .. MaxLessons + 1 : <<t, k>> \in L!Used
    BY <2>1
  <2>3. MaxLessons + 1 <= Len(lessons)
    BY <1>0, <2>2, Numbers
  <2> QED
    BY <1>0, <2>3
<1>2. PICK n \in free : \A j \in free : n <= j
  <2>1. free \in SUBSET (1 .. MaxLessons + 1)
    OBVIOUS
  <2> HIDE DEF free
  <2> QED
    BY <1>0, <1>1, <2>1, FirstOf
<1>3. n \in 1 .. MaxLessons + 1 /\ Fit(n)
  <2>1. ASSUME NEW k \in 1 .. n - 1 PROVE <<t, k>> \in L!Used
    <3>1. k \in 1 .. MaxLessons + 1 /\ ~(n <= k)
      BY <1>0, <1>2
    <3> QED
      BY <1>2, <3>1
  <2> QED
    BY <1>2, <2>1
<1>4. L!UniqueSlug(t) = <<t, CHOOSE i \in 1 .. MaxLessons + 1 : Fit(i)>>
  BY DEF L!UniqueSlug
<1> HIDE DEF Fit
<1>5. (CHOOSE i \in 1 .. MaxLessons + 1 : Fit(i)) \in 1 .. MaxLessons + 1
      /\ Fit(CHOOSE i \in 1 .. MaxLessons + 1 : Fit(i))
  BY <1>3
<1> QED
  BY <1>4, <1>5 DEF Fit

\* Slugs that are taken stay taken, so that what handlers hold stays good.
LEMMA TakenStays ==
  ASSUME Filed, clock' = clock \/ (clock' \in Nat /\ clock' <= MaxClock /\ clock <= clock'), clock \in Nat,
         \A i \in DOMAIN lessons : i \in DOMAIN lessons' /\ lessons'[i].slug = lessons[i].slug,
         \A i \in DOMAIN lessons' : lessons'[i] \in LRow /\ Upto(lessons'[i].completed, clock'),
         Len(lessons') <= MaxLessons,
         manifests' \in [L!SlugNames -> {None} \union L!Manifests],
         \A c \in calls' \ calls : CallFiled(c, L!Used')
  PROVE  Filed'
<1>1. \A s \in L!Used : s \in L!Used'
  BY DEF L!Used
<1>2. ASSUME NEW c \in calls PROVE CallFiled(c, L!Used')
  BY <1>1 DEF Filed, CallFiled
<1>3. \A c \in calls' : CallFiled(c, L!Used')
  BY <1>2
<1>4. clock' <= MaxClock
  BY DEF Filed
<1> QED
  BY <1>3, <1>4 DEF Filed

LEMMA RestFiled ==
  ASSUME Filed, LInv, UNCHANGED <<lessons, clock>>,
         manifests' \in [L!SlugNames -> {None} \union L!Manifests],
         \A c \in calls' \ calls : CallFiled(c, L!Used)
  PROVE  Filed'
<1>1. clock \in Nat /\ L!Used' = L!Used
  BY DEF LInv, Rows, L!Used
<1> QED
  BY <1>1, TakenStays DEF Filed

\* A row is written.
LEMMA RowFiled ==
  ASSUME Filed, LInv, NEW id \in DOMAIN lessons, NEW made \in LRow, Upto(made.completed, clock),
         made.slug = lessons[id].slug, lessons' = [lessons EXCEPT ![id] = made],
         UNCHANGED <<manifests, clock>>, calls' \subseteq calls
  PROVE  Filed'
<1>0. IsSeq(lessons) /\ clock \in Nat
  BY DEF LInv, Rows
<1>1. PICK S : lessons \in Seq(S)
  BY <1>0 DEF IsSeq
<1>2. lessons' \in Seq(S \union {made}) /\ Len(lessons') = Len(lessons) /\ DOMAIN lessons' = DOMAIN lessons
  <2>1. lessons \in [1 .. Len(lessons) -> S] /\ Len(lessons) \in Nat
    BY <1>1
  <2>2. PICK n \in Nat : n = Len(lessons)
    BY <2>1
  <2>3. lessons' \in [1 .. n -> S \union {made}]
    BY <2>1, <2>2
  <2> QED
    BY <1>1, <2>2, <2>3
<1>3. \A i \in DOMAIN lessons : lessons'[i] = IF i = id THEN made ELSE lessons[i]
  BY <1>1
<1>4. \A i \in DOMAIN lessons : lessons'[i].slug = lessons[i].slug
  BY <1>3
<1>5. \A i \in DOMAIN lessons' : lessons'[i] \in LRow /\ Upto(lessons'[i].completed, clock')
  BY <1>2, <1>3 DEF Filed
<1> QED
  BY <1>0, <1>2, <1>4, <1>5, TakenStays DEF Filed

LEMMA RoutesFiled ==
  ASSUME Limits, LInv, Filed,
         \/ L!PostLessonCreate
         \/ \E i \in DOMAIN lessons : L!PostLessonEntry(i) \/ L!GetLearn(i) \/ L!PostLessonStatus(i)
                                      \/ L!PostLessonArchive(i) \/ L!PostLessonRestore(i)
  PROVE  Filed'
<1>0. IsSeq(lessons) /\ (\A i \in DOMAIN lessons : i # 0 /\ lessons[i].slug \in L!SlugNames) /\ Len(lessons) <= MaxLessons
  BY DEF LInv, Rows, IsSeq, Filed, LRow
<1>1. ASSUME NEW op, NEW id, NEW arg, NEW at, L!Begin(op, id, arg, at),
             \/ op = "create" /\ at = "insert" /\ id = 0 /\ arg \in Titles
             \/ op = "entry" /\ at = "look" /\ id \in DOMAIN lessons /\ arg \in EntryPaths
             \/ op = "open" /\ at = "look" /\ id \in DOMAIN lessons
             \/ op \in {"status", "archive", "restore"} /\ at = "write" /\ id \in DOMAIN lessons
      PROVE  Filed'
  <2>1. PICK made, slug : made = (IF id = 0 THEN None ELSE lessons[id]) /\ slug = (IF id = 0 THEN L!UniqueSlug(arg) ELSE made.slug)
    OBVIOUS
  <2>2. PICK c : c = [by |-> moves, op |-> op, id |-> id, row |-> made, arg |-> arg, at |-> at, ts |-> clock, slug |-> slug]
    OBVIOUS
  <2>3. calls' = calls \union {c} /\ UNCHANGED <<lessons, manifests, clock>>
    BY <1>1, <2>1, <2>2 DEF L!Begin
  <2>4. c.op = op /\ c.at = at /\ c.arg = arg /\ c.slug = slug
    BY <2>2
  <2>5. CASE id = 0
    <3>1. op = "create" /\ at = "insert" /\ arg \in Titles /\ slug = L!UniqueSlug(arg)
      BY <1>0, <1>1, <2>1, <2>5
    <3>2. PICK n \in 1 .. MaxLessons + 1 : slug = <<arg, n>> /\ \A k \in 1 .. n - 1 : <<arg, k>> \in L!Used
      BY <1>0, <3>1, SlugIsNew
    <3> QED
      BY <2>3, <2>4, <3>1, <3>2, RestFiled DEF CallFiled, Filed
  <2>6. CASE id # 0
    <3>1. slug = lessons[id].slug /\ id \in DOMAIN lessons /\ at \in {"look", "write"}
      BY <1>1, <2>1, <2>6
    <3>2. CallFiled(c, L!Used)
      BY <1>0, <1>1, <2>4, <2>6, <3>1 DEF CallFiled
    <3> QED
      BY <2>3, <3>2, RestFiled DEF Filed
  <2> QED
    BY <2>5, <2>6
<1>3. CASE L!PostLessonCreate
  BY <1>1, <1>3 DEF L!PostLessonCreate
<1>4. ASSUME NEW i \in DOMAIN lessons, L!PostLessonEntry(i) \/ L!GetLearn(i) PROVE Filed'
  BY <1>1, <1>4 DEF L!PostLessonEntry, L!GetLearn
<1>5. ASSUME NEW i \in DOMAIN lessons, L!PostLessonStatus(i) PROVE Filed'
  BY <1>1, <1>5 DEF L!PostLessonStatus
<1>6. ASSUME NEW i \in DOMAIN lessons, L!PostLessonArchive(i) \/ L!PostLessonRestore(i) PROVE Filed'
  BY <1>1, <1>6 DEF L!PostLessonArchive, L!PostLessonRestore
<1> QED
  BY <1>3, <1>4, <1>5, <1>6

LEMMA CreateFiled ==
  ASSUME Limits, LInv, Filed, NEW c \in calls, L!CreateLesson(c)
  PROVE  Filed'
<1>0. /\ IsSeq(lessons) /\ clock \in Nat /\ UNCHANGED <<manifests, clock>> /\ DOMAIN c = CallFields
      /\ Len(lessons) \in Nat /\ DOMAIN lessons = 1 .. Len(lessons) /\ MaxLessons \in Nat
  BY Counted DEF LInv, Rows, L!CreateLesson, Handlers, CallHonest, Limits
<1>1. CASE c.slug \in L!Used
  BY <1>0, <1>1, RestFiled DEF L!CreateLesson, L!Finish, Filed
<1>2. CASE c.slug \notin L!Used
  <2>1. /\ c.at = "insert" /\ c.op = "create" /\ Len(lessons) < MaxLessons
        /\ lessons' = Append(lessons, L!Created(c.slug))
        /\ calls' = (calls \ {c}) \union {[c EXCEPT !.id = Len(lessons) + 1, !.at = "look"]}
    BY <1>2 DEF L!CreateLesson
  <2>2. PICK t \in Titles, n \in 1 .. MaxLessons + 1 :
           c.slug = <<t, n>> /\ \A k \in 1 .. n - 1 : <<t, k>> \in L!Used
    BY <2>1 DEF Filed, CallFiled
  <2>3. n - 1 <= Len(lessons)
    <3>1. PICK m \in Nat : m = n - 1
      BY <1>0, <2>2
    <3> QED
      BY <1>0, <2>2, <3>1, Numbers
  <2>4. n \in 1 .. MaxLessons
    BY <1>0, <2>1, <2>3
  <2>5. c.slug \in L!SlugNames
    BY <2>2, <2>4 DEF L!SlugNames
  <2> DEFINE made == L!Created(c.slug)
  <2>6. made \in LRow /\ Upto(made.completed, clock)
    BY <2>5 DEF LRow, L!Created, L!Statuses, Upto
  <2> HIDE DEF made
  <2>7. PICK l \in Nat : /\ l = Len(lessons) /\ DOMAIN lessons = 1 .. l /\ DOMAIN lessons' = 1 .. l + 1
                         /\ IsSeq(lessons') /\ lessons'[l + 1] = made
                         /\ \A i \in DOMAIN lessons : lessons'[i] = lessons[i]
    BY <1>0, <2>1, Appends DEF made
  <2>8. Len(lessons') <= MaxLessons
    <3>1. PICK S : lessons \in Seq(S)
      BY <1>0 DEF IsSeq
    <3>2. Len(lessons') = Len(lessons) + 1
      BY <2>1, <3>1
    <3> QED
      BY <1>0, <2>1, <3>2
  <2>9. \A i \in DOMAIN lessons' : lessons'[i] \in LRow /\ Upto(lessons'[i].completed, clock')
    BY <1>0, <2>6, <2>7 DEF Filed
  <2>10. \A i \in DOMAIN lessons : i \in DOMAIN lessons' /\ lessons'[i].slug = lessons[i].slug
    BY <2>7
  <2> DEFINE d == [c EXCEPT !.id = Len(lessons) + 1, !.at = "look"]
  <2>11. d.at = "look" /\ d.op = "create" /\ d.slug = c.slug
    BY <1>0, <2>1 DEF CallFields
  <2> HIDE DEF d
  <2>12. CallFiled(d, L!Used')
    BY <2>5, <2>11 DEF CallFiled
  <2>13. calls' \ calls \subseteq {d}
    BY <2>1 DEF d
  <2> QED
    BY <1>0, <2>8, <2>9, <2>10, <2>12, <2>13, TakenStays DEF Filed
<1> QED
  BY <1>1, <1>2

LEMMA SetsFiled ==
  ASSUME Limits, LInv, Filed, NEW c \in calls,
         L!SetStatus(c) \/ L!ArchiveLesson(c) \/ L!RestoreLesson(c) \/ L!SetCurrentEntry(c) \/ L!MarkOpened(c)
  PROVE  Filed'
<1>0. /\ CallHonest(c, DOMAIN lessons, clock) /\ clock \in Nat /\ CallFiled(c, L!Used)
  BY DEF LInv, Rows, Handlers, Filed
<1>1. c.id \in DOMAIN lessons
  BY <1>0 DEF CallHonest, L!SetStatus, L!ArchiveLesson, L!RestoreLesson, L!SetCurrentEntry, L!MarkOpened
<1> DEFINE r == lessons[c.id]
<1>2. r \in LRow /\ Upto(r.completed, clock)
  BY <1>1 DEF Filed
<1> HIDE DEF r
<1>3. calls' \subseteq calls /\ UNCHANGED <<manifests, clock>>
  BY DEF L!SetStatus, L!ArchiveLesson, L!RestoreLesson, L!SetCurrentEntry, L!MarkOpened, L!Finish
<1>4. CASE L!SetStatus(c)
  <2> DEFINE s == L!Stamped(c.row, c.arg, c.ts)
             p == [r EXCEPT !.status = c.arg]
             q == [p EXCEPT !.started = s.started]
             made == [q EXCEPT !.completed = s.completed]
  <2>1. c.op = "status" /\ lessons' = [lessons EXCEPT ![c.id] = [r EXCEPT !.status = c.arg, !.started = s.started, !.completed = s.completed]]
    BY <1>4 DEF L!SetStatus, L!Write, r
  <2>2. /\ c.arg \in L!Statuses /\ c.ts \in Nat /\ c.ts <= clock /\ Upto(c.row.started, c.ts)
    BY <1>0, <2>1 DEF CallHonest
  <2>3. s.started \in {None} \union Nat /\ s.completed \in {None} \union Nat /\ Upto(s.completed, clock)
    BY <2>2 DEF L!Stamped, Upto
  <2> HIDE DEF s
  <2>4. p \in LRow /\ p.slug = r.slug
    BY <1>2, <2>2 DEF LRow
  <2>5. q \in LRow /\ q.slug = r.slug
    <3> HIDE DEF p
    <3> QED
      BY <2>3, <2>4 DEF LRow
  <2>6. made \in LRow /\ made.slug = r.slug /\ made.completed = s.completed
    <3> HIDE DEF q
    <3> QED
      BY <2>3, <2>5 DEF LRow
  <2>7. made = [r EXCEPT !.status = c.arg, !.started = s.started, !.completed = s.completed]
    BY <1>2 DEF LRow
  <2> HIDE DEF made
  <2> QED
    BY <1>1, <1>3, <2>1, <2>3, <2>6, <2>7, RowFiled DEF r
<1>5. CASE L!ArchiveLesson(c) \/ L!RestoreLesson(c)
  <2>1. PICK b \in BOOLEAN : lessons' = [lessons EXCEPT ![c.id] = [r EXCEPT !.archived = b]]
    BY <1>5, Zenon DEF L!ArchiveLesson, L!RestoreLesson, L!Write, r
  <2> DEFINE made == [r EXCEPT !.archived = b]
  <2>2. made \in LRow /\ made.slug = r.slug /\ made.completed = r.completed
    BY <1>2 DEF LRow
  <2>3. lessons' = [lessons EXCEPT ![c.id] = made]
    BY <2>1
  <2> HIDE DEF made
  <2> QED
    BY <1>1, <1>2, <1>3, <2>2, <2>3, RowFiled DEF r
<1>6. CASE L!SetCurrentEntry(c) \/ L!MarkOpened(c)
  <2> DEFINE made == [r EXCEPT !.entry = c.arg]
  <2>1. lessons' = [lessons EXCEPT ![c.id] = made] /\ c.arg \in EntryPaths
    BY <1>0, <1>6 DEF L!SetCurrentEntry, L!MarkOpened, L!Write, r, CallFiled
  <2>2. made \in LRow /\ made.slug = r.slug /\ made.completed = r.completed
    BY <1>2, <2>1 DEF LRow
  <2> HIDE DEF made
  <2> QED
    BY <1>1, <1>2, <1>3, <2>1, <2>2, RowFiled DEF r
<1> QED
  BY <1>4, <1>5, <1>6

\* A page that a manifest declares is a page.
LEMMA BundlesFiled ==
  ASSUME Limits, LInv, Filed, NEW c \in calls, L!EnsureManifest(c) \/ L!CreateManifest(c)
  PROVE  Filed'
<1>0. /\ DOMAIN c = CallFields /\ CallFiled(c, L!Used) /\ UNCHANGED <<lessons, clock>>
      /\ c.at \in {"look", "replace"}
  BY DEF LInv, Handlers, CallHonest, Filed, L!EnsureManifest, L!CreateManifest
<1>1. c.slug \in L!SlugNames
  BY <1>0 DEF CallFiled
<1>2. manifests[c.slug] \in {None} \union L!Manifests
  BY <1>1 DEF Filed
<1>3. ASSUME NEW at \in {"look", "replace"}, L!Continue(c, at)
      PROVE  \A d \in calls' \ calls : CallFiled(d, L!Used)
  <2> DEFINE d == [c EXCEPT !.at = at]
  <2>1. calls' = (calls \ {c}) \union {d}
    BY <1>3 DEF L!Continue
  <2>2. d.at = at /\ d.slug = c.slug /\ d.op = c.op /\ d.arg = c.arg
    BY <1>0 DEF CallFields
  <2> HIDE DEF d
  <2>3. CallFiled(d, L!Used)
    BY <1>0, <1>1, <2>2 DEF CallFiled
  <2> QED
    BY <2>1, <2>3
<1>4. CASE L!CreateManifest(c)
  <2>1. L!Skeleton \in L!Manifests
    BY DEF L!Skeleton, L!Manifests, Limits
  <2>2. manifests' = [manifests EXCEPT ![c.slug] = L!Skeleton] /\ L!Continue(c, "look")
    BY <1>4 DEF L!CreateManifest
  <2>3. manifests' \in [L!SlugNames -> {None} \union L!Manifests]
    BY <2>1, <2>2 DEF Filed
  <2> QED
    BY <1>0, <1>3, <2>2, <2>3, RestFiled
<1>5. CASE L!EnsureManifest(c)
  <2>0. UNCHANGED <<manifests, lessons, clock>> /\ manifests \in [L!SlugNames -> {None} \union L!Manifests]
    BY <1>5 DEF L!EnsureManifest, Filed
  <2>1. CASE manifests[c.slug] = None
    <3>1. L!Continue(c, "replace")
      BY <1>5, <2>1 DEF L!EnsureManifest
    <3> QED
      BY <1>3, <2>0, <3>1, RestFiled
  <2>2. CASE manifests[c.slug] # None
    <3> DEFINE m == manifests[c.slug]
               arg == L!EntryGiven(c, m)
               d == [c EXCEPT !.at = "write", !.arg = arg]
    <3>1. m \in L!Manifests /\ L!AfterRead(c, m)
      BY <1>2, <1>5, <2>2 DEF L!EnsureManifest
    <3> HIDE DEF m
    <3>2. CASE L!Finish(c)
      BY <2>0, <3>2, RestFiled DEF L!Finish
    <3>3. CASE ~L!Finish(c)
      <4>1. c.op \in {"entry", "open"} /\ L!Accepts(c, m) /\ calls' = (calls \ {c}) \union {d}
        BY <3>1, <3>3 DEF L!AfterRead
      <4>2. m # Bad /\ arg \in m.pages
        BY <4>1 DEF L!Accepts
      <4>3. m.pages \subseteq EntryPaths
        BY <3>1, <4>2 DEF L!Manifests
      <4>4. arg \in EntryPaths
        BY <4>2, <4>3
      <4> HIDE DEF arg
      <4>5. d.at = "write" /\ d.arg = arg /\ d.slug = c.slug /\ d.op = c.op
        BY <1>0 DEF CallFields
      <4> HIDE DEF d
      <4>6. CallFiled(d, L!Used)
        BY <1>1, <4>4, <4>5 DEF CallFiled
      <4>7. \A e \in calls' \ calls : CallFiled(e, L!Used)
        BY <4>1, <4>6
      <4> QED
        BY <2>0, <4>7, RestFiled
    <3> QED
      BY <3>2, <3>3
  <2> QED
    BY <2>1, <2>2
<1> QED
  BY <1>4, <1>5

LEMMA OthersFiled ==
  ASSUME Limits, LInv, Filed, L!AgentWrites \/ L!Crash \/ L!Tick
  PROVE  Filed'
<1>0. clock \in Nat /\ MaxClock \in Nat /\ clock <= MaxClock
  BY DEF LInv, Rows, Limits, Filed
<1>1. CASE L!AgentWrites
  <2>1. PICK i \in DOMAIN lessons, m \in L!Manifests : manifests' = [manifests EXCEPT ![lessons[i].slug] = m]
    BY <1>1 DEF L!AgentWrites
  <2>2. manifests' \in [L!SlugNames -> {None} \union L!Manifests]
    BY <2>1 DEF Filed
  <2> QED
    BY <1>1, <2>2, RestFiled DEF L!AgentWrites
<1>2. CASE L!Crash
  BY <1>2, RestFiled DEF L!Crash, Filed
<1>3. CASE L!Tick
  <2>1. clock' = clock + 1 /\ clock' <= MaxClock /\ clock <= clock' /\ UNCHANGED <<lessons, manifests, calls>>
    BY <1>0, <1>3 DEF L!Tick
  <2>2. \A i \in DOMAIN lessons : lessons[i] \in LRow /\ Upto(lessons[i].completed, clock')
    BY <1>0, <2>1 DEF Filed, Upto
  <2> QED
    BY <1>0, <2>1, <2>2, TakenStays DEF Filed
<1> QED
  BY <1>1, <1>2, <1>3

LEMMA LessonsFiled ==
  ASSUME Limits, LInv, Filed, [L!Next]_L!vars
  PROVE  Filed'
<1>1. CASE UNCHANGED L!vars
  BY <1>1, RestFiled DEF L!vars, Filed
<1> QED
  BY <1>1, RoutesFiled, CreateFiled, SetsFiled, BundlesFiled, OthersFiled DEF L!Next

LEMMA LessonsTyped ==
  ASSUME Limits, LInv, Filed
  PROVE  L!TypeOK
<1> DEFINE Stamp == {None} \union 0 .. MaxClock
<1>1. ASSUME NEW i \in DOMAIN lessons
      PROVE  lessons[i] \in [slug : L!SlugNames, status : L!Statuses, archived : BOOLEAN, entry : EntryPaths \union {None},
                             started : Stamp, completed : Stamp]
  <2> DEFINE r == lessons[i]
  <2>1. r \in LRow /\ Upto(r.completed, clock) /\ Upto(r.started, clock)
    BY DEF Filed, LInv, Rows, RowHonest
  <2>2. clock \in Nat /\ MaxClock \in Nat /\ clock <= MaxClock
    BY DEF LInv, Rows, Limits, Filed
  <2> HIDE DEF r
  <2>3. r.started \in Stamp /\ r.completed \in Stamp
    BY <2>1, <2>2 DEF LRow, Upto
  <2> HIDE DEF Stamp
  <2>4. r \in [slug : L!SlugNames, status : L!Statuses, archived : BOOLEAN, entry : EntryPaths \union {None},
               started : Stamp, completed : Stamp]
    BY <2>1, <2>3 DEF LRow
  <2> QED
    BY <2>4 DEF r
<1>2. \A s \in L!SlugNames : manifests[s] \in {None} \union L!Manifests
  BY DEF Filed
<1> QED
  BY <1>1, <1>2 DEF L!TypeOK

LEMMA LessonsBegin == Limits /\ L!Init => Filed
<1> SUFFICES ASSUME Limits, L!Init PROVE Filed
  OBVIOUS
<1>1. lessons = <<>> /\ calls = {} /\ clock = 0 /\ manifests = [s \in L!SlugNames |-> None]
  BY DEF L!Init
<1>2. Len(<<>>) = 0 /\ DOMAIN <<>> = {} /\ MaxClock \in Nat /\ MaxLessons \in Nat
  BY DEF Limits
<1> QED
  BY <1>1, <1>2 DEF Filed

(* The theorem. *)

LEMMA MigrationMoves == LearnSpec => Spec
<1>1. LearnInit => Init
  BY DEF LearnInit
<1>2. [LearnNext]_<<scene, ofManifest, ofLessons, ofPages, vars, ofBridge>> => [Next]_vars
  BY DEF LearnNext
<1> QED
  BY <1>1, <1>2, PTL DEF LearnSpec, Spec

LEMMA MigrationTyped == LearnSpec => []TypeOK
<1>1. Init => IInv
  BY LearnConstants, Start
<1>2. IInv /\ [Next]_vars => IInv'
  BY LearnConstants, StepKeeps
<1>3. IInv => TypeOK
  BY DEF IInv, Types, TypeOK, Tool, Stages, Written
<1> QED
  BY <1>1, <1>2, <1>3, MigrationMoves, PTL DEF Spec

LEMMA ManifestsTyped == LearnSpec => []M!TypeOK
<1> USE LearnConstants
<1>1. M!Init => MInv
  BY ManifestStart
<1>2. MInv /\ [M!Next]_(M!vars) => MInv'
  BY ManifestStep
<1>3. MInv => M!TypeOK
  BY DEF MInv, M!TypeOK
<1> QED
  BY <1>1, <1>2, <1>3, ManifestsMove, PTL DEF M!Spec

LEMMA LessonsAllTyped == LearnSpec => []L!TypeOK
<1>0. Limits
  BY LearnConstants
<1>1. L!Init => Filed
  BY <1>0, LessonsBegin
<1>2. LInv /\ Filed /\ [L!Next]_(L!vars) => Filed'
  BY <1>0, LessonsFiled
<1>3. LInv /\ Filed => L!TypeOK
  BY <1>0, LessonsTyped
<1> QED
  BY <1>1, <1>2, <1>3, LessonsStand, LessonsMove, PTL DEF L!Spec

LEMMA PagesAllTyped == LearnSpec => []P!TypeOK
<1>0. Limits
  BY LearnConstants
<1>1. P!Init => Dated
  BY <1>0, PagesStart
<1>2. PagesInv /\ Dated /\ [P!Next]_(P!vars) => Dated'
  BY <1>0, PagesDated
<1>3. PagesInv /\ Dated => P!TypeOK
  BY <1>0, PagesTyped
<1> QED
  BY <1>1, <1>2, <1>3, PagesStand, PagesMove, PTL DEF P!Spec

LEMMA BridgeAllTyped == LearnSpec => []B!TypeOK
<1>0. Limits
  BY LearnConstants
<1>1. B!Init => Limited
  BY <1>0, BridgeStarts
<1>2. BridgeInv /\ Limited /\ [B!Next]_(B!vars) => Limited'
  BY <1>0, BridgeLimited
<1>3. BridgeInv /\ Limited => B!TypeOK
  BY BridgeTyped
<1> QED
  BY <1>1, <1>2, <1>3, BridgeStands, BridgeMoves, PTL DEF B!Spec

(* Every row, manifest, page, run of the migration and frame has its type; *)
(* a slug's number never passes the number of lessons (unique_slug), and   *)
(* neither the re-asserts of a frame nor the runs a document owns pass     *)
(* their caps (learn-bridge.ts).                                           *)
THEOREM LearnTypesKept == LearnSpec => []TypesOK
<1>1. M!TypeOK /\ L!TypeOK /\ P!TypeOK /\ TypeOK /\ B!TypeOK => TypesOK
  BY DEF TypesOK
<1> QED
  BY <1>1, ManifestsTyped, LessonsAllTyped, PagesAllTyped, MigrationTyped, BridgeAllTyped, PTL
=============================================================================
