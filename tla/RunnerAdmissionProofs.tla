----------------------- MODULE RunnerAdmissionProofs ------------------------
(* Proofs about RunnerAdmission, for any starts, lessons, keys, leases and  *)
(* limits: the counters stand for the jobs and the slots of the windows for *)
(* their starts, a key launches once, no job starts after the shutdown, and *)
(* a job is kept while it is read.                                          *)
EXTENDS RunnerAdmission, FiniteSetTheorems, WellFoundedInduction, TLAPS

Stages == {"none", "active", "terminating", "finished"}
Unanswered == {"new", "validate", "health"}
Launched(s) == job[s] # "none"

Types ==
    /\ req \in [Starts -> [lesson : Lessons, key : Keys, target : Targets]]
    /\ call \in [Starts -> Unanswered \union Answers]
    /\ job \in [Starts -> Stages]
    /\ perLesson \in [Lessons -> Int]
    /\ retained \subseteq Starts /\ entries \subseteq Starts

\* A start has no job before it is answered; what is kept was launched, and
\* the entry of a job outlives its place among the kept ones.
Places ==
    /\ \A s \in Starts : call[s] \in Unanswered => job[s] = "none"
    /\ \A s \in retained : Launched(s)
    /\ \A s \in Starts : Launched(s) /\ s \notin aged => s \in entries

IInv == Types /\ Places /\ KeysHonest /\ CapacityHonest
-----------------------------------------------------------------------------
(* Pruning *)

\* Whatever the jobs, readers and order are, a prune keeps the entry of every
\* kept job and of every job that has not aged.
LEMMA PruneKeeps ==
  ASSUME NEW ended, NEW count, retained \subseteq entries
  PROVE  /\ Kept(ended, count) \subseteq retained
         /\ Kept(ended, count) \subseteq LiveEntries(Kept(ended, count))
         /\ LiveEntries(Kept(ended, count)) \subseteq entries
         /\ \A s \in entries : s \notin aged => s \in LiveEntries(Kept(ended, count))
<1>1. Kept(ended, count) \subseteq retained
  BY DEF Kept
<1> QED
  BY <1>1 DEF LiveEntries

\* A step that prunes, launches nothing and may only bring jobs nearer their
\* end.
LEMMA RegistryKeeps ==
  ASSUME IInv, Types', req' = req, aged \subseteq aged',
         retained' \subseteq retained, entries' \subseteq entries, retained' \subseteq entries',
         \A s \in entries : s \notin aged' => s \in entries',
         \A s \in Starts : Launched(s)' <=> Launched(s)
  PROVE  KeysHonest' /\ (\A s \in retained : Launched(s))'
         /\ (\A s \in Starts : Launched(s) /\ s \notin aged => s \in entries)'
<1>1. KeyLaunchesOnce'
  BY DEF IInv, KeysHonest, KeyLaunchesOnce, SameKey, LessonOf, Launched
<1>2. (\A s \in retained : Launched(s))' /\ (\A s \in Starts : Launched(s) /\ s \notin aged => s \in entries)'
  BY DEF IInv, Places, Types
<1> QED
  BY <1>1, <1>2 DEF KeysHonest

\* A step that neither launches nor ends a job keeps the counters.
LEMMA CountersKeep ==
  ASSUME IInv, req' = req, UNCHANGED counters, ActiveJobs' = ActiveJobs
  PROVE  CapacityHonest'
  BY DEF IInv, CapacityHonest, counters, LessonOf

\* A step of calls, readers, window or probe that at most prunes.
LEMMA QuietKeeps ==
  ASSUME IInv, req' = req, job' = job, aged' = aged, UNCHANGED counters,
         call' \in [Starts -> Unanswered \union Answers],
         \A s \in Starts : call'[s] \in Unanswered => job[s] = "none",
         \/ UNCHANGED registry
         \/ \E ended, count : retained' = Kept(ended, count) /\ entries' = LiveEntries(retained')
  PROVE  IInv'
<1>1. /\ retained' \subseteq retained /\ entries' \subseteq entries /\ retained' \subseteq entries'
      /\ \A s \in entries : s \notin aged => s \in entries'
  <2>1. retained \subseteq entries
    BY DEF IInv, KeysHonest
  <2>2. CASE UNCHANGED registry
    BY <2>1, <2>2 DEF registry
  <2>3. CASE \E ended, count : retained' = Kept(ended, count) /\ entries' = LiveEntries(retained')
    BY <2>1, <2>3, PruneKeeps
  <2> QED
    BY <2>2, <2>3
<1>2. Types'
  BY <1>1 DEF IInv, Types, counters
<1>3. \A s \in Starts : Launched(s)' <=> Launched(s)
  BY DEF Launched
<1>4. Places' /\ KeysHonest'
  BY <1>1, <1>2, <1>3, RegistryKeeps DEF Places
<1>5. CapacityHonest'
  BY CountersKeep DEF ActiveJobs
<1> QED
  BY <1>2, <1>4, <1>5 DEF IInv
-----------------------------------------------------------------------------
(* Starts *)

LEMMA AnswerTypes ==
  ASSUME IInv, NEW s \in Starts, NEW answer \in {"validate", "health"} \union Answers,
         Answer(s, answer), call[s] \in Unanswered
  PROVE  /\ call' \in [Starts -> Unanswered \union Answers]
         /\ \A t \in Starts : call'[t] \in Unanswered => job[t] = "none"
  BY DEF IInv, Types, Places, Answer, Unanswered

\* Every start that is only answered: at most the registry is pruned.
LEMMA StartKeeps ==
  ASSUME IInv, NEW s \in Starts,
         \/ StartRun(s) \/ ValidationRefuses(s) \/ Unhealthy(s)
         \/ \E runnable \in BOOLEAN : Check(s, runnable)
         \/ Reserve(s) /\ ~Launch(s)
  PROVE  IInv' /\ job' = job
<1>1. Standing(s) \in {"fresh", "conflict", "missing", "replayed", "down"}
  BY DEF Standing
<1>2. /\ req' = req /\ job' = job /\ aged' = aged /\ UNCHANGED counters
      /\ UNCHANGED registry \/ Prune
      /\ call[s] \in Unanswered
      /\ \E answer \in {"validate", "health"} \union Answers : Answer(s, answer)
  <2>1. CASE Malformed(s) \/ BadPayload(s) \/ ValidationRefuses(s) \/ Unhealthy(s)
    BY <2>1 DEF Malformed, BadPayload, ValidationRefuses, Unhealthy, Refuse, jobs, Answers, Unanswered
  <2>2. CASE Preflight(s)
    <3> PICK answer : answer = IF Standing(s) # "fresh" THEN Standing(s)
                               ELSE IF Busy(s) THEN "busy"
                               ELSE IF WindowFull(s) THEN "limited" ELSE "validate"
      OBVIOUS
    <3>1. answer \in {"validate"} \union Answers
      BY <1>1 DEF Answers
    <3>2. call[s] = "new" /\ Answer(s, answer) /\ Prune /\ UNCHANGED <<req, jobs, counters>>
      BY <2>2 DEF Preflight
    <3> QED
      BY <3>1, <3>2 DEF jobs, Unanswered
  <2>3. CASE \E runnable \in BOOLEAN : Check(s, runnable)
    BY <1>1, <2>3 DEF Check, Refuse, jobs, Answers, Unanswered
  <2>4. CASE Reserve(s) /\ ~Launch(s)
    BY <1>1, <2>4 DEF Reserve, Refuse, jobs, Answers, Unanswered
  <2> QED
    BY <2>1, <2>2, <2>3, <2>4 DEF StartRun
<1>3. PICK answer \in {"validate", "health"} \union Answers : Answer(s, answer)
  BY <1>2
<1>4. /\ call' \in [Starts -> Unanswered \union Answers]
      /\ \A t \in Starts : call'[t] \in Unanswered => job[t] = "none"
  BY <1>2, <1>3, AnswerTypes
<1> QED
  BY <1>2, <1>4, QuietKeeps DEF Prune, PrunedJobs, PrunedEntries

\* The jobs that hold a place for lesson l.
Holders(l) == {s \in ActiveJobs : LessonOf(s) = l}

LEMMA PlacesAreFinite ==
  /\ IsFiniteSet(ActiveJobs) /\ Cardinality(ActiveJobs) \in Nat
  /\ \A l : IsFiniteSet(Holders(l)) /\ Cardinality(Holders(l)) \in Nat
<1>1. ActiveJobs \subseteq Starts /\ \A l : Holders(l) \subseteq Starts
  BY DEF ActiveJobs, Holders
<1>2. \A S \in SUBSET Starts : IsFiniteSet(S) /\ Cardinality(S) \in Nat
  BY AdmissionAssumption, FS_Subset, FS_CardinalityType
<1> QED
  BY <1>1, <1>2

\* A key that is launched is not among the entries, and so has no job that
\* has not aged; a place that is taken was free.
LEMMA LaunchKeeps ==
  ASSUME IInv, NEW s \in Starts, Reserve(s), Launch(s)
  PROVE  IInv' /\ (accepting \/ ActiveJobs' = ActiveJobs)
<1> USE DEF Stages
<1>1. /\ call[s] = "health" /\ job[s] = "none" /\ job' = [job EXCEPT ![s] = "active"]
      /\ req' = req /\ aged' = aged
  BY DEF Reserve, Launch, IInv, Places, Unanswered
<1>2. job'[s] = "active" /\ \A t \in Starts \ {s} : job'[t] = job[t]
  BY <1>1 DEF IInv, Types
<1>3. Standing(s) = "fresh" /\ ~Busy(s) /\ Answer(s, "started")
  <2>1. job' # job
    BY <1>1, <1>2
  <2> QED
    BY <2>1 DEF Reserve
<1>4. accepting /\ \A t \in PrunedEntries : ~SameKey(s, t)
  BY <1>3 DEF Standing
<1>5. /\ PrunedJobs \subseteq retained /\ PrunedJobs \subseteq PrunedEntries /\ PrunedEntries \subseteq entries
      /\ \A t \in entries : t \notin aged => t \in PrunedEntries
  <2>1. retained \subseteq entries
    BY DEF IInv, KeysHonest
  <2> QED
    BY <2>1, PruneKeeps DEF PrunedJobs, PrunedEntries
<1>6. retained' = PrunedJobs \union {s} /\ entries' = PrunedEntries \union {s}
  BY <1>4 DEF Launch
<1>7. Types'
  <2>1. call' \in [Starts -> Unanswered \union Answers]
    BY <1>3 DEF Answer, Answers, IInv, Types
  <2>2. perLesson' \in [Lessons -> Int]
    BY DEF Launch, IInv, Types, LessonOf
  <2> QED
    BY <1>1, <1>5, <1>6, <2>1, <2>2 DEF IInv, Types
<1>8. Places'
  <2>1. \A t \in Starts : call'[t] \in Unanswered => t # s /\ call[t] \in Unanswered
    BY <1>3 DEF Answer, IInv, Types, Unanswered
  <2> QED
    BY <1>1, <1>2, <1>5, <1>6, <2>1 DEF IInv, Places, Launched, Types
<1>9. KeysHonest'
  <2>1. ASSUME NEW t \in Starts \ {s}, SameKey(s, t), job[t] # "none" PROVE t \in aged
    BY <2>1, <1>4, <1>5 DEF IInv, Places, Launched
  <2>2. \A a, b \in Starts : SameKey(a, b)' <=> SameKey(a, b)
    BY <1>1 DEF SameKey, LessonOf
  <2>3. \A a, b \in Starts : SameKey(a, b) <=> SameKey(b, a)
    BY DEF SameKey
  <2>4. ASSUME NEW a \in Starts, NEW b \in Starts, a # b, SameKey(a, b), job'[a] # "none", job'[b] # "none"
        PROVE  aged \cap {a, b} # {}
    <3>1. CASE a # s /\ b # s
      BY <2>4, <3>1, <1>2 DEF IInv, KeysHonest, KeyLaunchesOnce
    <3>2. CASE a = s
      BY <2>1, <2>4, <3>2, <1>2
    <3>3. CASE b = s
      BY <2>1, <2>3, <2>4, <3>3, <1>2
    <3> QED
      BY <3>1, <3>2, <3>3
  <2>5. KeyLaunchesOnce'
    BY <1>1, <2>2, <2>4 DEF KeyLaunchesOnce
  <2> QED
    BY <2>5, <1>5, <1>6 DEF KeysHonest
<1>10. CapacityHonest'
  <2>1. ActiveJobs' = ActiveJobs \union {s} /\ s \notin ActiveJobs
    BY <1>1, <1>2 DEF ActiveJobs
  <2>2. Cardinality(ActiveJobs') = Cardinality(ActiveJobs) + 1
    BY <2>1, PlacesAreFinite, FS_AddElement
  <2>3. total' = Cardinality(ActiveJobs') /\ total' <= GlobalLimit
    BY <2>2, <1>3, PlacesAreFinite, AdmissionAssumption DEF Busy, Launch, IInv, CapacityHonest
  <2>4. ASSUME NEW l \in Lessons
        PROVE  perLesson'[l] = Cardinality(Holders(l)') /\ perLesson'[l] <= LessonLimit
    <3>1. perLesson[l] = Cardinality(Holders(l)) /\ perLesson[l] <= LessonLimit /\ perLesson[l] \in Int
      BY DEF IInv, CapacityHonest, Holders, Types
    <3>2. CASE LessonOf(s) = l
      <4>1. Holders(l)' = Holders(l) \union {s} /\ s \notin Holders(l)
        BY <1>1, <2>1, <3>2 DEF Holders, LessonOf
      <4>2. Cardinality(Holders(l)') = Cardinality(Holders(l)) + 1
        BY <4>1, PlacesAreFinite, FS_AddElement
      <4>3. perLesson'[l] = perLesson[l] + 1
        BY <3>2 DEF Launch, IInv, Types
      <4> QED
        BY <3>1, <3>2, <4>2, <4>3, <1>3, AdmissionAssumption DEF Busy
    <3>3. CASE LessonOf(s) # l
      <4>1. Holders(l)' = Holders(l)
        BY <1>1, <2>1, <3>3 DEF Holders, LessonOf
      <4>2. perLesson'[l] = perLesson[l]
        BY <3>3 DEF Launch, IInv, Types
      <4> QED
        BY <3>1, <4>1, <4>2
    <3> QED
      BY <3>2, <3>3
  <2> QED
    BY <2>3, <2>4 DEF CapacityHonest, Holders
<1> QED
  BY <1>4, <1>7, <1>8, <1>9, <1>10 DEF IInv
-----------------------------------------------------------------------------
(* Ends *)

\* However many jobs a section ends, it gives back the places they held.
LEMMA TerminateKeeps ==
  ASSUME IInv, NEW S \in SUBSET Starts, \A s \in S : Launched(s), Terminate(S),
         req' = req, call' = call, aged' = aged, UNCHANGED registry
  PROVE  IInv' /\ ActiveJobs' \subseteq ActiveJobs
<1> USE DEF Stages
<1> DEFINE freed == Unreleased(S)
<1>1. /\ job' = [s \in Starts |-> IF s \in S THEN "terminating" ELSE job[s]]
      /\ total' = total - Cardinality(freed)
      /\ perLesson' = [l \in Lessons |-> perLesson[l] - Cardinality({s \in freed : LessonOf(s) = l})]
  BY DEF Terminate
<1>2. freed = S \cap ActiveJobs /\ ActiveJobs' = ActiveJobs \ freed
  BY <1>1 DEF Unreleased, ActiveJobs
<1> HIDE DEF freed
<1>3. Cardinality(ActiveJobs') = Cardinality(ActiveJobs) - Cardinality(freed) /\ Cardinality(freed) \in Nat
  <2>1. ActiveJobs \cap freed = freed /\ freed \in SUBSET ActiveJobs
    BY <1>2
  <2>2. IsFiniteSet(freed)
    BY <2>1, PlacesAreFinite, FS_Subset
  <2> QED
    <3>1. IsFiniteSet(ActiveJobs) /\ Cardinality(freed) \in Nat
      BY <2>2, PlacesAreFinite, FS_CardinalityType
    <3>2. Cardinality(ActiveJobs \ freed) = Cardinality(ActiveJobs) - Cardinality(freed)
      BY <2>1, <3>1, FS_Difference
    <3> QED
      BY <1>2, <3>1, <3>2
<1>4. ASSUME NEW l \in Lessons
      PROVE  perLesson'[l] = Cardinality(Holders(l)') /\ perLesson'[l] <= LessonLimit /\ perLesson'[l] \in Int
  <2> DEFINE left == {s \in freed : LessonOf(s) = l}
  <2>1. /\ left \in SUBSET Holders(l) /\ Holders(l) \cap left = left
        /\ Holders(l)' = Holders(l) \ left
    BY <1>2 DEF Holders, LessonOf
  <2>2. perLesson'[l] = perLesson[l] - Cardinality(left)
    BY <1>1
  <2> HIDE DEF left
  <2>3. IsFiniteSet(left) /\ Cardinality(left) \in Nat
    BY <2>1, PlacesAreFinite, FS_Subset, FS_CardinalityType
  <2>4. Cardinality(Holders(l)') = Cardinality(Holders(l)) - Cardinality(left)
    BY <2>1, PlacesAreFinite, FS_Difference
  <2>5. perLesson[l] = Cardinality(Holders(l)) /\ perLesson[l] <= LessonLimit
    BY DEF IInv, CapacityHonest, Holders
  <2> QED
    BY <2>2, <2>3, <2>4, <2>5, PlacesAreFinite, AdmissionAssumption
<1>5. CapacityHonest'
  <2>1. total = Cardinality(ActiveJobs) /\ total <= GlobalLimit
    BY DEF IInv, CapacityHonest
  <2>2. total' = Cardinality(ActiveJobs') /\ total' <= GlobalLimit
    BY <2>1, <1>1, <1>3, PlacesAreFinite, AdmissionAssumption
  <2> QED
    BY <2>2, <1>4 DEF CapacityHonest, Holders
<1>6. Types'
  <2>1. perLesson' \in [Lessons -> Int]
    BY <1>1, <1>4
  <2> QED
    BY <2>1, <1>1 DEF IInv, Types, registry
<1>7. \A s \in Starts : Launched(s)' <=> Launched(s)
  BY <1>1 DEF Launched
<1>8. KeysHonest' /\ Places'
  <2>1. retained \subseteq entries
    BY DEF IInv, KeysHonest
  <2>2. \A s \in Starts : call'[s] \in Unanswered => job'[s] = "none"
    BY <1>1 DEF IInv, Places, Launched
  <2> QED
    BY <1>6, <1>7, <2>1, <2>2, RegistryKeeps DEF Places, registry
<1> QED
  BY <1>2, <1>5, <1>6, <1>8 DEF IInv

LEMMA EndKeeps ==
  ASSUME IInv, (\E s \in Starts : End(s)) \/ Shutdown
  PROVE  IInv' /\ ActiveJobs' \subseteq ActiveJobs
<1>1. CASE \E s \in Starts : End(s)
  <2>1. PICK s \in Starts : End(s)
    BY <1>1
  <2>2. Launched(s)
    BY <2>1 DEF End, Launched
  <2> QED
    BY <2>1, <2>2, TerminateKeeps DEF End, registry
<1>2. CASE Shutdown
  <2> PICK S : S = {s \in retained : job[s] # "finished"}
    OBVIOUS
  <2>1. S \in SUBSET Starts /\ \A s \in S : Launched(s)
    BY DEF IInv, Types, Places
  <2> QED
    BY <1>2, <2>1, TerminateKeeps DEF Shutdown, registry
<1> QED
  BY <1>1, <1>2

LEMMA FinishKeeps ==
  ASSUME IInv, NEW s \in Starts, Finish(s)
  PROVE  IInv' /\ ActiveJobs' = ActiveJobs
<1> USE DEF Stages
<1> PICK ended : ended = order'
  OBVIOUS
<1>1. /\ job[s] = "terminating" /\ job' = [job EXCEPT ![s] = "finished"]
      /\ retained' = Kept(ended, readers) /\ entries' = LiveEntries(retained')
      /\ req' = req /\ call' = call /\ aged' = aged /\ UNCHANGED counters
  BY DEF Finish
<1>2. job' \in [Starts -> Stages] /\ job'[s] = "finished" /\ \A t \in Starts \ {s} : job'[t] = job[t]
  BY <1>1 DEF IInv, Types
<1>3. /\ retained' \subseteq retained /\ entries' \subseteq entries /\ retained' \subseteq entries'
      /\ \A t \in entries : t \notin aged => t \in entries'
  BY <1>1, PruneKeeps DEF IInv, KeysHonest
<1>4. Types'
  BY <1>1, <1>2, <1>3 DEF IInv, Types, counters
<1>5. \A t \in Starts : Launched(t)' <=> Launched(t)
  BY <1>1, <1>2 DEF Launched
<1>6. KeysHonest' /\ Places'
  <2>1. \A t \in Starts : call'[t] \in Unanswered => job'[t] = "none"
    BY <1>1, <1>2 DEF IInv, Places
  <2> QED
    BY <1>1, <1>3, <1>4, <1>5, <2>1, RegistryKeeps DEF Places
<1>7. ActiveJobs' = ActiveJobs
  BY <1>1, <1>2 DEF ActiveJobs
<1> QED
  BY <1>1, <1>4, <1>6, <1>7, CountersKeep DEF IInv

LEMMA AgeKeeps ==
  ASSUME IInv, NEW s \in Starts, Age(s)
  PROVE  IInv' /\ job' = job
<1>1. job' = job /\ req' = req /\ call' = call /\ aged \subseteq aged' /\ UNCHANGED <<registry, counters>>
  BY DEF Age
<1>2. Types'
  BY <1>1 DEF IInv, Types, registry, counters
<1>3. retained \subseteq entries /\ \A t \in Starts : Launched(t)' <=> Launched(t)
  BY <1>1 DEF IInv, KeysHonest, Launched
<1>4. KeysHonest' /\ Places'
  BY <1>1, <1>2, <1>3, RegistryKeeps DEF Places, IInv, registry
<1> QED
  BY <1>1, <1>2, <1>4, CountersKeep DEF IInv, ActiveJobs
-----------------------------------------------------------------------------
(* Readers, lookups and the passing of time *)

LEMMA RestKeeps ==
  ASSUME IInv,
         \/ \E r \in Leases : DetachReader(r) \/ StreamRun(r)
         \/ \E found \in {"up", "down"} : Probe(found)
         \/ \E l \in Lessons : SlotExpires(l)
         \/ Lookup \/ UNCHANGED vars
  PROVE  IInv' /\ job' = job
<1>1. req' = req /\ call' = call /\ job' = job /\ aged' = aged /\ UNCHANGED counters
  BY DEF DetachReader, StreamRun, AttachReader, Probe, SlotExpires, Lookup, vars, jobs, counters
<1>2. \/ UNCHANGED registry
      \/ \E ended, count : retained' = Kept(ended, count) /\ entries' = LiveEntries(retained')
  <2>1. Prune => \E ended, count : retained' = Kept(ended, count) /\ entries' = LiveEntries(retained')
    BY DEF Prune, PrunedJobs, PrunedEntries
  <2>2. CASE \E r \in Leases : DetachReader(r)
    <3> PICK count : count = readers'
      OBVIOUS
    <3>1. PICK r \in Leases : DetachReader(r)
      BY <2>2
    <3>2. CASE FirstRelease(r)
      <4>1. retained' = Kept(order, count) /\ entries' = LiveEntries(retained')
        BY <3>1, <3>2 DEF DetachReader
      <4> QED
        BY <4>1
    <3>3. CASE ~FirstRelease(r)
      BY <3>1, <3>3 DEF DetachReader
    <3> QED
      BY <3>2, <3>3
  <2>3. CASE ~ \E r \in Leases : DetachReader(r)
    BY <2>1, <2>3 DEF StreamRun, AttachReader, Probe, SlotExpires, Lookup, vars
  <2> QED
    BY <2>2, <2>3
<1> QED
  BY <1>1, <1>2, QuietKeeps DEF IInv, Types, Places
-----------------------------------------------------------------------------
(* The specification *)

LEMMA InitHonest ==
  ASSUME Init
  PROVE  IInv
<1>1. ActiveJobs = {} /\ \A l : Holders(l) = {}
  BY DEF Init, ActiveJobs, Holders
<1>2. Cardinality({}) = 0
  BY FS_EmptySet
<1>3. CapacityHonest
  BY <1>1, <1>2, AdmissionAssumption DEF Init, CapacityHonest, Holders
<1>4. Types
  BY DEF Init, Types, Stages, Unanswered
<1>5. Places
  BY DEF Init, Places, Launched
<1>6. KeysHonest
  BY DEF Init, KeysHonest, KeyLaunchesOnce
<1> QED
  BY <1>3, <1>4, <1>5, <1>6 DEF IInv

LEMMA NextHonest ==
  ASSUME IInv, [Next]_vars
  PROVE  IInv' /\ (accepting \/ ActiveJobs' \subseteq ActiveJobs)
<1>1. ASSUME NEW s \in Starts, Reserve(s)
      PROVE  IInv' /\ (accepting \/ ActiveJobs' \subseteq ActiveJobs)
  BY <1>1, LaunchKeeps, StartKeeps DEF ActiveJobs
<1>2. ASSUME NEW s \in Starts,
             \/ StartRun(s) \/ ValidationRefuses(s) \/ Unhealthy(s)
             \/ \E runnable \in BOOLEAN : Check(s, runnable)
      PROVE  IInv' /\ ActiveJobs' \subseteq ActiveJobs
  BY <1>2, StartKeeps DEF ActiveJobs
<1>3. ASSUME NEW s \in Starts, End(s) \/ Finish(s) \/ Age(s)
      PROVE  IInv' /\ ActiveJobs' \subseteq ActiveJobs
  BY <1>3, EndKeeps, FinishKeeps, AgeKeeps DEF ActiveJobs
<1>4. job' = job => ActiveJobs' \subseteq ActiveJobs
  BY DEF ActiveJobs
<1> QED
  BY <1>1, <1>2, <1>3, <1>4, EndKeeps, RestKeeps DEF Next

LEMMA Inductive == Spec => []IInv
<1>1. Init => IInv
  BY InitHonest
<1>2. IInv /\ [Next]_vars => IInv'
  BY NextHonest
<1> QED
  BY <1>1, <1>2, PTL DEF Spec

\* admit and _release_locked: the counters are the jobs that hold a
\* place, whatever ends them, and the limits hold.
THEOREM CapacityHeld == Spec => []CapacityHonest
<1>1. IInv => CapacityHonest
  BY DEF IInv
<1> QED
  BY <1>1, Inductive, PTL

\* admit and _prune_locked: a key launches once in its fifteen minutes, and
\* every kept job still answers its key.
THEOREM KeysOnce == Spec => []KeysHonest
<1>1. IInv => KeysHonest
  BY DEF IInv
<1> QED
  BY <1>1, Inductive, PTL

\* shutdown: no job becomes active after it, whatever was then in its probe.
THEOREM ShutdownIsFinal == Spec => NoLaunchAfterShutdown
<1>1. IInv /\ [Next]_vars => [~accepting => ActiveJobs' \subseteq ActiveJobs]_vars
  BY NextHonest
<1> QED
  BY <1>1, Inductive, PTL DEF Spec, NoLaunchAfterShutdown
-----------------------------------------------------------------------------
(* Readers and retention *)

ReadersOf(s) == {r \in Leases : Active(r) /\ lease[r].job = s}
Read == {s \in retained : readers[s] > 0}
Finished == {s \in retained : job[s] = "finished"}

\* The finished jobs stand in order, each once.
OrderHonest ==
    /\ order \in Seq(Starts)
    /\ \A s \in Starts : job[s] = "finished" <=> \E i \in DOMAIN order : order[i] = s
    /\ \A i, j \in DOMAIN order : order[i] = order[j] => i = j

LInv ==
    /\ OrderHonest
    /\ lease \in [Leases -> [job : Starts \union {NoJob}, releases : 0..2]]
    /\ readers \in [Starts -> Nat]
    /\ \A r \in Leases : lease[r].job = NoJob => lease[r].releases = 0
    /\ \A r \in Leases : Active(r) => lease[r].job \in retained
    /\ \A s \in Starts : readers[s] = Cardinality(ReadersOf(s))
    /\ Cardinality(Read) <= MaxTerminal
    /\ Cardinality(Finished) <= MaxTerminal

LEMMA SmallSets ==
  /\ \A S \in SUBSET Starts : IsFiniteSet(S) /\ Cardinality(S) \in Nat
  /\ \A R \in SUBSET Leases : IsFiniteSet(R) /\ Cardinality(R) \in Nat
  /\ \A S \in SUBSET Starts : \A T \in SUBSET S : Cardinality(T) <= Cardinality(S)
  BY AdmissionAssumption, FS_Subset, FS_CardinalityType

\* The least element of a set of numbers; the segments up to its elements are
\* finite, and strict inclusion of finite sets is well-founded.
LEMMA LeastExists ==
  ASSUME NEW T \in SUBSET Nat, T # {}
  PROVE  \E x \in T : \A y \in T : x <= y
<1> DEFINE Segments == {1..x : x \in T}
<1>1. Segments \subseteq FiniteSubsetsOf(Nat) /\ Segments # {}
  <2>1. \A x \in T : 1..x \in SUBSET Nat /\ IsFiniteSet(1..x)
    BY FS_Interval
  <2> QED
    BY <2>1 DEF FiniteSubsetsOf
<1>2. IsWellFoundedOn(StrictSubsetOrdering(Nat), FiniteSubsetsOf(Nat))
  BY FS_StrictSubsetOrderingWellFounded
<1> HIDE DEF Segments
<1>3. PICK d \in Segments : \A e \in Segments : ~ (<<e, d>> \in StrictSubsetOrdering(Nat))
  BY <1>1, <1>2, WFMin
<1>4. PICK x \in T : d = 1..x
  BY DEF Segments
<1>5. ASSUME NEW y \in T, y < x PROVE FALSE
  <2>1. 1..y \subseteq 1..x /\ 1..y # 1..x
    <3>1. x \in 1..x /\ x \notin 1..y
      BY <1>5
    <3> QED
      BY <3>1, <1>5
  <2>2. 1..y \in Segments
    BY DEF Segments
  <2>3. <<1..y, 1..x>> \in StrictSubsetOrdering(Nat)
    BY <2>1, <1>5 DEF StrictSubsetOrdering
  <2> QED
    BY <1>3, <1>4, <2>2, <2>3
<1> QED
  BY <1>5

\* Of those without a reader as many are kept as there is room for: the oldest
\* of them has all the others before it, and still fits.
LEMMA KeptFits ==
  ASSUME retained \subseteq Starts, NEW ended \in Seq(Starts), NEW count \in [Starts -> Nat],
         \A i, j \in DOMAIN ended : ended[i] = ended[j] => i = j,
         Cardinality({s \in retained : count[s] > 0}) <= MaxTerminal
  PROVE  /\ \A s \in retained : count[s] > 0 => s \in Kept(ended, count)
         /\ Cardinality({s \in Kept(ended, count) : \E i \in DOMAIN ended : ended[i] = s}) <= MaxTerminal
<1> DEFINE over == {s \in retained : \E i \in DOMAIN ended : ended[i] = s}
           idle == {s \in over : count[s] = 0}
           busy == over \ idle
           slots == MaxTerminal - Cardinality(busy)
           before(s) == {t \in idle \ aged : Younger(t, s, ended)}
           fitting == {s \in idle \ aged : Cardinality(before(s)) < slots}
           keptOver == {s \in Kept(ended, count) : \E i \in DOMAIN ended : ended[i] = s}
<1>1. Kept(ended, count) = {s \in retained : s \in idle => s \notin aged /\ Cardinality(before(s)) < slots}
  BY DEF Kept
<1>2. \A s \in retained : count[s] > 0 => s \in Kept(ended, count)
  BY <1>1
<1>3. keptOver \subseteq busy \union fitting
  BY <1>1
<1>4. /\ busy \in SUBSET Starts /\ fitting \in SUBSET Starts /\ keptOver \in SUBSET Starts
      /\ busy \in SUBSET {s \in retained : count[s] > 0} /\ {s \in retained : count[s] > 0} \in SUBSET Starts
      /\ \A s : before(s) \in SUBSET Starts
  BY <1>3
<1>5. /\ \A s \in fitting : Cardinality(before(s)) < slots
      /\ \A s \in fitting : \E i \in DOMAIN ended : ended[i] = s
      /\ \A s, t \in fitting : Younger(t, s, ended) => t \in before(s)
  OBVIOUS
<1> HIDE DEF over, idle, busy, slots, before, fitting, keptOver
<1>6. Cardinality(busy) <= MaxTerminal /\ slots \in Nat
  <2> PICK reading : reading = {s \in retained : count[s] > 0}
    OBVIOUS
  <2>1. Cardinality(busy) <= Cardinality(reading) /\ Cardinality(busy) \in Nat /\ Cardinality(reading) \in Nat
    BY <1>4, SmallSets
  <2>2. Cardinality(reading) <= MaxTerminal /\ MaxTerminal \in Nat
    BY AdmissionAssumption
  <2> QED
    BY <2>1, <2>2 DEF slots
<1>7. Cardinality(fitting) <= slots
  <2>1. CASE fitting = {}
    BY <2>1, <1>6, FS_EmptySet
  <2>2. CASE fitting # {}
    <3> DEFINE T == {i \in DOMAIN ended : ended[i] \in fitting}
    <3>1. T \in SUBSET Nat /\ T # {}
      BY <2>2, <1>5
    <3>2. PICK m \in T : \A i \in T : m <= i
      BY <3>1, LeastExists
    <3>3. m \in DOMAIN ended /\ ended[m] \in fitting /\ T \subseteq Nat
      BY <3>1
    <3> PICK s : s = ended[m]
      OBVIOUS
    <3>4. ASSUME NEW t \in fitting \ {s} PROVE t \in before(s)
      <4>1. PICK j \in DOMAIN ended : ended[j] = t
        BY <1>5
      <4>2. j \in T /\ j # m
        BY <4>1
      <4>3. m < j
        BY <4>2, <3>2, <3>3
      <4> QED
        BY <4>1, <4>3, <3>3, <1>5 DEF Younger
    <3>5. fitting \ {s} \in SUBSET before(s)
      BY <3>4
    <3>6. Cardinality(fitting \ {s}) <= Cardinality(before(s)) /\ Cardinality(before(s)) < slots
      BY <3>3, <3>5, <1>4, <1>5, SmallSets
    <3>7. Cardinality(fitting \ {s}) = Cardinality(fitting) - 1
      BY <3>3, <1>4, SmallSets, FS_RemoveElement
    <3>8. Cardinality(fitting) \in Nat /\ Cardinality(before(s)) \in Nat
      BY <1>4, SmallSets
    <3> QED
      BY <3>6, <3>7, <3>8, <1>6
  <2> QED
    BY <2>1, <2>2
<1>8. Cardinality(busy \union fitting) <= Cardinality(busy) + Cardinality(fitting)
  <2>1. /\ IsFiniteSet(busy) /\ IsFiniteSet(fitting) /\ Cardinality(busy) \in Nat /\ Cardinality(fitting) \in Nat
        /\ Cardinality(busy \cap fitting) \in Nat
    <3>1. busy \cap fitting \in SUBSET Starts
      BY <1>4
    <3> QED
      BY <3>1, <1>4, SmallSets
  <2>2. Cardinality(busy \union fitting)
          = Cardinality(busy) + Cardinality(fitting) - Cardinality(busy \cap fitting)
    BY <2>1, FS_Union
  <2> QED
    BY <2>1, <2>2
<1>9. Cardinality(keptOver) <= Cardinality(busy \union fitting)
  <2>1. busy \union fitting \in SUBSET Starts /\ keptOver \in SUBSET (busy \union fitting)
    BY <1>3, <1>4
  <2> QED
    BY <2>1, SmallSets
<1>10. Cardinality(keptOver) <= MaxTerminal
  <2>1. /\ Cardinality(keptOver) \in Nat /\ Cardinality(busy) \in Nat /\ Cardinality(fitting) \in Nat
        /\ Cardinality(busy \union fitting) \in Nat
    <3>1. busy \union fitting \in SUBSET Starts
      BY <1>4
    <3> QED
      BY <3>1, <1>4, SmallSets
  <2> QED
    BY <2>1, <1>6, <1>7, <1>8, <1>9, AdmissionAssumption DEF slots
<1> QED
  BY <1>2, <1>10 DEF keptOver

\* A job with an active lease has readers, and only a launched one has.
LEMMA ReadersLaunched ==
  ASSUME IInv, LInv, NEW s \in Starts, ReadersOf(s) # {} \/ readers[s] > 0
  PROVE  readers[s] > 0 /\ ReadersOf(s) # {} /\ s \in retained /\ Launched(s)
<1>1. IsFiniteSet(ReadersOf(s)) /\ Cardinality(ReadersOf(s)) \in Nat
  <2>1. ReadersOf(s) \in SUBSET Leases
    BY DEF ReadersOf
  <2> QED
    BY <2>1, SmallSets
<1>2. readers[s] = Cardinality(ReadersOf(s))
  BY DEF LInv
<1>3. readers[s] > 0 <=> ReadersOf(s) # {}
  BY <1>1, <1>2, FS_EmptySet
<1> QED
  BY <1>3 DEF ReadersOf, LInv, IInv, Places

\* A step that moves no lease, finishes no job and evicts none with a reader.
LEMMA LeasesStay ==
  ASSUME IInv, LInv, lease' = lease, readers' = readers, order' = order,
         \A s \in Starts : job'[s] = "finished" <=> job[s] = "finished",
         NEW fresh \in SUBSET Starts, \A s \in fresh : job[s] = "none",
         retained' \subseteq retained \union fresh,
         \A s \in retained : readers[s] > 0 => s \in retained'
  PROVE  LInv'
<1>1. OrderHonest'
  BY DEF LInv, OrderHonest
<1>2. \A r \in Leases : Active(r)' <=> Active(r)
  BY DEF Active
<1>3. \A s \in Starts : ReadersOf(s)' = ReadersOf(s)
  BY DEF ReadersOf, Active
<1>4. \A r \in Leases : Active(r)' => (lease[r].job \in retained)'
  <2> SUFFICES ASSUME NEW r \in Leases, Active(r) PROVE lease[r].job \in retained'
    BY <1>2
  <2> PICK s : s = lease[r].job
    OBVIOUS
  <2>1. s \in retained /\ s \in Starts /\ r \in ReadersOf(s)
    BY DEF LInv, ReadersOf, IInv, Types
  <2>2. readers[s] > 0
    BY <2>1, ReadersLaunched
  <2> QED
    BY <2>1, <2>2
<1>5. Read' \in SUBSET Read /\ Finished' \in SUBSET Finished
  <2>1. retained' \subseteq Starts
    BY DEF IInv, Types
  <2>2. \A s \in fresh : ~(readers[s] > 0)
    BY ReadersLaunched DEF Launched
  <2> QED
    BY <2>1, <2>2 DEF Read, Finished
<1>6. Cardinality(Read') <= MaxTerminal /\ Cardinality(Finished') <= MaxTerminal
  <2>1. Read \in SUBSET Starts /\ Finished \in SUBSET Starts
    BY DEF IInv, Types, Read, Finished
  <2>2. /\ Cardinality(Read') <= Cardinality(Read) /\ Cardinality(Finished') <= Cardinality(Finished)
        /\ Cardinality(Read') \in Nat /\ Cardinality(Read) \in Nat
        /\ Cardinality(Finished') \in Nat /\ Cardinality(Finished) \in Nat
    BY <1>5, <2>1, SmallSets
  <2>3. Cardinality(Read) <= MaxTerminal /\ Cardinality(Finished) <= MaxTerminal /\ MaxTerminal \in Nat
    BY AdmissionAssumption DEF LInv
  <2> QED
    BY <2>2, <2>3
<1> QED
  BY <1>1, <1>3, <1>4, <1>6 DEF LInv

\* What a prune keeps, with the readers there are.
LEMMA PruneSparesReaders ==
  ASSUME IInv, LInv
  PROVE  PrunedJobs \subseteq retained /\ \A s \in retained : readers[s] > 0 => s \in PrunedJobs
<1>1. retained \subseteq Starts /\ order \in Seq(Starts) /\ readers \in [Starts -> Nat]
      /\ \A i, j \in DOMAIN order : order[i] = order[j] => i = j
  BY DEF IInv, Types, LInv, OrderHonest
<1>2. \A s \in retained : readers[s] > 0 => s \in Kept(order, readers)
  <2> PICK ended, count : ended = order /\ count = readers
    OBVIOUS
  <2>1. /\ ended \in Seq(Starts) /\ count \in [Starts -> Nat]
        /\ \A i, j \in DOMAIN ended : ended[i] = ended[j] => i = j
        /\ Cardinality({s \in retained : count[s] > 0}) <= MaxTerminal
    <3>1. {s \in retained : count[s] > 0} = Read
      BY DEF Read
    <3>2. Cardinality({s \in retained : count[s] > 0}) <= MaxTerminal
      BY <3>1 DEF LInv
    <3> QED
      BY <3>2 DEF LInv, OrderHonest
  <2>2. \A s \in retained : count[s] > 0 => s \in Kept(ended, count)
    BY <1>1, <2>1, KeptFits
  <2> QED
    BY <2>2
<1>3. PrunedJobs \subseteq retained
  BY DEF PrunedJobs, Kept
<1> QED
  BY <1>2, <1>3 DEF PrunedJobs

LEMMA MostStepsKeepLeases ==
  ASSUME IInv, LInv,
         \/ \E s \in Starts :
              \/ StartRun(s) \/ ValidationRefuses(s) \/ Unhealthy(s) \/ Reserve(s) \/ End(s) \/ Age(s)
              \/ \E runnable \in BOOLEAN : Check(s, runnable)
         \/ \E found \in {"up", "down"} : Probe(found)
         \/ \E l \in Lessons : SlotExpires(l)
         \/ Shutdown \/ Lookup \/ UNCHANGED vars
  PROVE  LInv'
<1>1. PrunedJobs \subseteq retained /\ \A s \in retained : readers[s] > 0 => s \in PrunedJobs
  BY PruneSparesReaders
<1>2. CASE \E s \in Starts : Reserve(s) /\ Launch(s)
  <2>1. PICK s \in Starts : Reserve(s) /\ Launch(s)
    BY <1>2
  <2>2. /\ lease' = lease /\ readers' = readers /\ order' = order
        /\ job' = [job EXCEPT ![s] = "active"] /\ retained' = PrunedJobs \union {s} /\ job[s] = "none"
    BY <2>1 DEF Reserve, Launch, leases, IInv, Places, Unanswered
  <2>3. \A t \in Starts : job'[t] = "finished" <=> job[t] = "finished"
    BY <2>2 DEF IInv, Types
  <2> DEFINE fresh == {s}
  <2>4. fresh \in SUBSET Starts /\ (\A t \in fresh : job[t] = "none") /\ retained' \subseteq retained \union fresh
        /\ \A t \in retained : readers[t] > 0 => t \in retained'
    BY <1>1, <2>2
  <2> HIDE DEF fresh
  <2> QED
    BY <2>2, <2>3, <2>4, LeasesStay
<1>3. CASE (\E s \in Starts : End(s)) \/ Shutdown
  <2>1. /\ lease' = lease /\ readers' = readers /\ order' = order /\ retained' = retained
        /\ \E S \in SUBSET Starts : (\A s \in S : job[s] # "finished") /\ Terminate(S)
    <3>1. CASE \E s \in Starts : End(s)
      BY <3>1 DEF End, leases, registry
    <3>2. CASE Shutdown
      BY <3>2 DEF Shutdown, leases, registry, IInv, Types
    <3> QED
      BY <1>3, <3>1, <3>2
  <2>2. PICK S \in SUBSET Starts : (\A s \in S : job[s] # "finished") /\ Terminate(S)
    BY <2>1
  <2>3. \A t \in Starts : job'[t] = "finished" <=> job[t] = "finished"
    BY <2>2 DEF Terminate
  <2> DEFINE fresh == {}
  <2>4. fresh \in SUBSET Starts /\ (\A t \in fresh : job[t] = "none") /\ retained' \subseteq retained \union fresh
        /\ \A t \in retained : readers[t] > 0 => t \in retained'
    BY <2>1
  <2> HIDE DEF fresh
  <2> QED
    BY <2>1, <2>3, <2>4, LeasesStay
<1>4. CASE ~(\E s \in Starts : (Reserve(s) /\ Launch(s)) \/ End(s)) /\ ~Shutdown
  <2>1. lease' = lease /\ readers' = readers /\ order' = order /\ job' = job
        /\ (retained' = retained \/ retained' = PrunedJobs)
    BY <1>4 DEF StartRun, Malformed, BadPayload, Preflight, ValidationRefuses, Unhealthy, Reserve, Age, Check,
       Probe, SlotExpires, Lookup, Prune, vars, jobs, leases, registry
  <2>2. \A t \in Starts : job'[t] = "finished" <=> job[t] = "finished"
    BY <2>1
  <2> DEFINE fresh == {}
  <2>3. fresh \in SUBSET Starts /\ (\A t \in fresh : job[t] = "none") /\ retained' \subseteq retained \union fresh
        /\ \A t \in retained : readers[t] > 0 => t \in retained'
    BY <2>1, <1>1
  <2> HIDE DEF fresh
  <2> QED
    BY <2>1, <2>2, <2>3, LeasesStay
<1> QED
  BY <1>2, <1>3, <1>4

\* A job that finishes takes the last place, and the prune makes room.
LEMMA FinishKeepsLeases ==
  ASSUME IInv, IInv', LInv, NEW s \in Starts, Finish(s)
  PROVE  LInv'
<1> USE DEF Stages
<1> PICK ended, count : ended = order' /\ count = readers
  OBVIOUS
<1>1. /\ job[s] = "terminating" /\ job' = [job EXCEPT ![s] = "finished"] /\ ended = Append(order, s)
      /\ retained' = Kept(ended, count) /\ lease' = lease /\ readers' = readers
  BY DEF Finish, leases
<1>2. job'[s] = "finished" /\ \A t \in Starts \ {s} : job'[t] = job[t]
  BY <1>1 DEF IInv, Types
<1>3. OrderHonest'
  <2>1. /\ order \in Seq(Starts) /\ DOMAIN order = 1..Len(order) /\ Len(order) \in Nat
        /\ ended \in Seq(Starts) /\ DOMAIN ended = 1..(Len(order) + 1) /\ ended[Len(order) + 1] = s
        /\ \A i \in 1..Len(order) : ended[i] = order[i]
    BY <1>1 DEF LInv, OrderHonest
  <2>2. \A i \in 1..Len(order) : order[i] # s
    BY <1>1, <2>1 DEF LInv, OrderHonest
  <2>3. ASSUME NEW t \in Starts
        PROVE  job'[t] = "finished" <=> \E i \in DOMAIN ended : ended[i] = t
    <3>1. job[t] = "finished" <=> \E i \in 1..Len(order) : order[i] = t
      BY <2>1 DEF LInv, OrderHonest
    <3>2. CASE t = s
      <4>1. Len(order) + 1 \in DOMAIN ended
        BY <2>1
      <4> QED
        BY <4>1, <3>2, <2>1, <1>2
    <3>3. CASE t # s
      BY <3>1, <3>3, <2>1, <1>2
    <3> QED
      BY <3>2, <3>3
  <2>4. \A i, j \in DOMAIN ended : ended[i] = ended[j] => i = j
    <3>1. \A i, j \in 1..Len(order) : order[i] = order[j] => i = j
      BY <2>1 DEF LInv, OrderHonest
    <3> QED
      BY <3>1, <2>1, <2>2
  <2> QED
    BY <2>1, <2>3, <2>4 DEF OrderHonest
<1>4. /\ ended \in Seq(Starts) /\ count \in [Starts -> Nat] /\ retained \subseteq Starts
      /\ \A i, j \in DOMAIN ended : ended[i] = ended[j] => i = j
      /\ Cardinality({t \in retained : count[t] > 0}) <= MaxTerminal
  <2>1. {t \in retained : count[t] > 0} = Read
    BY DEF Read
  <2> QED
    BY <2>1, <1>3 DEF LInv, OrderHonest, IInv, Types
<1>5. /\ \A t \in retained : count[t] > 0 => t \in Kept(ended, count)
      /\ Cardinality({t \in Kept(ended, count) : \E i \in DOMAIN ended : ended[i] = t}) <= MaxTerminal
  BY <1>4, KeptFits
<1>6. Finished' = {t \in Kept(ended, count) : \E i \in DOMAIN ended : ended[i] = t}
  <2>1. \A t \in Starts : job'[t] = "finished" <=> \E i \in DOMAIN ended : ended[i] = t
    BY <1>3 DEF OrderHonest
  <2>2. retained' = Kept(ended, count) /\ Kept(ended, count) \subseteq Starts
    BY <1>1, <1>4 DEF Kept
  <2> QED
    BY <2>1, <2>2 DEF Finished
<1>7. Cardinality(Finished') <= MaxTerminal
  BY <1>5, <1>6
<1>8. Read' = Read
  <2>1. retained' \subseteq retained /\ \A t \in retained : readers[t] > 0 => t \in retained'
    BY <1>1, <1>5 DEF Kept
  <2> QED
    BY <2>1, <1>1 DEF Read
<1>9. ASSUME NEW r \in Leases, Active(r)' PROVE lease'[r].job \in retained'
  <2> PICK t : t = lease[r].job
    OBVIOUS
  <2>1. Active(r) /\ t \in retained /\ t \in Starts /\ r \in ReadersOf(t)
    BY <1>1, <1>9 DEF Active, LInv, ReadersOf, IInv, Types
  <2>2. readers[t] > 0
    BY <2>1, ReadersLaunched
  <2> QED
    BY <2>1, <2>2, <1>1, <1>5
<1>10. \A t \in Starts : ReadersOf(t)' = ReadersOf(t)
  BY <1>1 DEF ReadersOf, Active
<1> QED
  BY <1>1, <1>3, <1>7, <1>8, <1>9, <1>10 DEF LInv

\* A reader that comes is one more; its job is read from now on, and there was
\* room for it among those.
LEMMA AttachKeepsLeases ==
  ASSUME IInv, IInv', LInv, NEW r \in Leases, NEW s \in Starts, AttachReader(r, s)
  PROVE  LInv'
<1>1. /\ lease[r].job = NoJob /\ s \in PrunedJobs /\ retained' = PrunedJobs /\ job' = job /\ order' = order
      /\ lease' = [lease EXCEPT ![r].job = s] /\ readers' = [readers EXCEPT ![s] = @ + 1]
      /\ (readers[s] = 0 => Cardinality(JobsWithReaders) < MaxTerminal)
  BY DEF AttachReader, MayRead, Prune, jobs
<1>2. lease[r].releases = 0 /\ lease[r] \in [job : Starts \union {NoJob}, releases : 0..2] /\ NoJob # s
  BY <1>1, AdmissionAssumption DEF LInv
<1>3. /\ lease' \in [Leases -> [job : Starts \union {NoJob}, releases : 0..2]]
      /\ lease'[r].job = s /\ lease'[r].releases = 0 /\ \A q \in Leases \ {r} : lease'[q] = lease[q]
  BY <1>1, <1>2 DEF LInv
<1>4. /\ readers' \in [Starts -> Nat] /\ readers[s] \in Nat /\ readers'[s] = readers[s] + 1
      /\ \A t \in Starts \ {s} : readers'[t] = readers[t]
  BY <1>1 DEF LInv
<1>5. PrunedJobs \subseteq retained /\ \A t \in retained : readers[t] > 0 => t \in PrunedJobs
  BY PruneSparesReaders
<1>6. OrderHonest'
  BY <1>1 DEF LInv, OrderHonest
<1>7. ASSUME NEW q \in Leases, Active(q)' PROVE lease'[q].job \in retained'
  <2>1. CASE q = r
    BY <2>1, <1>1, <1>3
  <2>2. CASE q # r
    <3> PICK t : t = lease[q].job
      OBVIOUS
    <3>1. Active(q) /\ t \in retained /\ t \in Starts /\ q \in ReadersOf(t)
      BY <1>3, <1>7, <2>2 DEF Active, LInv, ReadersOf, IInv, Types
    <3>2. readers[t] > 0
      BY <3>1, ReadersLaunched
    <3> QED
      BY <3>1, <3>2, <1>1, <1>3, <1>5, <2>2
  <2> QED
    BY <2>1, <2>2
<1>8. ASSUME NEW t \in Starts PROVE readers'[t] = Cardinality(ReadersOf(t)')
  <2>1. readers[t] = Cardinality(ReadersOf(t)) /\ IsFiniteSet(ReadersOf(t))
    <3>1. ReadersOf(t) \in SUBSET Leases
      BY DEF ReadersOf
    <3> QED
      BY <3>1, SmallSets DEF LInv
  <2>2. CASE t = s
    <3>1. ReadersOf(t)' = ReadersOf(t) \union {r} /\ r \notin ReadersOf(t)
      BY <2>2, <1>1, <1>2, <1>3 DEF ReadersOf, Active
    <3>2. Cardinality(ReadersOf(t)') = Cardinality(ReadersOf(t)) + 1
      BY <3>1, <2>1, FS_AddElement
    <3> QED
      BY <3>2, <2>1, <2>2, <1>4
  <2>3. CASE t # s
    <3>1. ReadersOf(t)' = ReadersOf(t)
      BY <2>3, <1>1, <1>3 DEF ReadersOf, Active
    <3> QED
      BY <3>1, <2>1, <2>3, <1>4
  <2> QED
    BY <2>2, <2>3
<1>9. Cardinality(Read') <= MaxTerminal
  <2>1. JobsWithReaders = Read /\ Read \in SUBSET Starts
    BY <1>5 DEF JobsWithReaders, Read, IInv, Types
  <2>2. Read' = Read \union {s}
    <3>1. s \in Starts /\ retained \subseteq Starts
      BY DEF IInv, Types
    <3> QED
      BY <3>1, <1>1, <1>4, <1>5 DEF Read
  <2>3. IsFiniteSet(Read) /\ Cardinality(Read) \in Nat /\ Cardinality(Read) <= MaxTerminal /\ MaxTerminal \in Nat
    BY <2>1, SmallSets, AdmissionAssumption DEF LInv
  <2>4. CASE s \in Read
    <3>1. Read' = Read
      BY <2>2, <2>4
    <3> QED
      BY <3>1, <2>3
  <2>5. CASE s \notin Read
    <3>1. readers[s] = 0
      BY <2>5, <1>1, <1>4, <1>5 DEF Read
    <3>2. Cardinality(Read') = Cardinality(Read) + 1
      BY <2>2, <2>3, <2>5, FS_AddElement
    <3> QED
      BY <3>1, <3>2, <2>1, <2>3, <1>1
  <2> QED
    BY <2>4, <2>5
<1>10. Cardinality(Finished') <= MaxTerminal
  <2>1. Finished' \in SUBSET Finished /\ Finished \in SUBSET Starts
    BY <1>1, <1>5 DEF Finished, IInv, Types
  <2>2. Cardinality(Finished') <= Cardinality(Finished) /\ Cardinality(Finished') \in Nat
        /\ Cardinality(Finished) \in Nat
    BY <2>1, SmallSets
  <2>3. Cardinality(Finished) <= MaxTerminal /\ MaxTerminal \in Nat
    BY AdmissionAssumption DEF LInv
  <2> QED
    BY <2>2, <2>3
<1>11. \A q \in Leases : lease'[q].job = NoJob => lease'[q].releases = 0
  BY <1>2, <1>3 DEF LInv
<1> QED
  BY <1>3, <1>4, <1>6, <1>7, <1>8, <1>9, <1>10, <1>11 DEF LInv

\* The first release of a reader takes it from its job's and prunes; the
\* second finds it gone.
LEMMA DetachKeepsLeases ==
  ASSUME IInv, IInv', LInv, NEW r \in Leases, DetachReader(r)
  PROVE  LInv'
<1> PICK count : count = readers'
  OBVIOUS
<1> PICK s : s = lease[r].job
  OBVIOUS
<1>1. /\ s \in Starts /\ lease[r].releases \in 0..1 /\ lease' = [lease EXCEPT ![r].releases = @ + 1]
      /\ lease[r] \in [job : Starts \union {NoJob}, releases : 0..2] /\ NoJob # s
      /\ job' = job /\ order' = order
  BY DEF DetachReader, LInv, jobs
<1>2. /\ lease' \in [Leases -> [job : Starts \union {NoJob}, releases : 0..2]]
      /\ lease'[r].job = s /\ lease'[r].releases > 0 /\ \A q \in Leases \ {r} : lease'[q] = lease[q]
  BY <1>1 DEF LInv
<1>3. OrderHonest'
  BY <1>1 DEF LInv, OrderHonest
<1>4. \A q \in Leases : lease'[q].job = NoJob => lease'[q].releases = 0
  BY <1>1, <1>2 DEF LInv
<1>5. ~Active(r)' /\ \A q \in Leases \ {r} : Active(q)' <=> Active(q)
  BY <1>2 DEF Active
<1>6. \A t \in Starts : ReadersOf(t)' = ReadersOf(t) \ {r}
  BY <1>2, <1>5 DEF ReadersOf
<1>7. CASE ~Active(r)
  <2>1. readers' = readers /\ retained' = retained
    BY <1>7 DEF DetachReader, FirstRelease, registry
  <2>2. \A t \in Starts : ReadersOf(t)' = ReadersOf(t)
    BY <1>6, <1>7 DEF ReadersOf
  <2>3. \A q \in Leases : Active(q)' => lease'[q].job \in retained'
    BY <1>2, <1>5, <2>1 DEF LInv
  <2>4. Read' = Read /\ Finished' = Finished
    BY <1>1, <2>1 DEF Read, Finished
  <2> QED
    BY <1>2, <1>3, <1>4, <2>1, <2>2, <2>3, <2>4 DEF LInv
<1>8. CASE Active(r)
  <2>1. /\ readers' = [readers EXCEPT ![s] = IF @ > 0 THEN @ - 1 ELSE @]
        /\ retained' = Kept(order, count)
    BY <1>8 DEF DetachReader, FirstRelease
  <2>2. r \in ReadersOf(s) /\ readers[s] > 0 /\ readers[s] \in Nat
    <3>1. r \in ReadersOf(s)
      BY <1>8 DEF ReadersOf
    <3> QED
      BY <3>1, <1>1, ReadersLaunched DEF LInv
  <2>3. /\ readers' \in [Starts -> Nat] /\ readers'[s] = readers[s] - 1
        /\ \A t \in Starts \ {s} : readers'[t] = readers[t]
    BY <2>1, <2>2, <1>1 DEF LInv
  <2>4. ASSUME NEW t \in Starts PROVE readers'[t] = Cardinality(ReadersOf(t)')
    <3>1. readers[t] = Cardinality(ReadersOf(t)) /\ IsFiniteSet(ReadersOf(t))
      <4>1. ReadersOf(t) \in SUBSET Leases
        BY DEF ReadersOf
      <4> QED
        BY <4>1, SmallSets DEF LInv
    <3>2. CASE t = s
      <4>1. Cardinality(ReadersOf(t) \ {r}) = Cardinality(ReadersOf(t)) - 1
        BY <3>1, <3>2, <2>2, FS_RemoveElement
      <4> QED
        BY <4>1, <3>1, <3>2, <1>6, <2>3
    <3>3. CASE t # s
      <4>1. ReadersOf(t)' = ReadersOf(t)
        BY <3>3, <1>6 DEF ReadersOf
      <4> QED
        BY <4>1, <3>1, <3>3, <2>3
    <3> QED
      BY <3>2, <3>3
  <2>5. {t \in retained : count[t] > 0} \in SUBSET Read /\ Read \in SUBSET Starts
    <3>1. retained \subseteq Starts
      BY DEF IInv, Types
    <3> QED
      BY <3>1, <2>2, <2>3 DEF Read
  <2>6. Cardinality({t \in retained : count[t] > 0}) <= MaxTerminal
    <3> PICK reading : reading = {t \in retained : count[t] > 0}
      OBVIOUS
    <3>1. /\ Cardinality(reading) <= Cardinality(Read)
          /\ Cardinality(reading) \in Nat /\ Cardinality(Read) \in Nat
      BY <2>5, SmallSets
    <3>2. Cardinality(Read) <= MaxTerminal /\ MaxTerminal \in Nat
      BY AdmissionAssumption DEF LInv
    <3> QED
      BY <3>1, <3>2
  <2>7. \A t \in retained : count[t] > 0 => t \in Kept(order, count)
    <3> PICK ended : ended = order
      OBVIOUS
    <3>1. /\ retained \subseteq Starts /\ ended \in Seq(Starts)
          /\ \A i, j \in DOMAIN ended : ended[i] = ended[j] => i = j
      BY DEF IInv, Types, LInv, OrderHonest
    <3>2. count \in [Starts -> Nat]
      BY <2>3
    <3>3. \A t \in retained : count[t] > 0 => t \in Kept(ended, count)
      BY <3>1, <3>2, <2>6, KeptFits
    <3> QED
      BY <3>3
  <2>8. retained' \subseteq retained
    BY <2>1 DEF Kept
  <2>9. Read' \in SUBSET {t \in retained : count[t] > 0} /\ Finished' \in SUBSET Finished
    BY <2>8, <1>1 DEF Read, Finished
  <2>10. Cardinality(Read') <= MaxTerminal /\ Cardinality(Finished') <= MaxTerminal
    <3>1. Read' \in SUBSET Read /\ Read \in SUBSET Starts /\ Finished \in SUBSET Starts
      BY <2>5, <2>9 DEF Finished, IInv, Types
    <3>2. /\ Cardinality(Read') <= Cardinality(Read) /\ Cardinality(Finished') <= Cardinality(Finished)
          /\ Cardinality(Read') \in Nat /\ Cardinality(Read) \in Nat
          /\ Cardinality(Finished') \in Nat /\ Cardinality(Finished) \in Nat
      BY <2>9, <3>1, SmallSets
    <3>3. Cardinality(Read) <= MaxTerminal /\ Cardinality(Finished) <= MaxTerminal /\ MaxTerminal \in Nat
      BY AdmissionAssumption DEF LInv
    <3> QED
      BY <3>2, <3>3
  <2>11. ASSUME NEW q \in Leases, Active(q)' PROVE lease'[q].job \in retained'
    <3> PICK t : t = lease[q].job
      OBVIOUS
    <3>1. q # r /\ Active(q) /\ lease'[q].job = t
      BY <2>11, <1>2, <1>5
    <3>2. t \in retained /\ t \in Starts
      BY <3>1 DEF LInv, IInv, Types
    <3>3. q \in ReadersOf(t)' /\ IsFiniteSet(ReadersOf(t)') /\ Cardinality(ReadersOf(t)') \in Nat
      <4>1. ReadersOf(t)' \in SUBSET Leases
        BY DEF ReadersOf
      <4>2. IsFiniteSet(ReadersOf(t)') /\ Cardinality(ReadersOf(t)') \in Nat
        BY <4>1, SmallSets
      <4>3. q \in ReadersOf(t) /\ ReadersOf(t)' = ReadersOf(t) \ {r}
        BY <3>1, <3>2, <1>6 DEF ReadersOf
      <4> QED
        BY <4>2, <4>3, <3>1
    <3>4. Cardinality(ReadersOf(t)') # 0
      BY <3>3, FS_EmptySet
    <3>5. count[t] > 0
      BY <3>2, <3>3, <3>4, <2>4
    <3> QED
      BY <3>1, <3>2, <3>5, <2>1, <2>7
  <2> QED
    BY <1>2, <1>3, <1>4, <2>3, <2>4, <2>10, <2>11 DEF LInv
<1> QED
  BY <1>7, <1>8

LEMMA InitLeases == Init => LInv
<1> SUFFICES ASSUME Init PROVE LInv
  OBVIOUS
<1>1. OrderHonest
  BY DEF Init, OrderHonest
<1>2. \A s \in Starts : ReadersOf(s) = {}
  BY DEF Init, ReadersOf, Active
<1>3. Read = {} /\ Finished = {}
  BY DEF Init, Read, Finished
<1>4. Cardinality({}) = 0
  BY FS_EmptySet
<1>5. /\ lease \in [Leases -> [job : Starts \union {NoJob}, releases : 0..2]]
      /\ readers \in [Starts -> Nat]
      /\ \A r \in Leases : lease[r].releases = 0 /\ ~Active(r)
      /\ \A s \in Starts : readers[s] = 0
  BY DEF Init, Active
<1>6. Cardinality(Read) <= MaxTerminal /\ Cardinality(Finished) <= MaxTerminal
  BY <1>3, <1>4, AdmissionAssumption
<1>7. \A s \in Starts : readers[s] = Cardinality(ReadersOf(s))
  BY <1>2, <1>4, <1>5
<1> QED
  BY <1>1, <1>5, <1>6, <1>7 DEF LInv

LEMMA NextKeepsLeases ==
  ASSUME IInv, IInv', LInv, [Next]_vars
  PROVE  LInv'
<1>1. CASE \E s \in Starts : Finish(s)
  BY <1>1, FinishKeepsLeases
<1>2. CASE \E r \in Leases : DetachReader(r)
  BY <1>2, DetachKeepsLeases
<1>3. CASE \E r \in Leases : StreamRun(r)
  BY <1>3, AttachKeepsLeases DEF StreamRun
<1> QED
  BY <1>1, <1>2, <1>3, MostStepsKeepLeases DEF Next

\* attach_reader, detach_reader and _prune_locked: a job is kept while it is
\* read, its count is that of its readers however often each is released, and
\* there is room for what is kept.
THEOREM LeasesKept == Spec => []LeasesHonest
<1>1. Init => LInv
  BY InitLeases
<1>2. IInv /\ IInv' /\ LInv /\ [Next]_vars => LInv'
  BY NextKeepsLeases
<1>3. LInv => LeasesHonest
  BY DEF LInv, LeasesHonest, ReadersOf, Finished
<1> QED
  BY <1>1, <1>2, <1>3, Inductive, PTL DEF Spec
-----------------------------------------------------------------------------
(* The rate window *)

Different(slots) == \A i, j \in DOMAIN slots : slots[i] = slots[j] => i = j

\* Of slots that are all different, one goes and the others stay.
LEMMA WithoutRemoves ==
  ASSUME NEW S, NEW slots \in Seq(S), Different(slots), NEW x
  PROVE  /\ Without(slots, x) \in Seq(S) /\ Different(Without(slots, x))
         /\ \A i \in DOMAIN Without(slots, x) :
              Without(slots, x)[i] # x /\ \E j \in DOMAIN slots : Without(slots, x)[i] = slots[j]
<1>1. PICK n \in Nat : n = Len(slots) /\ DOMAIN slots = 1 .. n
  OBVIOUS
<1>2. CASE ~ \E i \in DOMAIN slots : slots[i] = x
  BY <1>2 DEF Without
<1>3. CASE \E i \in DOMAIN slots : slots[i] = x
  <2>1. PICK at \in 1 .. n : slots[at] = x /\ at = CHOOSE i \in DOMAIN slots : slots[i] = x
    BY <1>1, <1>3
  <2> DEFINE left == [i \in 1 .. n - 1 |-> slots[IF i < at THEN i ELSE i + 1]]
  <2>2. Without(slots, x) = left
    BY <1>1, <1>3, <2>1 DEF Without
  <2>3. n - 1 \in Nat /\ DOMAIN left = 1 .. n - 1
    BY <2>1
  <2>4. ASSUME NEW i \in 1 .. n - 1 PROVE (IF i < at THEN i ELSE i + 1) \in (1 .. n) \ {at}
    <3>1. at \in Int /\ 1 <= at /\ at <= n /\ i \in Int /\ 1 <= i /\ i <= n - 1
      BY <2>1
    <3>2. CASE i < at
      BY <3>1, <3>2
    <3>3. CASE ~(i < at)
      BY <3>1, <3>3
    <3> QED
      BY <3>2, <3>3
  <2>5. \A i \in 1 .. n : slots[i] \in S
    BY <1>1
  <2>6. left \in Seq(S)
    <3>1. left \in [1 .. n - 1 -> S]
      BY <2>4, <2>5
    <3>2. \A m \in Nat : \A f \in [1 .. m -> S] : f \in Seq(S)
      OBVIOUS
    <3> HIDE DEF left
    <3> QED
      BY <2>3, <3>1, <3>2
  <2>7. \A i \in 1 .. n - 1 : left[i] # x
    BY <1>1, <2>1, <2>4 DEF Different
  <2>8. \A i, j \in 1 .. n - 1 : left[i] = left[j] => i = j
    BY <1>1, <2>1, <2>4 DEF Different
  <2> HIDE DEF left
  <2>9. \A i \in 1 .. n - 1 : \E j \in 1 .. n : left[i] = slots[j]
    BY <2>4 DEF left
  <2> QED
    BY <1>1, <2>2, <2>3, <2>6, <2>7, <2>8, <2>9 DEF Different
<1> QED
  BY <1>2, <1>3

\* An appended slot that is new leaves them all different; so does the loss
\* of the oldest.
LEMMA AppendAndTail ==
  ASSUME NEW S, NEW slots \in Seq(S), Different(slots)
  PROVE  /\ \A x \in S : (\A i \in DOMAIN slots : slots[i] # x) =>
              /\ Append(slots, x) \in Seq(S) /\ Different(Append(slots, x))
              /\ \A i \in DOMAIN Append(slots, x) :
                   Append(slots, x)[i] = x \/ \E j \in DOMAIN slots : Append(slots, x)[i] = slots[j]
         /\ slots # << >> =>
              /\ Tail(slots) \in Seq(S) /\ Different(Tail(slots))
              /\ \A i \in DOMAIN Tail(slots) : \E j \in DOMAIN slots : Tail(slots)[i] = slots[j]
<1>1. PICK n \in Nat : n = Len(slots) /\ DOMAIN slots = 1 .. n
  OBVIOUS
<1>2. ASSUME NEW x \in S, \A i \in DOMAIN slots : slots[i] # x
      PROVE  /\ Append(slots, x) \in Seq(S) /\ Different(Append(slots, x))
             /\ \A i \in DOMAIN Append(slots, x) :
                  Append(slots, x)[i] = x \/ \E j \in DOMAIN slots : Append(slots, x)[i] = slots[j]
  <2> DEFINE more == Append(slots, x)
  <2>1. more \in Seq(S) /\ DOMAIN more = 1 .. n + 1 /\ more[n + 1] = x /\ \A i \in 1 .. n : more[i] = slots[i]
    BY <1>1
  <2> HIDE DEF more
  <2>2. Different(more)
    BY <1>1, <1>2, <2>1 DEF Different
  <2>3. \A i \in DOMAIN more : more[i] = x \/ \E j \in DOMAIN slots : more[i] = slots[j]
    BY <1>1, <2>1
  <2> QED
    BY <2>1, <2>2, <2>3 DEF more
<1>3. ASSUME slots # << >>
      PROVE  /\ Tail(slots) \in Seq(S) /\ Different(Tail(slots))
             /\ \A i \in DOMAIN Tail(slots) : \E j \in DOMAIN slots : Tail(slots)[i] = slots[j]
  <2> DEFINE less == Tail(slots)
  <2>1. n > 0 /\ less \in Seq(S) /\ DOMAIN less = 1 .. n - 1 /\ \A i \in 1 .. n - 1 : less[i] = slots[i + 1]
    BY <1>1, <1>3
  <2> HIDE DEF less
  <2>2. Different(less)
    BY <1>1, <2>1 DEF Different
  <2>3. \A i \in DOMAIN less : \E j \in DOMAIN slots : less[i] = slots[j]
    BY <1>1, <2>1
  <2> QED
    BY <2>1, <2>2, <2>3 DEF less
<1> QED
  BY <1>2, <1>3


\* Who holds a slot of lesson l.
Charged(l, s) == LessonOf(s) = l /\ call[s] \in {"validate", "health", "started", "invalid"}

Windows ==
    /\ window \in [Lessons -> Seq(Starts)]
    /\ \A l \in Lessons : Different(window[l]) /\ \A i \in DOMAIN window[l] : Charged(l, window[l][i])

Rest == accepting \in BOOLEAN /\ health \in {"unknown", "up", "down"} /\ aged \subseteq Starts

\* After the step the slots of s's lesson are ones it had before, and one of s
\* only while its answer holds one.
OwnSlots(s, answer, slots) ==
    \A i \in DOMAIN slots :
        \/ slots[i] # s /\ \E j \in DOMAIN window[LessonOf(s)] : slots[i] = window[LessonOf(s)][j]
        \/ slots[i] = s /\ answer \in {"validate", "health", "started", "invalid"}

\* A step of one start: only its own slot can have to do with it.
LEMMA OneWindow ==
  ASSUME IInv, Windows, NEW s \in Starts, NEW answer, Answer(s, answer), req' = req,
         NEW slots \in Seq(Starts), Different(slots),
         window' = [window EXCEPT ![LessonOf(s)] = slots],
         OwnSlots(s, answer, slots)
  PROVE  Windows'
<1> USE DEF OwnSlots
<1>1. LessonOf(s) \in Lessons /\ call'[s] = answer /\ \A t \in Starts \ {s} : call'[t] = call[t]
  BY DEF IInv, Types, LessonOf, Answer
<1>2. /\ window' \in [Lessons -> Seq(Starts)] /\ window'[LessonOf(s)] = slots
      /\ \A l \in Lessons \ {LessonOf(s)} : window'[l] = window[l]
  BY <1>1 DEF Windows
<1>3. ASSUME NEW l \in Lessons
      PROVE  (Different(window[l]) /\ \A i \in DOMAIN window[l] : Charged(l, window[l][i]))'
  <2> PICK before : before = window[l]
    OBVIOUS
  <2>1. before \in Seq(Starts) /\ Different(before) /\ \A i \in DOMAIN before : Charged(l, before[i])
    BY DEF Windows
  <2>2. \A i \in DOMAIN before : before[i] \in Starts
    BY <2>1
  <2>3. \A t \in Starts \ {s} : Charged(l, t) => Charged(l, t)'
    BY <1>1 DEF Charged, LessonOf
  <2>4. CASE l = LessonOf(s)
    <3>1. ASSUME NEW i \in DOMAIN slots PROVE Charged(l, slots[i])'
      <4>1. CASE slots[i] = s /\ answer \in {"validate", "health", "started", "invalid"}
        BY <2>4, <4>1, <1>1 DEF Charged, LessonOf
      <4>2. CASE slots[i] # s
        <5>1. PICK j \in DOMAIN before : slots[i] = before[j]
          BY <2>4, <4>2
        <5> QED
          BY <4>2, <5>1, <2>1, <2>2, <2>3
      <4> QED
        BY <4>1, <4>2
    <3>2. window'[l] = slots
      BY <1>2, <2>4
    <3> QED
      BY <3>1, <3>2 DEF Charged, LessonOf
  <2>5. CASE l # LessonOf(s)
    <3>1. ASSUME NEW i \in DOMAIN before PROVE Charged(l, before[i])'
      <4>1. before[i] # s
        BY <2>1, <2>5 DEF Charged
      <4> QED
        BY <4>1, <2>1, <2>2, <2>3
    <3>2. window'[l] = before
      BY <1>2, <2>5
    <3> QED
      BY <2>1, <3>1, <3>2 DEF Charged, LessonOf
  <2> QED
    BY <2>4, <2>5
<1> QED
  BY <1>2, <1>3 DEF Windows

\* The three ways of a start with its slot: it keeps what it has, is charged
\* one, or gives it back.
LEMMA SlotKept ==
  ASSUME IInv, Windows, NEW s \in Starts, NEW answer, Answer(s, answer), req' = req, window' = window,
         Charged(LessonOf(s), s) => answer \in {"validate", "health", "started", "invalid"}
  PROVE  Windows'
<1> PICK slots : slots = window[LessonOf(s)]
  OBVIOUS
<1>1. LessonOf(s) \in Lessons
  BY DEF IInv, Types, LessonOf
<1>2. /\ slots \in Seq(Starts) /\ Different(slots) /\ window' = [window EXCEPT ![LessonOf(s)] = slots]
      /\ \A i \in DOMAIN slots : Charged(LessonOf(s), slots[i])
  BY <1>1 DEF Windows
<1>3. OwnSlots(s, answer, slots)
  BY <1>2 DEF OwnSlots
<1> QED
  BY <1>2, <1>3, OneWindow

LEMMA SlotCharged ==
  ASSUME IInv, Windows, NEW s \in Starts, NEW answer \in {"validate", "invalid"}, Answer(s, answer), req' = req,
         Charge(s), call[s] = "new"
  PROVE  Windows'
<1> PICK before : before = window[LessonOf(s)]
  OBVIOUS
<1>1. LessonOf(s) \in Lessons
  BY DEF IInv, Types, LessonOf
<1>2. before \in Seq(Starts) /\ Different(before) /\ \A i \in DOMAIN before : before[i] # s
  BY <1>1 DEF Windows, Charged
<1> PICK slots : slots = Append(before, s)
  OBVIOUS
<1>3. /\ slots \in Seq(Starts) /\ Different(slots)
      /\ \A i \in DOMAIN slots : slots[i] = s \/ \E j \in DOMAIN before : slots[i] = before[j]
  BY <1>2, AppendAndTail
<1>4. window' = [window EXCEPT ![LessonOf(s)] = slots]
  BY <1>1 DEF Charge, Windows
<1>5. OwnSlots(s, answer, slots)
  BY <1>2, <1>3 DEF OwnSlots
<1> QED
  BY <1>3, <1>4, <1>5, OneWindow

LEMMA SlotRefunded ==
  ASSUME IInv, Windows, NEW s \in Starts, NEW answer, Refuse(s, answer), req' = req
  PROVE  Windows'
<1> PICK before : before = window[LessonOf(s)]
  OBVIOUS
<1>1. LessonOf(s) \in Lessons
  BY DEF IInv, Types, LessonOf
<1>2. before \in Seq(Starts) /\ Different(before)
  BY <1>1 DEF Windows
<1> PICK slots : slots = Without(before, s)
  OBVIOUS
<1>3. /\ slots \in Seq(Starts) /\ Different(slots)
      /\ \A i \in DOMAIN slots : slots[i] # s /\ \E j \in DOMAIN before : slots[i] = before[j]
  BY <1>2, WithoutRemoves
<1>4. window' = [window EXCEPT ![LessonOf(s)] = slots] /\ Answer(s, answer)
  BY <1>1 DEF Refuse, Refund, Windows
<1>5. OwnSlots(s, answer, slots)
  BY <1>3 DEF OwnSlots
<1> QED
  BY <1>3, <1>4, <1>5, OneWindow

LEMMA WindowsKept ==
  ASSUME IInv, Windows, [Next]_vars
  PROVE  Windows'
<1>1. ASSUME NEW s \in Starts, StartRun(s) PROVE Windows'
  <2>1. call[s] = "new" /\ req' = req
    BY <1>1 DEF StartRun, Malformed, BadPayload, Preflight
  <2>2. ~Charged(LessonOf(s), s)
    BY <2>1 DEF Charged
  <2>3. ASSUME NEW answer, Answer(s, answer), window' = window PROVE Windows'
    BY <2>1, <2>2, <2>3, SlotKept
  <2>4. CASE Malformed(s)
    BY <2>3, <2>4 DEF Malformed
  <2>5. CASE BadPayload(s)
    BY <2>1, <2>3, <2>5, SlotCharged DEF BadPayload
  <2>6. CASE Preflight(s)
    <3> PICK answer : answer = IF Standing(s) # "fresh" THEN Standing(s)
                               ELSE IF Busy(s) THEN "busy"
                               ELSE IF WindowFull(s) THEN "limited" ELSE "validate"
      OBVIOUS
    <3>1. Answer(s, answer) /\ IF answer = "validate" THEN Charge(s) ELSE UNCHANGED window
      BY <2>6 DEF Preflight
    <3> QED
      BY <2>1, <2>3, <3>1, SlotCharged
  <2> QED
    BY <1>1, <2>4, <2>5, <2>6 DEF StartRun
<1>2. ASSUME NEW s \in Starts,
             ValidationRefuses(s) \/ Unhealthy(s) \/ Reserve(s) \/ \E runnable \in BOOLEAN : Check(s, runnable)
      PROVE  Windows'
  <2>1. req' = req
    BY <1>2 DEF ValidationRefuses, Unhealthy, Reserve, Check
  <2>2. \/ \E answer : Refuse(s, answer)
        \/ \E answer \in {"health", "started", "invalid"} : Answer(s, answer) /\ window' = window
    BY <1>2 DEF ValidationRefuses, Unhealthy, Reserve, Check
  <2> QED
    BY <2>1, <2>2, SlotKept, SlotRefunded
<1>3. CASE UNCHANGED <<req, call, window>>
  BY <1>3 DEF Windows, Charged, LessonOf
<1>4. ASSUME NEW l \in Lessons, SlotExpires(l) PROVE Windows'
  <2> PICK before : before = window[l]
    OBVIOUS
  <2>1. before \in Seq(Starts) /\ Different(before) /\ before # << >> /\ \A i \in DOMAIN before : Charged(l, before[i])
    BY <1>4 DEF SlotExpires, Windows
  <2> PICK slots : slots = Tail(before)
    OBVIOUS
  <2>2. /\ slots \in Seq(Starts) /\ Different(slots)
        /\ \A i \in DOMAIN slots : \E j \in DOMAIN before : slots[i] = before[j]
    BY <2>1, AppendAndTail
  <2>3. window' = [window EXCEPT ![l] = slots] /\ req' = req /\ call' = call
    BY <1>4 DEF SlotExpires
  <2>4. \A i \in DOMAIN slots : Charged(l, slots[i])
    BY <2>1, <2>2
  <2> QED
    BY <2>2, <2>3, <2>4 DEF Windows, Charged, LessonOf
<1> QED
  BY <1>1, <1>2, <1>3, <1>4 DEF Next, End, Finish, Age, DetachReader, StreamRun, AttachReader, Probe, Shutdown,
     Lookup, vars

LEMMA RestKept ==
  ASSUME Rest, [Next]_vars
  PROVE  Rest'
<1>1. UNCHANGED <<accepting, health, aged>> => Rest'
  BY DEF Rest
<1>2. CASE Shutdown \/ (\E found \in {"up", "down"} : Probe(found)) \/ (\E s \in Starts : Age(s))
  BY <1>2 DEF Shutdown, Probe, Age, Rest, jobs
<1>3. ASSUME NEW s \in Starts,
             \/ StartRun(s) \/ ValidationRefuses(s) \/ Unhealthy(s) \/ Reserve(s) \/ End(s) \/ Finish(s)
             \/ \E runnable \in BOOLEAN : Check(s, runnable)
      PROVE  UNCHANGED <<accepting, health, aged>>
  BY <1>3 DEF StartRun, Malformed, BadPayload, Preflight, ValidationRefuses, Unhealthy, Reserve, End, Finish, Check, jobs
<1>4. CASE (\E r \in Leases : DetachReader(r) \/ StreamRun(r)) \/ (\E l \in Lessons : SlotExpires(l)) \/ Lookup
           \/ UNCHANGED vars
  BY <1>1, <1>4 DEF DetachReader, StreamRun, AttachReader, SlotExpires, Lookup, vars, jobs
<1> QED
  BY <1>1, <1>2, <1>3, <1>4 DEF Next

LEMMA WindowsHold == Spec => [](IInv /\ LInv /\ Windows /\ Rest)
<1>1. Init => IInv /\ LInv /\ Windows /\ Rest
  <2> SUFFICES ASSUME Init PROVE Windows /\ Rest
    BY InitHonest, InitLeases
  <2>1. << >> \in Seq(Starts) /\ DOMAIN << >> = {} /\ \A l \in Lessons : window[l] = << >>
    BY DEF Init
  <2>2. Windows
    BY <2>1 DEF Init, Windows, Different
  <2> QED
    BY <2>2 DEF Init, Rest
<1>2. IInv /\ LInv /\ Windows /\ Rest /\ [Next]_vars => (IInv /\ LInv /\ Windows /\ Rest)'
  BY NextHonest, NextKeepsLeases, WindowsKept, RestKept
<1> QED
  BY <1>1, <1>2, PTL DEF Spec

\* Starts, jobs, counters, windows and leases have their types; the counters
\* never fall below zero.
THEOREM TypeCorrect == Spec => []TypeOK
<1>1. ASSUME IInv PROVE total \in Nat /\ perLesson \in [Lessons -> Nat]
  <2>1. /\ ActiveJobs \in SUBSET Starts
        /\ \A l \in Lessons : {s \in ActiveJobs : LessonOf(s) = l} \in SUBSET Starts
    BY DEF ActiveJobs
  <2>2. \A S \in SUBSET Starts : Cardinality(S) \in Nat
    BY AdmissionAssumption, FS_Subset, FS_CardinalityType
  <2>3. total \in Nat /\ \A l \in Lessons : perLesson[l] \in Nat
    BY <1>1, <2>1, <2>2 DEF IInv, CapacityHonest
  <2> QED
    BY <1>1, <2>3 DEF IInv, Types
<1>2. IInv /\ LInv /\ Windows /\ Rest => TypeOK
  BY <1>1 DEF IInv, Types, Stages, Unanswered, LInv, OrderHonest, Windows, Rest, TypeOK
<1> QED
  BY <1>2, WindowsHold, PTL

\* admit and its hooks: the counters are the jobs that hold a place, and only
\* launches, failed validations and starts in flight hold a slot.
THEOREM CountersStand == Spec => []CountersHonest
<1>1. IInv /\ Windows => CountersHonest
  BY DEF IInv, Windows, Charged, CountersHonest, ChargesHonest
<1> QED
  BY <1>1, WindowsHold, PTL
=============================================================================
