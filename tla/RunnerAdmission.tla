--------------------------- MODULE RunnerAdmission ---------------------------
(***************************************************************************)
(* RunnerService as a whole (app/runner.py, app/services/runs.py): which   *)
(* starts launch a job, what a replayed key is answered, which finished    *)
(* jobs are kept, and who pays a slot of the rate window.                  *)
(*                                                                         *)
(* A start is one POST; the job it launches, its slot in the window and    *)
(* its entry under the idempotency key carry its name.  Sections under     *)
(* `_lock` are one action; validation and the health probe run on worker   *)
(* threads between them, under the lesson's prepare lock only.  Of a job   *)
(* this module keeps its reservation and its end (RunnerJob has the rest); *)
(* TERMINAL_RETENTION_SECONDS after the end, the job is `aged`.            *)
(***************************************************************************)
EXTENDS Integers, Sequences, FiniteSets

CONSTANTS
    Starts,         \* start requests
    Lessons, Keys, Targets,
    Leases,         \* stream responses
    NoJob,          \* a lease that attached to nothing yet
    GlobalLimit,    \* GLOBAL_ACTIVE_LIMIT
    LessonLimit,    \* PER_LESSON_ACTIVE_LIMIT
    MaxTerminal,    \* MAX_TERMINAL_JOBS
    ReaderLimit,    \* readers of one job
    RateMax         \* RATE_MAX_PER_WINDOW

ASSUME AdmissionAssumption ==
    /\ IsFiniteSet(Starts) /\ IsFiniteSet(Lessons) /\ IsFiniteSet(Leases)
    /\ NoJob \notin Starts
    /\ {GlobalLimit, LessonLimit, MaxTerminal, ReaderLimit, RateMax} \subseteq Nat

VARIABLES
    req,        \* what each start asks: [lesson, key, target]
    call,       \* where each start is, or its answer
    job,        \* none, active (STARTING, RUNNING), terminating or finished
    order,      \* finished jobs, oldest first
    aged,       \* finished jobs past the retention time
    retained,   \* _jobs
    entries,    \* _idempotency: the starts whose entry is there
    total,      \* _active_total
    perLesson,  \* _active_by_lesson
    accepting,
    window,     \* window[l]: charged slots of the last minute, oldest first
    health,     \* the probe's result, cached for the life of the process
    lease,      \* lease[r]: [job, releases]; one release makes it inactive
    readers     \* reader_count

registry == <<retained, entries>>
counters == <<total, perLesson>>
jobs == <<job, order, aged>>
leases == <<lease, readers>>
vars == <<req, call, jobs, registry, counters, accepting, window, health, leases>>

Init ==
    /\ req \in [Starts -> [lesson : Lessons, key : Keys, target : Targets]]
    /\ call = [s \in Starts |-> "new"]
    /\ job = [s \in Starts |-> "none"]
    /\ order = << >> /\ aged = {}
    /\ retained = {} /\ entries = {}
    /\ total = 0 /\ perLesson = [l \in Lessons |-> 0]
    /\ accepting = TRUE
    /\ window = [l \in Lessons |-> << >>]
    /\ health = "unknown"
    /\ lease = [r \in Leases |-> [job |-> NoJob, releases |-> 0]]
    /\ readers = [s \in Starts |-> 0]
-----------------------------------------------------------------------------
(* _prune_locked, part of almost every section. *)

LessonOf(s) == req[s].lesson
SameKey(s, t) == LessonOf(s) = LessonOf(t) /\ req[s].key = req[t].key

\* t finished after s.
Younger(t, s, ended) == \E i, j \in DOMAIN ended : i < j /\ ended[i] = s /\ ended[j] = t

\* The jobs that survive: those not over, those with a reader, and of the
\* others that have not aged the youngest that fit.
Kept(ended, count) ==
    LET over == {s \in retained : \E i \in DOMAIN ended : ended[i] = s}
        idle == {s \in over : count[s] = 0}
        slots == MaxTerminal - Cardinality(over \ idle)
        fits(s) == Cardinality({t \in idle \ aged : Younger(t, s, ended)}) < slots
    IN {s \in retained : s \in idle => s \notin aged /\ fits(s)}

LiveEntries_Evicted(kept) == {s \in entries : job[s] = "finished" => s \in kept}
\* An entry goes with its time, and not before its job.
LiveEntries(kept) == {s \in entries : s \in aged => s \in kept}

PrunedJobs == Kept(order, readers)
PrunedEntries == LiveEntries(PrunedJobs)
Prune == retained' = PrunedJobs /\ entries' = PrunedEntries
-----------------------------------------------------------------------------
(* What a start finds, after the prune. *)

Standing_LateAccept(s) ==
    IF \E t \in PrunedEntries : SameKey(s, t) THEN "replayed" ELSE "fresh"

\* _replay_locked, and whether the service still accepts.
Standing(s) ==
    LET holders == {t \in PrunedEntries : SameKey(s, t)}
    IN IF holders # {}
       THEN IF \E t \in holders : req[t].target # req[s].target THEN "conflict"
            ELSE IF holders \cap PrunedJobs = {} THEN "missing" ELSE "replayed"
       ELSE IF accepting THEN "fresh" ELSE "down"

Busy(s) == perLesson[LessonOf(s)] >= LessonLimit \/ total >= GlobalLimit

Answer(s, answer) == call' = [call EXCEPT ![s] = answer]

WindowFull(s) == Len(window[LessonOf(s)]) >= RateMax
Charge(s) == window' = [window EXCEPT ![LessonOf(s)] = Append(@, s)]

\* window.remove(stamp): the slot of x goes, if it has not expired.
Without(slots, x) ==
    IF \E i \in DOMAIN slots : slots[i] = x
    THEN LET at == CHOOSE i \in DOMAIN slots : slots[i] = x
         IN [i \in 1 .. Len(slots) - 1 |-> slots[IF i < at THEN i ELSE i + 1]]
    ELSE slots

Refund_Never(s) == UNCHANGED window
Refund(s) == window' = [window EXCEPT ![LessonOf(s)] = Without(@, s)]

\* prepare_start: one start of a lesson at a time between preflight and admit.
PrepareLockFree(s) ==
    \A t \in Starts : LessonOf(t) = LessonOf(s) => call[t] \notin {"validate", "health"}
-----------------------------------------------------------------------------
(* start_lesson_run and runs.start *)

\* The route: media type, size, JSON, lesson.  Nothing is charged.
Malformed(s) ==
    /\ call[s] = "new"
    /\ Answer(s, "malformed")
    /\ UNCHANGED <<req, jobs, registry, counters, accepting, window, health, leases>>

\* A malformed payload is charged like a validation.
BadPayload(s) ==
    /\ call[s] = "new"
    /\ IF WindowFull(s)
       THEN Answer(s, "limited") /\ UNCHANGED window
       ELSE Answer(s, "invalid") /\ Charge(s)
    /\ UNCHANGED <<req, jobs, registry, counters, accepting, health, leases>>

Preflight(s) ==
    /\ call[s] = "new"
    /\ PrepareLockFree(s)
    /\ Prune
    /\ LET answer == IF Standing(s) # "fresh" THEN Standing(s)
                     ELSE IF Busy(s) THEN "busy"
                     ELSE IF WindowFull(s) THEN "limited" ELSE "validate"
       IN /\ Answer(s, answer)
          /\ IF answer = "validate" THEN Charge(s) ELSE UNCHANGED window
    /\ UNCHANGED <<req, jobs, counters, accepting, health, leases>>

\* prepare_request refuses: manifest, file or revision.  Its slot stays taken.
ValidationRefuses(s) ==
    /\ call[s] = "validate"
    /\ Answer(s, "invalid")
    /\ UNCHANGED <<req, jobs, registry, counters, accepting, window, health, leases>>

Refuse(s, answer) ==
    /\ Answer(s, answer)
    /\ Refund(s)

\* admit, up to the health probe.  The runner may be unknown or the file not
\* one it runs.
Check(s, runnable) ==
    /\ call[s] = "validate"
    /\ Prune
    /\ IF Standing(s) # "fresh" THEN Refuse(s, Standing(s))
       ELSE IF ~runnable THEN Refuse(s, "unavailable")
       ELSE Answer(s, "health") /\ UNCHANGED window
    /\ UNCHANGED <<req, jobs, counters, accepting, health, leases>>

\* One thread runs the probes, the others wait for its result; it is not
\* asked again, so that a runner found down stays down.
Probe(found) ==
    /\ health = "unknown"
    /\ \E s \in Starts : call[s] = "health"
    /\ health' = found
    /\ UNCHANGED <<req, call, jobs, registry, counters, accepting, window, leases>>

Unhealthy(s) ==
    /\ call[s] = "health" /\ health = "down"
    /\ Refuse(s, "unavailable")
    /\ UNCHANGED <<req, jobs, registry, counters, accepting, health, leases>>

Launch(s) ==
    /\ job' = [job EXCEPT ![s] = "active"]
    /\ retained' = PrunedJobs \union {s}
    /\ entries' = {t \in PrunedEntries : ~SameKey(s, t)} \union {s}
    /\ total' = total + 1
    /\ perLesson' = [perLesson EXCEPT ![LessonOf(s)] = @ + 1]

\* admit, after it: everything that can have changed is looked at again.
Reserve(s) ==
    /\ call[s] = "health" /\ health = "up"
    /\ IF Standing(s) = "fresh" /\ ~Busy(s)
       THEN Answer(s, "started") /\ Launch(s) /\ UNCHANGED window
       ELSE /\ Prune
            /\ Refuse(s, IF Standing(s) = "fresh" THEN "busy" ELSE Standing(s))
            /\ UNCHANGED <<job, counters>>
    /\ UNCHANGED <<req, order, aged, accepting, health, leases>>
-----------------------------------------------------------------------------
(* The end of jobs. *)

Unreleased_All(S) == S
Unreleased(S) == {s \in S : job[s] = "active"}

\* _begin_termination_locked and _release_locked, for each of S.
Terminate(S) ==
    LET freed == Unreleased(S)
    IN /\ job' = [s \in Starts |-> IF s \in S THEN "terminating" ELSE job[s]]
       /\ total' = total - Cardinality(freed)
       /\ perLesson' = [l \in Lessons |->
              perLesson[l] - Cardinality({s \in freed : LessonOf(s) = l})]

\* A cause ends one job: its exit, a cancel, the clock, the output cap.
End(s) ==
    /\ job[s] = "active"
    /\ Terminate({s})
    /\ UNCHANGED <<req, call, order, aged, registry, accepting, window, health, leases>>

\* _finish_locked
Finish(s) ==
    /\ job[s] = "terminating"
    /\ job' = [job EXCEPT ![s] = "finished"]
    /\ order' = Append(order, s)
    /\ retained' = Kept(order', readers)
    /\ entries' = LiveEntries(retained')
    /\ UNCHANGED <<req, call, aged, counters, accepting, window, health, leases>>

Shutdown ==
    /\ accepting
    /\ accepting' = FALSE
    /\ Terminate({s \in retained : job[s] # "finished"})
    /\ UNCHANGED <<req, call, order, aged, registry, window, health, leases>>
-----------------------------------------------------------------------------
(* Readers, lookups and the passing of time. *)

Active(r) == lease[r].job # NoJob /\ lease[r].releases = 0

JobsWithReaders == {s \in PrunedJobs : readers[s] > 0}

\* attach_reader: so many readers of a job, so many jobs with readers.
MayRead(s) ==
    /\ readers[s] < ReaderLimit
    /\ readers[s] = 0 => Cardinality(JobsWithReaders) < MaxTerminal

AttachReader(r, s) ==
    /\ lease[r].job = NoJob
    /\ s \in PrunedJobs
    /\ MayRead(s)
    /\ Prune
    /\ lease' = [lease EXCEPT ![r].job = s]
    /\ readers' = [readers EXCEPT ![s] = @ + 1]
    /\ UNCHANGED <<req, call, jobs, counters, accepting, window, health>>

FirstRelease_Any(r) == TRUE
FirstRelease(r) == Active(r)

\* detach_reader, by the generator's end and again by the response's.
DetachReader(r) ==
    /\ lease[r].job # NoJob /\ lease[r].releases < 2
    /\ lease' = [lease EXCEPT ![r].releases = @ + 1]
    /\ LET s == lease[r].job
       IN IF FirstRelease(r)
          THEN /\ readers' = [readers EXCEPT ![s] = IF @ > 0 THEN @ - 1 ELSE @]
               /\ retained' = Kept(order, readers')
               /\ entries' = LiveEntries(retained')
          ELSE UNCHANGED <<readers, registry>>
    /\ UNCHANGED <<req, call, jobs, counters, accepting, window, health>>

\* stream_lesson_run: attached before the first byte.
StreamRun(r) == \E s \in Starts : AttachReader(r, s)

\* get, events_after and wait_for_update prune before they look.
Lookup ==
    /\ Prune
    /\ UNCHANGED <<req, call, jobs, counters, accepting, window, health, leases>>

\* Fifteen minutes pass; the job's own slot is then long gone.
Age(s) ==
    /\ \E i \in DOMAIN order : order[i] = s /\ \A j \in 1..(i-1) : order[j] \in aged
    /\ s \notin aged
    /\ \A i \in DOMAIN window[LessonOf(s)] : window[LessonOf(s)][i] # s
    /\ aged' = aged \union {s}
    /\ UNCHANGED <<req, call, job, order, registry, counters, accepting, window, health, leases>>

\* A minute passes.
SlotExpires(l) ==
    /\ window[l] # << >>
    /\ window' = [window EXCEPT ![l] = Tail(@)]
    /\ UNCHANGED <<req, call, jobs, registry, counters, accepting, health, leases>>

StartRun(s) == Malformed(s) \/ BadPayload(s) \/ Preflight(s)

Next ==
    \/ \E s \in Starts :
         \/ StartRun(s)
         \/ ValidationRefuses(s) \/ Unhealthy(s) \/ Reserve(s)
         \/ \E runnable \in BOOLEAN : Check(s, runnable)
         \/ End(s) \/ Finish(s) \/ Age(s)
    \/ \E r \in Leases : DetachReader(r) \/ StreamRun(r)
    \/ \E found \in {"up", "down"} : Probe(found)
    \/ \E l \in Lessons : SlotExpires(l)
    \/ Shutdown \/ Lookup

Spec == Init /\ [][Next]_vars
-----------------------------------------------------------------------------
(* Properties. *)

Answers == {"started", "replayed", "conflict", "missing", "down", "busy", "limited",
            "invalid", "malformed", "unavailable"}

TypeOK ==
    /\ req \in [Starts -> [lesson : Lessons, key : Keys, target : Targets]]
    /\ call \in [Starts -> {"new", "validate", "health"} \union Answers]
    /\ job \in [Starts -> {"none", "active", "terminating", "finished"}]
    /\ order \in Seq(Starts)
    /\ aged \in SUBSET Starts
    /\ retained \in SUBSET Starts
    /\ entries \in SUBSET Starts
    /\ total \in Nat
    /\ perLesson \in [Lessons -> Nat]
    /\ accepting \in BOOLEAN
    /\ window \in [Lessons -> Seq(Starts)]
    /\ health \in {"unknown", "up", "down"}
    /\ lease \in [Leases -> [job : Starts \union {NoJob}, releases : 0..2]]
    /\ readers \in [Starts -> Nat]

ActiveJobs == {s \in Starts : job[s] = "active"}

\* What admission counts is what it stands for.  The counters are the jobs
\* that hold a place, however those end, and "at most one active job per
\* lesson and two globally" holds; and only launches, failed validations and
\* starts in flight hold a slot of the rate window.
CapacityHonest ==
    /\ total = Cardinality(ActiveJobs)
    /\ total <= GlobalLimit
    /\ \A l \in Lessons :
         /\ perLesson[l] = Cardinality({s \in ActiveJobs : LessonOf(s) = l})
         /\ perLesson[l] <= LessonLimit
ChargesHonest ==
    \A l \in Lessons : \A i \in DOMAIN window[l] :
        call[window[l][i]] \in {"validate", "health", "started", "invalid"}
CountersHonest == CapacityHonest /\ ChargesHonest

\* A key launches once in its fifteen minutes, evicted or not; and a job that
\* is kept longer still answers its key.
KeyLaunchesOnce ==
    \A s, t \in Starts :
        (s # t /\ SameKey(s, t) /\ job[s] # "none" /\ job[t] # "none") => aged \cap {s, t} # {}
KeysHonest == KeyLaunchesOnce /\ retained \subseteq entries

\* A job being read is not evicted, only its readers are counted, and with
\* all of them no more than MaxTerminal finished jobs are kept.
LeasesHonest ==
    /\ \A r \in Leases : Active(r) => lease[r].job \in retained
    /\ \A s \in Starts : readers[s] = Cardinality({r \in Leases : Active(r) /\ lease[r].job = s})
    /\ Cardinality({s \in retained : job[s] = "finished"}) <= MaxTerminal

\* Shutdown ends the jobs there are; a start in its health probe then adds none.
NoLaunchAfterShutdown == [][~accepting => ActiveJobs' \subseteq ActiveJobs]_vars
=============================================================================
