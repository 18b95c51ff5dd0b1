------------------------------ MODULE RunnerJob ------------------------------
(***************************************************************************)
(* One job of RunnerService (app/runner.py): its driver task, the tasks    *)
(* reading its two streams, the child process, and the cancel, timeout,    *)
(* output-limit and shutdown that race to end it.                          *)
(*                                                                         *)
(* Tasks of one event loop interleave at their awaits; each section under  *)
(* `_lock` (or `_output_lock`) has none inside and is one action.  A kill  *)
(* runs on a worker thread between two sections.  Output is counted in     *)
(* chunks against a cap of OutputLimit.  A watcher is one response of the  *)
(* stream route (app/main.py), following the job's records by cursor.      *)
(***************************************************************************)
EXTENDS Integers, Sequences

CONSTANTS
    Streams,        \* stdout and stderr
    Watchers,       \* stream responses open on the job
    OutputLimit,    \* chunks the job may retain
    MaxChunks       \* bound: chunks one stream produces

ASSUME JobAssumption == OutputLimit \in Nat /\ MaxChunks \in Nat /\ "cancel" \notin Streams

Causes == {"exit", "signal", "timeout", "cancelled", "output-limit", "spawn-failed", "shutdown"}

VARIABLES
    state, cause, events,
    released,   \* times the reservation was given back
    truncated,
    reaped,     \* job.process_reaped
    adopted,    \* job.process is set
    child,      \* the process: none, alive, dead, or collected by the loop
    driver,     \* where _drive_job is
    stream,     \* stream[s]: [pc, read, eof]; eof is stdout_eof / stderr_eof
    killers,    \* who has a kill on a worker thread: cancel, shutdown, a stream
    acked,      \* a cancel was answered True
    shutdown,   \* where shutdown() is with this job
    hook,       \* the finish hook's task: none, running or done
    watch,      \* watch[w]: [pc, cursor] of a stream response
    recorded,   \* job.event_recorded
    client      \* who polls and cancels: [pc, told], told the event_recorded
                \* of an answer that says FINISHED

control == <<driver, stream, killers>>
job == <<state, cause, events, released, truncated, reaped, adopted>>
status == <<recorded, client>>
vars == <<job, child, control, acked, shutdown, hook, watch, status>>

Init ==
    /\ state = "STARTING" /\ cause = "none" /\ events = << >>
    /\ released = 0 /\ truncated = FALSE /\ reaped = FALSE /\ adopted = FALSE
    /\ child = "none"
    /\ driver = "drive"
    /\ stream = [s \in Streams |-> [pc |-> "none", read |-> 0, eof |-> FALSE]]
    /\ killers = {}
    /\ acked = FALSE
    /\ shutdown = "no"
    /\ hook = "none"
    /\ watch = [w \in Watchers |-> [pc |-> "poll", cursor |-> 0]]
    /\ recorded = FALSE
    /\ client = [pc |-> "idle", told |-> "none"]
-----------------------------------------------------------------------------
(* The sections under the lock, as functions of the job they find:         *)
(* j = [state, cause, released, events, hook, reaped].                     *)

Job == [state |-> state, cause |-> cause, released |-> released, events |-> events,
        hook |-> hook, reaped |-> reaped]

\* The first cause wins.
Wins(j) == j.cause = "none"

Begin_UnknownCause(j, c) ==
    [j EXCEPT !.state = "TERMINATING", !.cause = "killed", !.released = @ + 1]
\* _begin_termination_locked, with _release_locked.
Begin(j, c) ==
    IF Wins(j)
    THEN [j EXCEPT !.state = "TERMINATING", !.cause = c, !.released = @ + 1]
    ELSE j

Complete_OneStream(j, eof) == j.state = "TERMINATING" /\ j.reaped /\ \E s \in Streams : eof[s]
Complete(j, eof) == j.state = "TERMINATING" /\ j.reaped /\ \A s \in Streams : eof[s]

\* _finish_locked.
Finish(j, eof) ==
    IF Complete(j, eof)
    THEN [j EXCEPT !.state = "FINISHED", !.events = Append(@, "exit"), !.hook = "running"]
    ELSE j

EOF == [s \in Streams |-> stream[s].eof]
AllEOF == [s \in Streams |-> TRUE]

\* _notify_waiters: everyone waiting looks again.
Notified == [w \in Watchers |-> [watch[w] EXCEPT !.pc = IF @ = "wait" THEN "poll" ELSE @]]

\* Whatever appends a record notifies.
Notify == watch' = IF events' # events THEN Notified ELSE watch

Becomes(j) ==
    /\ state' = j.state /\ cause' = j.cause /\ released' = j.released
    /\ events' = j.events /\ hook' = j.hook /\ reaped' = j.reaped
    /\ Notify
-----------------------------------------------------------------------------
(* _drive_job *)

\* A job ended before it was driven needs no process.
Drive ==
    /\ driver = "drive"
    /\ IF state # "STARTING"
       THEN /\ Becomes(Finish([Job EXCEPT !.reaped = TRUE], AllEOF))
            /\ stream' = [s \in Streams |-> [stream[s] EXCEPT !.eof = TRUE]]
            /\ driver' = "done"
       ELSE /\ driver' = "spawn"
            /\ UNCHANGED <<stream, hook, watch, state, cause, events, released, reaped>>
    /\ UNCHANGED <<truncated, adopted, child, killers, acked, shutdown, status>>

SpawnFails ==
    /\ driver = "spawn"
    /\ Becomes(Finish([Begin(Job, "spawn-failed") EXCEPT !.reaped = TRUE], AllEOF))
    /\ stream' = [s \in Streams |-> [stream[s] EXCEPT !.eof = TRUE]]
    /\ driver' = "done"
    /\ UNCHANGED <<truncated, adopted, child, killers, acked, shutdown, status>>

Spawn ==
    /\ driver = "spawn"
    /\ child' = "alive"
    /\ driver' = "adopt"
    /\ UNCHANGED <<job, stream, killers, acked, shutdown, hook, watch, status>>

KillNow_Cancelled == cause = "cancelled"
\* The job was ended while its process was being spawned.
KillNow == state # "STARTING"

Adopt ==
    /\ driver = "adopt"
    /\ adopted' = TRUE
    /\ driver' = IF KillNow THEN "kill" ELSE "read"
    /\ state' = IF state = "STARTING" THEN "RUNNING" ELSE state
    /\ UNCHANGED <<cause, events, released, truncated, reaped, child, stream, killers,
                   acked, shutdown, hook, watch, status>>

Kill == child' = IF child = "alive" THEN "dead" ELSE child

DriverKills ==
    /\ driver \in {"kill", "timeout"}
    /\ Kill
    /\ driver' = IF driver = "kill" THEN "read" ELSE "rewait"
    /\ UNCHANGED <<job, stream, killers, acked, shutdown, hook, watch, status>>

StartReaders ==
    /\ driver = "read"
    /\ stream' = [s \in Streams |-> [stream[s] EXCEPT !.pc = "read"]]
    /\ driver' = "wait"
    /\ UNCHANGED <<job, child, killers, acked, shutdown, hook, watch, status>>

\* The wall clock, or the cancellation of the driver task itself.
Interrupt(c) ==
    /\ driver = "wait"
    /\ Becomes(Begin(Job, c))
    /\ driver' = IF Wins(Job) \/ c = "shutdown" THEN "timeout" ELSE "rewait"
    /\ UNCHANGED <<truncated, adopted, child, stream, killers, acked, shutdown, status>>

\* process.wait() returns; process_reaped is set in a section of its own.
Reap ==
    /\ driver \in {"wait", "rewait"}
    /\ child = "collected"
    /\ reaped' = TRUE
    /\ driver' = "record"
    /\ UNCHANGED <<state, cause, events, released, truncated, adopted, child, stream,
                   killers, acked, shutdown, hook, watch, status>>

Record(c) ==
    /\ driver = "record"
    /\ Becomes(Finish(Begin(Job, c), EOF))
    /\ driver' = "gather"
    /\ UNCHANGED <<truncated, adopted, child, stream, killers, acked, shutdown, status>>

Gather ==
    /\ driver = "gather"
    /\ \A s \in Streams : stream[s].pc = "done"
    /\ Becomes(Finish(Job, EOF))
    /\ driver' = "done"
    /\ UNCHANGED <<truncated, adopted, child, stream, killers, acked, shutdown, status>>
-----------------------------------------------------------------------------
(* _read_stream *)

OutputEvents == Len(SelectSeq(events, LAMBDA e : e = "output"))

\* A chunk is admitted up to the cap; the rest is drained and truncated.
ReadChunk(s) ==
    /\ stream[s].pc = "read"
    /\ stream[s].read < MaxChunks
    /\ IF OutputEvents < OutputLimit
       THEN /\ events' = Append(events, "output")
            /\ stream' = [stream EXCEPT ![s].read = @ + 1]
            /\ UNCHANGED truncated
       ELSE /\ truncated' = TRUE
            /\ stream' = [stream EXCEPT ![s].read = @ + 1, ![s].pc = "overflow"]
            /\ UNCHANGED events
    /\ Notify
    /\ UNCHANGED <<state, cause, released, reaped, adopted, child, driver, killers, acked,
                   shutdown, hook, status>>

Overflow(s) ==
    /\ stream[s].pc = "overflow"
    /\ Becomes(Begin(Job, "output-limit"))
    /\ killers' = IF Wins(Job) THEN killers \union {s} ELSE killers
    /\ stream' = [stream EXCEPT ![s].pc = IF Wins(Job) THEN "killing" ELSE "read"]
    /\ UNCHANGED <<truncated, adopted, child, driver, acked, shutdown, status>>

\* read() raises OSError or ValueError.
ReadFails(s) ==
    /\ stream[s].pc = "read"
    /\ Becomes(Begin(Job, "spawn-failed"))
    /\ killers' = IF Wins(Job) THEN killers \union {s} ELSE killers
    /\ stream' = [stream EXCEPT ![s].pc = IF Wins(Job) THEN "dying" ELSE "closing"]
    /\ UNCHANGED <<truncated, adopted, child, driver, acked, shutdown, status>>

\* The pipe is at its end: the child closed it or died, or shutdown closed
\* the transport.  A character cut in two is flushed as one more record.
ReadEnd(s, tail) ==
    /\ stream[s].pc = "read"
    /\ events' = IF tail THEN Append(events, "output") ELSE events
    /\ stream' = [stream EXCEPT ![s].pc = "closing"]
    /\ Notify
    /\ UNCHANGED <<state, cause, released, truncated, reaped, adopted, child, driver,
                   killers, acked, shutdown, hook, status>>

CloseStream(s) ==
    /\ stream[s].pc = "closing"
    /\ stream' = [stream EXCEPT ![s].pc = "done", ![s].eof = TRUE]
    /\ Becomes(Finish(Job, [EOF EXCEPT ![s] = TRUE]))
    /\ UNCHANGED <<truncated, adopted, child, driver, killers, acked, shutdown, status>>

\* The worker thread of a stream's kill returns.
StreamKills(s) ==
    /\ s \in killers
    /\ Kill
    /\ killers' = killers \ {s}
    /\ stream' = [stream EXCEPT ![s].pc = IF @ = "killing" THEN "read" ELSE "closing"]
    /\ UNCHANGED <<job, driver, acked, shutdown, hook, watch, status>>
-----------------------------------------------------------------------------
(* cancel, shutdown and the child. *)

\* cancel() finds the job over, or its child already collected.
Over == state = "FINISHED" \/ reaped \/ (adopted /\ child = "collected")

Cancel ==
    IF Over
    THEN UNCHANGED <<state, cause, released, events, hook, reaped, watch, acked, killers>>
    ELSE /\ Becomes(Begin(Job, "cancelled"))
         /\ acked' = (acked \/ Wins(Job))
         /\ killers' = IF Wins(Job) /\ adopted THEN killers \union {"cancel"} ELSE killers

CancelLessonRun ==
    /\ client.pc = "idle"
    /\ Cancel
    /\ client' = [client EXCEPT !.pc = "ask"]
    /\ UNCHANGED <<truncated, adopted, child, driver, stream, shutdown, recorded>>

CancelKills ==
    /\ "cancel" \in killers
    /\ Kill
    /\ killers' = killers \ {"cancel"}
    /\ UNCHANGED <<job, driver, stream, acked, shutdown, hook, watch, status>>

\* shutdown(): ends the job, kills it if it has a process, waits for its task
\* and then for the finish hook.
Shutdown ==
    /\ shutdown = "no"
    /\ IF state = "FINISHED"
       THEN /\ shutdown' = "hooks"
            /\ UNCHANGED <<state, cause, released, events, hook, reaped, watch>>
       ELSE /\ shutdown' = IF adopted THEN "kill" ELSE "join"
            /\ Becomes(Begin(Job, "shutdown"))
    /\ UNCHANGED <<truncated, adopted, child, control, acked, status>>

ShutdownKills ==
    /\ shutdown = "kill"
    /\ Kill
    /\ shutdown' = "join"
    /\ UNCHANGED <<job, control, acked, hook, watch, status>>

ShutdownReturns ==
    /\ shutdown = "hooks" \/ (shutdown = "join" /\ driver = "done")
    /\ hook # "running"
    /\ shutdown' = "returned"
    /\ UNCHANGED <<job, child, control, acked, hook, watch, status>>

\* _notify_finish: the lesson_run event is attempted, and may fail.
RunHook(ok) ==
    /\ hook = "running"
    /\ hook' = "done"
    /\ recorded' = ok
    /\ watch' = Notified
    /\ UNCHANGED <<job, child, control, acked, shutdown, client>>

ChildExits ==
    /\ child = "alive"
    /\ child' = "dead"
    /\ UNCHANGED <<job, control, acked, shutdown, hook, watch, status>>

\* The event loop learns of the exit: process.returncode is set.
Collect ==
    /\ child = "dead"
    /\ child' = "collected"
    /\ UNCHANGED <<job, control, acked, shutdown, hook, watch, status>>

-----------------------------------------------------------------------------
(* The stream route, one response per watcher. *)

Missed_Unchecked(w) == FALSE
\* wait_for_update looks again under the lock before it registers a waiter.
Missed(w) == state = "FINISHED" \/ watch[w].cursor < Len(events)

\* events_after: the batch and the state in one section; the records are sent.
Poll(w) ==
    /\ watch[w].pc = "poll"
    /\ watch' = [watch EXCEPT ![w] =
                   [pc |-> IF state = "FINISHED" THEN "done" ELSE "register",
                    cursor |-> Len(events)]]
    /\ UNCHANGED <<job, child, control, acked, shutdown, hook, status>>

Register(w) ==
    /\ watch[w].pc = "register"
    /\ watch' = [watch EXCEPT ![w].pc = IF Missed(w) THEN "poll" ELSE "wait"]
    /\ UNCHANGED <<job, child, control, acked, shutdown, hook, status>>

\* 15 idle seconds: a keepalive is sent and the records are looked at again.
Keepalive(w) ==
    /\ watch[w].pc = "wait"
    /\ watch' = [watch EXCEPT ![w].pc = "poll"]
    /\ UNCHANGED <<job, child, control, acked, shutdown, hook, status>>

-----------------------------------------------------------------------------
(* The status routes, as one client uses them. *)

Attempted_Ignored == TRUE
\* A job that is over is told of once its event has been attempted.
Attempted == state = "FINISHED" => hook = "done"

\* status_view.
Told == [pc |-> "idle", told |-> IF state # "FINISHED" THEN client.told ELSE IF recorded THEN "yes" ELSE "no"]

GetLessonRun ==
    /\ client.pc = "idle"
    /\ client' = IF Attempted THEN Told ELSE [client EXCEPT !.pc = "await"]
    /\ UNCHANGED <<job, child, control, acked, shutdown, hook, watch, recorded>>

\* The end of either route: after the kill, if the cancel had one to do, and
\* after event_attempted, if the job is over.
AnswerStatus ==
    /\ client.pc = "await" \/ (client.pc = "ask" /\ "cancel" \notin killers)
    /\ Attempted
    /\ client' = Told
    /\ UNCHANGED <<job, child, control, acked, shutdown, hook, watch, recorded>>

-----------------------------------------------------------------------------
\* The job is over and the service down: nothing is left to do.
Rest ==
    /\ driver = "done" /\ hook = "done" /\ killers = {} /\ shutdown = "returned"
    /\ client.pc = "idle"
    /\ \A w \in Watchers : watch[w].pc = "done"

Driver ==
    \/ Drive \/ Spawn \/ SpawnFails \/ Adopt \/ DriverKills \/ StartReaders
    \/ Interrupt("timeout") \/ Reap
    \/ \E c \in {"exit", "signal"} : Record(c)
    \/ Gather

Reader(s) ==
    \/ ReadChunk(s) \/ Overflow(s) \/ ReadFails(s) \/ CloseStream(s) \/ StreamKills(s)
    \/ \E tail \in BOOLEAN : ReadEnd(s, tail)

Next ==
    \/ Driver \/ Interrupt("shutdown")
    \/ \E s \in Streams : Reader(s)
    \/ CancelLessonRun \/ CancelKills \/ GetLessonRun \/ AnswerStatus
    \/ Shutdown \/ ShutdownKills \/ ShutdownReturns
    \/ ChildExits \/ Collect
    \/ \E ok \in BOOLEAN : RunHook(ok)
    \/ \E w \in Watchers : Poll(w) \/ Register(w) \/ Keepalive(w)
    \/ Rest /\ UNCHANGED vars

\* The loop runs every ready task, the pool every thread, the wall clock fires
\* and the sandbox's pid namespace ends the pipes of a dead child.  Nothing
\* makes a child exit, a client cancel or the service shut down.
Fairness ==
    /\ WF_vars(Driver)
    /\ \A s \in Streams :
         /\ WF_vars(Overflow(s) \/ CloseStream(s) \/ StreamKills(s))
         /\ WF_vars(child \in {"dead", "collected"} /\ \E tail \in BOOLEAN : ReadEnd(s, tail))
    /\ WF_vars(CancelKills) /\ WF_vars(ShutdownKills) /\ WF_vars(ShutdownReturns)
    /\ WF_vars(\E ok \in BOOLEAN : RunHook(ok)) /\ WF_vars(Collect) /\ WF_vars(AnswerStatus)
    /\ \A w \in Watchers : WF_vars(Poll(w) \/ Register(w))

Spec == Init /\ [][Next]_vars /\ Fairness
-----------------------------------------------------------------------------
(* Properties. *)

TypeOK ==
    /\ state \in {"STARTING", "RUNNING", "TERMINATING", "FINISHED"}
    /\ cause \in Causes \union {"none"}
    /\ events \in Seq({"output", "exit"})
    /\ released \in Nat
    /\ truncated \in BOOLEAN /\ reaped \in BOOLEAN /\ adopted \in BOOLEAN
    /\ child \in {"none", "alive", "dead", "collected"}
    /\ driver \in {"drive", "spawn", "adopt", "kill", "read", "wait", "timeout", "rewait",
                   "record", "gather", "done"}
    /\ stream \in [Streams ->
         [pc : {"none", "read", "overflow", "killing", "dying", "closing", "done"},
          read : 0..MaxChunks, eof : BOOLEAN]]
    /\ killers \subseteq Streams \union {"cancel"}
    /\ acked \in BOOLEAN
    /\ shutdown \in {"no", "kill", "join", "hooks", "returned"}
    /\ hook \in {"none", "running", "done"}
    /\ watch \in [Watchers -> [pc : {"poll", "register", "wait", "done"}, cursor : Nat]]
    /\ recorded \in BOOLEAN
    /\ client \in [pc : {"idle", "ask", "await"}, told : {"none", "yes", "no"}]

Promise == INSTANCE RunnerJobPromise

\* First cause wins, the records stop with exactly one exit record.
PromiseKept == Promise!Spec

KillUnderWay == killers # {} \/ driver \in {"kill", "timeout"} \/ shutdown = "kill"

\* Claims, kills and the child's own end race.  No kill is sent before its sender
\* holds the cause; a job that was ended has no process that nobody is to kill,
\* whether it was spawned, adopted or dying when it was claimed; an acknowledged
\* cancel is not left to others, unless the driver has the process still to
\* adopt; and a natural cause is that of a child whose exit has been collected,
\* so that what a cancel, a timeout or the shutdown killed is never said to have
\* ended by itself.
KillFollowsClaim ==
    /\ KillUnderWay => cause # "none"
    /\ cause # "none" /\ child = "alive" => KillUnderWay \/ driver = "adopt"
    /\ acked /\ child = "alive" => "cancel" \in killers \/ driver \in {"adopt", "kill"}
    /\ cause \in {"exit", "signal"} => child = "collected"

\* A cancel answered True ends the job as cancelled; a finished job leaves no
\* process behind, whoever ended it and whenever; and what a client is told of
\* a finished job's record in the ledger is never told differently later.
CancelHonoured == acked => cause = "cancelled"
FinishedMeansDead == state = "FINISHED" => child \in {"none", "collected"}
StatusIsFinal == client.told # "none" => hook = "done" /\ (client.told = "yes" <=> recorded)
EndingHonest == CancelHonoured /\ FinishedMeansDead /\ StatusIsFinal

\* The wall clock bounds every job, whatever races to end it; shutdown()
\* converges; no wakeup is lost, a response ends without the help of a
\* keepalive; and every cancel and every status request is answered.  A job
\* stays finished, a response over and a shutdown returned: again and again
\* all of it has ended, or was never begun.
EverythingEnds ==
    []<>(/\ state = "FINISHED"
         /\ \A w \in Watchers : watch[w].pc = "done"
         /\ shutdown \in {"no", "returned"}
         /\ client.pc = "idle")
=============================================================================
