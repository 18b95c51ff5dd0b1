--------------------------- MODULE RunnerJobPromise ---------------------------
(***************************************************************************)
(* What a runner job promises those who watch it (app/runner.py and its    *)
(* stream route): one terminal cause, the first one; records in order; one *)
(* terminal record, the last.                                              *)
(***************************************************************************)
EXTENDS Sequences

CONSTANT Causes

VARIABLES
    state,      \* STARTING, RUNNING, TERMINATING or FINISHED
    cause,      \* the terminal cause, "none" before there is one
    events      \* the records every reader of the job's stream sees

Init == state = "STARTING" /\ cause = "none" /\ events = << >>

Run ==
    /\ state = "STARTING"
    /\ state' = "RUNNING"
    /\ UNCHANGED <<cause, events>>

Terminate(c) ==
    /\ state \in {"STARTING", "RUNNING"}
    /\ state' = "TERMINATING"
    /\ cause' = c
    /\ UNCHANGED events

Output ==
    /\ state # "FINISHED"
    /\ events' = Append(events, "output")
    /\ UNCHANGED <<state, cause>>

Finish ==
    /\ state = "TERMINATING"
    /\ state' = "FINISHED"
    /\ events' = Append(events, "exit")
    /\ UNCHANGED cause

\* Two transitions the service makes in one critical section.
TerminateAndFinish(c) ==
    /\ state \in {"STARTING", "RUNNING"}
    /\ state' = "FINISHED"
    /\ cause' = c
    /\ events' = Append(events, "exit")

Next ==
    \/ Run \/ Output \/ Finish
    \/ \E c \in Causes : Terminate(c) \/ TerminateAndFinish(c)

Spec == Init /\ [][Next]_<<state, cause, events>>
=============================================================================
