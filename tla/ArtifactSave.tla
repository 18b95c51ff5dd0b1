---------------------------- MODULE ArtifactSave ----------------------------
(***************************************************************************)
(* One editor artifact of a lesson (app/services/artifacts.py): GET, the   *)
(* run snapshot and the compare-and-publish save, against direct writers   *)
(* in the bundle and a crash of the service.                               *)
(*                                                                         *)
(* A call is a thread of the one server process.  The bundle lock is held  *)
(* by the call whose pc is in Locked.  A file is its content and its       *)
(* identity (_stat_identity), one number that every change renews; a       *)
(* revision is the content it hashes.                                      *)
(***************************************************************************)
EXTENDS Integers, Sequences, FiniteSets, SequencesExt

CONSTANTS
    Calls, Texts,
    Absent,     \* no file, and the base revision "absent"
    Unsafe,     \* a link, a device, or more than MAX_FILE_BYTES
    Binary,     \* a regular file that is not UTF-8
    Torn,       \* what a read across a change would see
    RateMax,    \* RATE_MAX_PER_WINDOW
    MaxDirect,  \* bound: direct writes
    MaxCrash    \* bound: crashes

ASSUME ArtifactAssumption ==
    /\ IsFiniteSet(Calls)
    /\ Cardinality({Absent, Unsafe, Binary, Torn}) = 4
    /\ Texts \intersect {Absent, Unsafe, Binary, Torn} = {}
    /\ {RateMax, MaxDirect, MaxCrash} \subseteq Nat

VARIABLES
    file,       \* [content, id]
    call,       \* per call: request, pc, what it opened, answer
    window,     \* _rate: calls whose slot is charged
    temps,      \* staged files in the directory, by call
    events,     \* lesson_artifact_saved, by call, in ledger order
    published,  \* history: calls that replaced the file, in order
    raced,      \* history: calls overtaken by a direct write after their last check
    bound       \* [direct, crash] left

vars == <<file, call, window, temps, events, published, raced, bound>>
history == <<published, raced>>

Kinds == {"get", "run", "save"}
\* Mutant: the lock is let go before the event is recorded.
Locked_NoEvent == {"reading", "resolve", "check", "publish", "sync"}

Locked == {"reading", "resolve", "check", "publish", "sync", "event"}
Nothing == [content |-> Absent, id |-> 0]

LockFree == \A c \in Calls : call[c].pc \notin Locked

\* A change of the file takes an identity nobody holds.
FreshId ==
    LET held == {file.id} \union {call[c].opened.id : c \in Calls}
    IN CHOOSE id \in 1 .. Cardinality(Calls) + 2 : id \notin held

---------------------------------------------------------------------------
\* Answers.  The finally of a save removes its staged file.

Answered(c, answer) ==
    call' = [call EXCEPT ![c].pc = "done", ![c].answer = answer,
                         ![c].opened = Nothing]

Refuse(c, code) ==
    /\ Answered(c, code)
    /\ temps' = temps \ {c}
    /\ UNCHANGED <<file, window, events, history, bound>>

Step(c, pc) == call' = [call EXCEPT ![c].pc = pc]

---------------------------------------------------------------------------
\* Before the lock: save_artifact charges first and validates after.

Refund(c) == window' = window \ {c}

\* Mutant: off by one in the window.
Charge_Late(c) ==
    /\ call[c].pc = "new" /\ call[c].kind = "save"
    /\ IF Cardinality(window) > RateMax
       THEN Answered(c, "rate-limited") /\ UNCHANGED window
       ELSE window' = window \union {c} /\ Step(c, "queued")
    /\ UNCHANGED <<file, temps, events, history, bound>>

Charge(c) ==
    /\ call[c].pc = "new" /\ call[c].kind = "save"
    /\ IF Cardinality(window) >= RateMax
       THEN Answered(c, "rate-limited") /\ UNCHANGED window
       ELSE /\ window' = window \union {c}
            /\ \/ Step(c, "queued")
               \/ Answered(c, "invalid")
    /\ UNCHANGED <<file, temps, events, history, bound>>

\* GET has nothing to check; a run checks the form of its revision.
Arrive(c) ==
    /\ call[c].pc = "new" /\ call[c].kind # "save"
    /\ \/ Step(c, "queued")
       \/ call[c].kind = "run" /\ Answered(c, "invalid")
    /\ UNCHANGED <<file, window, temps, events, history, bound>>

---------------------------------------------------------------------------
\* Under the lock: manifest, path, and the read from one descriptor.

ManifestRefuses(c) ==
    call[c].pc = "queued" /\ LockFree /\ Refuse(c, "refused")

Open(c) ==
    /\ call[c].pc = "queued" /\ LockFree
    /\ CASE file.content = Unsafe -> Refuse(c, "unsafe-file")
         [] file.content = Absent /\ call[c].kind # "save" -> Refuse(c, "missing")
         [] OTHER ->
              /\ call' = [call EXCEPT ![c].opened = file,
                              ![c].pc = IF file.content = Absent THEN "resolve"
                                        ELSE "reading"]
              /\ UNCHANGED <<file, window, temps, events, history, bound>>

\* What the descriptor gave: bytes of two states if the file changed meanwhile.
Bytes(c) ==
    IF file.id = call[c].opened.id THEN call[c].opened.content ELSE Torn

\* Mutant: no second fstat.
ReadChanged_Never(c) == call[c].pc = "done"

\* The second fstat of _open_artifact.
ReadChanged(c) == file.id # call[c].opened.id

FinishRead(c) ==
    /\ call[c].pc = "reading"
    /\ IF ReadChanged(c)
       THEN Refuse(c, "unsafe-file")
       ELSE /\ call' = [call EXCEPT ![c].pc = "resolve",
                                    ![c].opened.content = Bytes(c)]
            /\ UNCHANGED <<file, window, temps, events, history, bound>>

\* Mutant: only the existence of the name is asked.
NameMatches_Exists(c) ==
    (call[c].opened.content = Absent) <=> (file.content = Absent)

\* _name_matches and _name_absent: the name still leads to what was read.
NameMatches(c) ==
    IF call[c].opened.content = Absent THEN file.content = Absent
    ELSE file.id = call[c].opened.id

Get(c) ==
    /\ call[c].pc = "resolve" /\ call[c].kind = "get"
    /\ IF call[c].opened.content = Binary
       THEN Refuse(c, "invalid-encoding")
       ELSE /\ call' = [call EXCEPT ![c].pc = "done", ![c].answer = "read",
                                    ![c].data = call[c].opened.content,
                                    ![c].opened = Nothing]
            /\ UNCHANGED <<file, window, temps, events, history, bound>>

\* get_run_snapshot: the verified bytes are the ones that will run.
Snapshot(c) ==
    /\ call[c].pc = "resolve" /\ call[c].kind = "run"
    /\ \/ call[c].opened.content = Binary /\ Refuse(c, "invalid-encoding")
       \/ /\ call[c].opened.content # Binary
          /\ ~NameMatches(c) \/ call[c].base # call[c].opened.content
          /\ Refuse(c, "file-conflict")
       \/ /\ NameMatches(c) /\ call[c].base = call[c].opened.content
          /\ call' = [call EXCEPT ![c].pc = "done", ![c].answer = "snapshot",
                                  ![c].data = call[c].opened.content,
                                  ![c].opened = Nothing]
          /\ UNCHANGED <<file, window, temps, events, history, bound>>

---------------------------------------------------------------------------
\* save_artifact

Same(c) == call[c].opened.content = call[c].data

Unchanged(c) ==
    /\ call[c].pc = "resolve" /\ call[c].kind = "save" /\ Same(c)
    /\ IF NameMatches(c)
       THEN /\ Answered(c, "unchanged")
            /\ Refund(c)
            /\ UNCHANGED <<file, temps, events, history, bound>>
       ELSE Refuse(c, "file-conflict")

Stage(c) ==
    /\ call[c].pc = "resolve" /\ call[c].kind = "save" /\ ~Same(c)
    /\ \/ call[c].base # call[c].opened.content /\ Refuse(c, "file-conflict")
       \/ /\ call[c].base = call[c].opened.content
          /\ \/ Step(c, "check") /\ temps' = temps \union {c}
             \/ Answered(c, "unsafe-file") /\ UNCHANGED temps
          /\ UNCHANGED <<file, window, events, history, bound>>

Check(c) ==
    /\ call[c].pc = "check"
    /\ IF NameMatches(c)
       THEN /\ Step(c, "publish")
            /\ UNCHANGED <<file, window, temps, events, history, bound>>
       ELSE Refuse(c, "file-conflict")

\* os.replace
Publish(c) ==
    /\ call[c].pc = "publish"
    /\ \/ /\ file' = [content |-> call[c].data, id |-> FreshId]
          /\ Step(c, "sync")
          /\ temps' = temps \ {c}
          /\ published' = Append(published, c)
          /\ UNCHANGED <<window, events, raced, bound>>
       \/ Refuse(c, "unsafe-file")

\* fsync of the directory: when it fails the file is already replaced.
Sync(c) ==
    /\ call[c].pc = "sync"
    /\ \/ /\ Step(c, "event")
          /\ UNCHANGED <<file, window, temps, events, history, bound>>
       \/ Refuse(c, "unsafe-file")

\* Best effort; the lock is held until the event is in the ledger or lost.
Record(c) ==
    /\ call[c].pc = "event"
    /\ Answered(c, "saved")
    /\ events' \in {Append(events, c), events}
    /\ UNCHANGED <<file, window, temps, history, bound>>

---------------------------------------------------------------------------
\* The world

SlotExpires(c) ==
    /\ c \in window
    /\ window' = window \ {c}
    /\ UNCHANGED <<file, call, temps, events, history, bound>>

\* An editor in the lesson's shell: in place, by rename, or a removal.
Direct ==
    /\ bound.direct > 0
    /\ \E content \in (Texts \union {Absent, Unsafe, Binary}) :
         /\ file.content = Absent => content # Absent
         /\ file' = [content |-> content,
                     id |-> IF content = Absent THEN 0 ELSE FreshId]
    /\ raced' = raced \union {c \in Calls : call[c].pc = "publish"}
    /\ bound' = [bound EXCEPT !.direct = @ - 1]
    /\ UNCHANGED <<call, window, temps, events, published>>

\* Threads, locks and the window are gone; the directory stays as it is.
Crash ==
    /\ bound.crash > 0
    /\ call' = [c \in Calls |->
                  IF call[c].pc \in {"new", "done"} THEN call[c]
                  ELSE [call[c] EXCEPT !.pc = "done", !.answer = "crashed",
                                       !.opened = Nothing]]
    /\ window' = {}
    /\ bound' = [bound EXCEPT !.crash = @ - 1]
    /\ UNCHANGED <<file, temps, events, history>>

---------------------------------------------------------------------------
\* A client asks with a revision it may have seen, or the literal "absent".
Requests ==
    [kind : {"save"}, data : Texts, base : Texts \union {Absent}]
        \union [kind : {"run"}, data : {Absent}, base : Texts]
        \union [kind : {"get"}, data : {Absent}, base : {Absent}]

Init ==
    /\ file \in {Nothing} \union [content : Texts, id : {1}]
    /\ \E ask \in [Calls -> Requests] :
         call = [c \in Calls |->
                   [kind |-> ask[c].kind, data |-> ask[c].data,
                    base |-> ask[c].base, pc |-> "new",
                    opened |-> Nothing, answer |-> "none"]]
    /\ window = {} /\ temps = {} /\ events = <<>>
    /\ published = <<>> /\ raced = {}
    /\ bound = [direct |-> MaxDirect, crash |-> MaxCrash]

CallStep(c) ==
    \/ Charge(c) \/ Arrive(c) \/ ManifestRefuses(c) \/ Open(c) \/ FinishRead(c)
    \/ Get(c) \/ Snapshot(c)
    \/ Unchanged(c) \/ Stage(c) \/ Check(c) \/ Publish(c) \/ Sync(c) \/ Record(c)
    \/ SlotExpires(c)

Next == (\E c \in Calls : CallStep(c)) \/ Direct \/ Crash

Spec == Init /\ [][Next]_vars

---------------------------------------------------------------------------
TypeOK ==
    /\ file.content \in Texts \union {Absent, Unsafe, Binary} /\ file.id \in Nat
    /\ \A c \in Calls :
         /\ call[c].kind \in Kinds
         /\ call[c].pc \in Locked \union {"new", "queued", "event", "done"}
         /\ call[c].base \in Texts \union {Absent}
         /\ call[c].data \in Texts \union {Absent, Torn}
    /\ window \subseteq Calls /\ Cardinality(window) <= RateMax
    /\ temps \subseteq Calls
    /\ events \in Seq(Calls) /\ published \in Seq(Calls)

\* "Conflict exclusion is strict among artifact-API writers": a save replaces
\* the very content its author named, unless a direct writer came after its
\* last check, the one window docs/lesson-artifacts-api.md leaves open.
ConflictExclusion ==
    [][\A c \in Calls :
          call[c].pc = "publish" /\ call'[c].pc = "sync" =>
              file.content = call[c].base \/ c \in raced]_vars

\* The ledger tells of saves in the order in which they replaced the file, each
\* at most once and none that did not happen; some may be missing.
EventsInSaveOrder ==
    \E place \in [DOMAIN events -> DOMAIN published] :
        /\ \A i \in DOMAIN events : published[place[i]] = events[i]
        /\ \A i, j \in DOMAIN events : i < j => place[i] < place[j]

\* What GET returns, and what a run executes, was the whole content of the
\* file at one moment; a run executes the revision it was asked for.
ReadsAreWhole ==
    \A c \in Calls :
        /\ call[c].answer \in {"read", "snapshot"} => call[c].data \in Texts
        /\ call[c].answer = "snapshot" => call[c].data = call[c].base
=============================================================================
