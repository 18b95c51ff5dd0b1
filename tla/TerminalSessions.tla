-------------------------- MODULE TerminalSessions --------------------------
(***************************************************************************)
(* The persistent terminal (app/terminal.py): shells on PTYs that outlive  *)
(* the WebSocket of the page, their registry, and the sockets that attach  *)
(* to them.  Everything runs on one event loop: an action is what a        *)
(* coroutine does between two awaits.                                      *)
(*                                                                         *)
(* A socket stands for one run of _serve_ws; `pc` is the await it is       *)
(* suspended in.  The attach lock of a session is held by the socket whose *)
(* pc is in Attaching, its send lock by the socket in "replay" or by the   *)
(* pump in "send".  PTY output is a numbered run of chunks of equal size,  *)
(* of which the ring keeps lo .. out; one frame of input has Units pieces, *)
(* each written by one os.write.  A session's idle time is a class: 0 up   *)
(* to _FORCE_GRACE, 1 up to _SESSION_TTL, 2 beyond.                        *)
(***************************************************************************)
EXTENDS Integers, Sequences, FiniteSets, SequencesExt, FiniteSetsExt

CONSTANTS
    Sockets, Sids,
    LearnerSids,    \* sids minted with the learner prefix
    Fds,            \* descriptor numbers openpty may return
    Nobody,
    MaxSessions,    \* _MAX_SESSIONS
    RingChunks,     \* _RING_BYTES, in chunks
    MaxChunks,      \* bound: output of one shell
    Units           \* bound: input of one socket

ASSUME TerminalAssumption ==
    /\ IsFiniteSet(Sockets) /\ IsFiniteSet(Sids) /\ LearnerSids \subseteq Sids
    /\ Nobody \notin Sockets \union Sids \union Fds
    /\ {MaxChunks, Units} \subseteq Nat
    /\ {MaxSessions, RingChunks} \subseteq Nat \ {0}

VARIABLES
    ses,        \* the _TermSession of each sid
    sock,       \* the _serve_ws call of each socket
    registered, \* _SESSIONS
    sized       \* per descriptor: the session whose rows and columns it got

vars == <<ses, sock, registered, sized>>

Attaching == {"boot", "announce", "snap", "replay"}
Serving == {"serve", "write", "parked", "woken", "bail", "kill"}

NoSession ==
    [st |-> "none", alive |-> FALSE, closing |-> "no", ws |-> Nobody,
     idle |-> 0, fd |-> Nobody, lo |-> 1, out |-> 0,
     pump |-> "off", pumpWs |-> Nobody, writer |-> Nobody]

NewSocket ==
    [pc |-> "new", sid |-> Nobody, open |-> FALSE, old |-> Nobody,
     left |-> Units, seen |-> <<>>]

AttachLocked(s) == \E w \in Sockets : sock[w].sid = s /\ sock[w].pc \in Attaching
SendLocked(s) ==
    \/ ses[s].pump = "send"
    \/ \E w \in Sockets : sock[w].sid = s /\ sock[w].pc = "replay"

\* Mutant: the creation lock is let go once the workspace is ready.
Creating_Preparing == {w \in Sockets : sock[w].pc = "spawn"}

\* Who holds the creation lock.
Creating == {w \in Sockets : sock[w].pc \in {"prepare", "spawn"}}

\* Descriptors that are open: until close() gives them back.
InUse(f) ==
    \E s \in Sids : ses[s].fd = f /\ ses[s].st # "none" /\ ses[s].closing # "fin"
Owns(w, s) == ses[s].ws = w

---------------------------------------------------------------------------
\* Detach and close, as transformers of the two tables.

\* _remove_writer(exc): a parked writer wakes to fail; one whose descriptor
\* was ready is on its way already and only loses its registration.
Bailed(sk, s) ==
    [w \in Sockets |->
        IF w = ses[s].writer /\ sk[w].pc = "parked"
        THEN [sk[w] EXCEPT !.pc = "bail"] ELSE sk[w]]

DetachedSession(s, w) ==
    IF Owns(w, s)
    THEN [ses EXCEPT ![s].ws = Nobody, ![s].idle = 0, ![s].writer = Nobody]
    ELSE ses
DetachedSockets(s, w) == IF Owns(w, s) THEN Bailed(sock, s) ELSE sock

\* The finally of _serve_ws: detach and return, which closes the socket.
Leave(w) ==
    LET s == sock[w].sid
    IN /\ ses' = DetachedSession(s, w)
       /\ sock' = [DetachedSockets(s, w) EXCEPT
                       ![w].pc = "done", ![w].open = FALSE, ![w].seen = <<>>]
       /\ UNCHANGED <<registered, sized>>

\* A socket that is turned away before it has a session.
TurnAway(w) ==
    sock' = [sock EXCEPT ![w].pc = "done", ![w].open = FALSE]

\* close() up to its first await, for the sessions of S.
Closing(S) ==
    [s \in Sids |->
        IF s \in S
        THEN [ses[s] EXCEPT !.st = "closed", !.closing = "hup", !.writer = Nobody]
        ELSE ses[s]]
ClosingSockets(S) ==
    [w \in Sockets |->
        IF \E s \in S : w = ses[s].writer /\ sock[w].pc = "parked"
        THEN [sock[w] EXCEPT !.pc = "bail"] ELSE sock[w]]

\* _set_winsize on whatever holds the number now; an unused one is an OSError.
Resized(s) ==
    IF InUse(ses[s].fd) THEN [sized EXCEPT ![ses[s].fd] = s] ELSE sized

---------------------------------------------------------------------------
\* _reap_idle

Idle(s, class) ==
    /\ s \in registered
    /\ ses[s].ws = Nobody
    /\ ~AttachLocked(s)
    /\ ses[s].idle >= class
Stale == {s \in Sids : Idle(s, 2)}

\* With force_oldest one session past the grace goes when none is stale; of
\* two in the same class either may be the older.
Victims ==
    IF Stale # {} THEN {Stale}
    ELSE IF \E s \in Sids : Idle(s, 1) THEN {{s} : s \in {x \in Sids : Idle(x, 1)}}
    ELSE {{}}

\* Popped at once; the task that closes them runs later.
Reaped(S) ==
    [s \in Sids |-> IF s \in S THEN [ses[s] EXCEPT !.closing = "sched"] ELSE ses[s]]

Sweep ==
    /\ Stale # {}
    /\ ses' = Reaped(Stale)
    /\ registered' = registered \ Stale
    /\ UNCHANGED <<sock, sized>>

\* Seconds pass under an attach that waits for its peer, but only once the
\* loop has run what is ready: a socket queued on a lock that was just released.
Age(s) ==
    /\ s \in registered /\ ses[s].ws = Nobody
    /\ ses[s].idle < 2
    /\ AttachLocked(s) \/ \A w \in Sockets : ~(sock[w].sid = s /\ sock[w].pc = "attach")
    /\ ses' = [ses EXCEPT ![s].idle = @ + 1]
    /\ UNCHANGED <<sock, registered, sized>>

---------------------------------------------------------------------------
\* _serve_ws: find or create the session

\* The attach lock is taken and a stale owner detached; its close is awaited.
Enter(w, s, sk, ss) ==
    LET old == ss[s].ws
    IN IF old = Nobody
       THEN /\ ses' = ss
            /\ sock' = [sk EXCEPT ![w].pc = "announce", ![w].sid = s]
       ELSE /\ ses' = [ss EXCEPT ![s].ws = Nobody, ![s].idle = 0,
                                 ![s].writer = Nobody]
            /\ sock' = [Bailed(sk, s) EXCEPT ![w].pc = "boot", ![w].sid = s,
                                             ![w].old = old]

Connect(w, sid) ==
    LET left == registered \ Stale
        swept == Reaped(Stale)
        opened == [sock EXCEPT ![w].open = TRUE]
    IN /\ sock[w].pc = "new"
       /\ registered' = left
       /\ UNCHANGED sized
       /\ \/ /\ sid \in left /\ ses[sid].st # "closed"
             /\ IF AttachLocked(sid)
                THEN /\ ses' = swept
                     /\ sock' = [opened EXCEPT ![w].pc = "attach", ![w].sid = sid]
                ELSE Enter(w, sid, opened, swept)
          \/ /\ sid \notin left /\ sid \in LearnerSids  \* stale learner session
             /\ TurnAway(w)
             /\ ses' = swept
          \/ /\ sid \notin left /\ sid \notin LearnerSids
             /\ sock' = [opened EXCEPT ![w].pc = "create"]
             /\ ses' = swept

\* _create_session, from its lock to the first await: the capacity check.
TakeCreate(w) ==
    /\ sock[w].pc = "create"
    /\ Creating = {}
    /\ \E V \in IF Cardinality(registered) >= MaxSessions THEN Victims ELSE {{}} :
        /\ registered' = registered \ V
        /\ ses' = Reaped(V)
        /\ IF Cardinality(registered \ V) >= MaxSessions
           THEN TurnAway(w)
           ELSE sock' = [sock EXCEPT ![w].pc = "prepare"]
    /\ UNCHANGED sized

\* The workspace is ready and openpty ran; a bad workspace ends the request.
Prepared(w) ==
    /\ sock[w].pc = "prepare"
    /\ \/ /\ TurnAway(w)
          /\ UNCHANGED <<ses, sized>>
       \/ \E s \in Sids, f \in Fds :
            /\ ses[s].st = "none" /\ ~InUse(f)
            /\ ses' = [ses EXCEPT ![s].st = "spawning", ![s].fd = f]
            /\ sock' = [sock EXCEPT ![w].pc = "spawn", ![w].sid = s]
            /\ sized' = [sized EXCEPT ![f] = Nobody]
    /\ UNCHANGED registered

\* The shell runs: register, remember the banner, start the pump, and go
\* straight on into the attach lock of a session nobody else knows.
Spawned(w) ==
    LET s == sock[w].sid
    IN /\ sock[w].pc = "spawn"
       /\ \/ /\ registered' = registered \union {s}
             /\ \E banner \in 0 .. Min({1, MaxChunks}) :
                  ses' = [ses EXCEPT ![s].st = "open", ![s].alive = TRUE,
                                     ![s].out = banner, ![s].pump = "read"]
             /\ sock' = [sock EXCEPT ![w].pc = "announce"]
          \/ /\ ses' = [ses EXCEPT ![s] = NoSession]
             /\ TurnAway(w)
             /\ UNCHANGED registered
       /\ UNCHANGED sized

---------------------------------------------------------------------------
\* _serve_ws: the attach

TakeAttach(w) ==
    /\ sock[w].pc = "attach"
    /\ ~AttachLocked(sock[w].sid)
    /\ Enter(w, sock[w].sid, sock, ses)
    /\ UNCHANGED <<registered, sized>>

\* Mutant: the stale socket is detached and left open.
Booted_LeftOpen(w) ==
    /\ sock[w].pc = "boot"
    /\ sock' = [sock EXCEPT ![w].pc = "announce", ![w].old = Nobody]
    /\ UNCHANGED <<ses, registered, sized>>

\* await old.close() is done: the stale socket's peer is gone.
Booted(w) ==
    /\ sock[w].pc = "boot"
    /\ sock' = [sock EXCEPT ![w].pc = "announce", ![w].old = Nobody,
                            ![sock[w].old].open = FALSE]
    /\ UNCHANGED <<ses, registered, sized>>

Announced(w) ==
    /\ sock[w].pc = "announce"
    /\ IF sock[w].open
       THEN /\ sock' = [sock EXCEPT ![w].pc = "snap"]
            /\ UNCHANGED <<ses, registered, sized>>
       ELSE Leave(w)

\* Under the send lock: snapshot and attach, with no await between them.
Snapshot(w) ==
    LET s == sock[w].sid
        ring == [i \in 1 .. (ses[s].out - ses[s].lo + 1) |-> ses[s].lo + i - 1]
    IN /\ sock[w].pc = "snap"
       /\ ~SendLocked(s)
       /\ ses' = [ses EXCEPT ![s].ws = w, ![s].idle = 0]
       /\ sock' = [sock EXCEPT ![w].seen = ring,
                               ![w].pc = IF ring = <<>> THEN "serve" ELSE "replay"]
       /\ sized' = IF ring = <<>> THEN Resized(s) ELSE sized
       /\ UNCHANGED registered

Replayed(w) ==
    /\ sock[w].pc = "replay"
    /\ IF sock[w].open
       THEN /\ sock' = [sock EXCEPT ![w].pc = "serve"]
            /\ sized' = Resized(sock[w].sid)
            /\ UNCHANGED <<ses, registered>>
       ELSE Leave(w)

\* The page goes away, or its connection breaks: seen by a send or a receive,
\* so it makes no difference earlier.
Disconnect(w) ==
    /\ sock[w].open
    /\ sock[w].pc \in {"announce", "replay"} \union (Serving \ {"kill", "bail"})
    /\ sock' = [sock EXCEPT ![w].open = FALSE]
    /\ UNCHANGED <<ses, registered, sized>>

---------------------------------------------------------------------------
\* _read_input and _write_all

\* The disconnect is received, or a frame by a socket that lost the session.
Quit(w) ==
    /\ sock[w].pc = "serve"
    /\ sock[w].open => ~Owns(w, sock[w].sid)
    /\ Leave(w)

Receives(w) == sock[w].pc = "serve" /\ sock[w].open /\ Owns(w, sock[w].sid)

\* Mutant: a frame is written before it is asked whether anything is left.
Keystrokes_Empty(w) ==
    /\ Receives(w)
    /\ sock' = [sock EXCEPT ![w].pc = "write"]
    /\ UNCHANGED <<ses, registered, sized>>

Keystrokes(w) ==
    /\ Receives(w) /\ sock[w].left > 0
    /\ sock' = [sock EXCEPT ![w].pc = "write"]
    /\ UNCHANGED <<ses, registered, sized>>

Resize(w) ==
    /\ Receives(w)
    /\ sized' = Resized(sock[w].sid)
    /\ UNCHANGED <<ses, sock, registered>>

\* Mutant: ownership is asked on entry only.
MayWrite_Unowned(w) == ses[sock[w].sid].st # "closed"

\* The two checks each turn of _write_all repeats.
MayWrite(w) == LET s == sock[w].sid IN ses[s].st # "closed" /\ Owns(w, s)

\* One turn: os.write takes a piece, or the PTY is full and the writer parks.
WriteTurn(w) ==
    /\ sock[w].pc = "write"
    /\ \/ ~MayWrite(w) /\ Leave(w)
       \/ /\ MayWrite(w)
          /\ sock' = [sock EXCEPT ![w].left = @ - 1,
                                  ![w].pc = IF sock[w].left = 1 THEN "serve" ELSE @]
          /\ UNCHANGED <<ses, registered, sized>>
       \/ /\ MayWrite(w)
          /\ sock' = [sock EXCEPT ![w].pc = "parked"]
          /\ ses' = [ses EXCEPT ![sock[w].sid].writer = w]
          /\ UNCHANGED <<registered, sized>>

\* The shell drained its input: the registered writer's future is resolved.
Writable(s) ==
    /\ ses[s].writer # Nobody /\ sock[ses[s].writer].pc = "parked"
    /\ sock' = [sock EXCEPT ![ses[s].writer].pc = "woken"]
    /\ UNCHANGED <<ses, registered, sized>>

\* The finally of the wait: only the writer's own registration is torn down.
Unregistered(s, w) == IF ses[s].writer = w THEN Nobody ELSE ses[s].writer

Resume(w) ==
    /\ sock[w].pc = "woken"
    /\ ses' = [ses EXCEPT ![sock[w].sid].writer = Unregistered(sock[w].sid, w)]
    /\ sock' = [sock EXCEPT ![w].pc = "write"]
    /\ UNCHANGED <<registered, sized>>

Bail(w) == sock[w].pc = "bail" /\ Leave(w)

\* A kill frame runs close() in the reader's task.
Kill(w) ==
    LET s == sock[w].sid
    IN /\ Receives(w)
       /\ IF ses[s].st # "closed"
          THEN /\ ses' = Closing({s})
               /\ sock' = [ClosingSockets({s}) EXCEPT ![w].pc = "kill"]
               /\ registered' = registered \ {s}
               /\ UNCHANGED sized
          ELSE Leave(w)

---------------------------------------------------------------------------
\* The pump (_run) and the shell

\* A read: remember the chunk, then pick the socket to send it to.
Output(s) ==
    LET n == ses[s].out + 1
    IN /\ ses[s].pump = "read" /\ ses[s].closing # "fin"
       /\ ses[s].out < MaxChunks
       /\ ses' = [ses EXCEPT
                    ![s].out = n,
                    ![s].lo = Max({@, n - RingChunks + 1}),
                    ![s].pump = IF ses[s].ws = Nobody THEN "read" ELSE "want",
                    ![s].pumpWs = ses[s].ws]
       /\ UNCHANGED <<sock, registered, sized>>

\* Mutant: under the send lock the chunk goes to whoever is attached now.
PumpLock_Current(s) ==
    /\ ses[s].pump = "want"
    /\ ~SendLocked(s)
    /\ ses' = [ses EXCEPT ![s].pump = IF ses[s].ws = Nobody THEN "read" ELSE "send",
                          ![s].pumpWs = ses[s].ws]
    /\ UNCHANGED <<sock, registered, sized>>

\* Ownership is asked again under the send lock.
PumpLock(s) ==
    /\ ses[s].pump = "want"
    /\ ~SendLocked(s)
    /\ ses' = IF Owns(ses[s].pumpWs, s)
              THEN [ses EXCEPT ![s].pump = "send"]
              ELSE [ses EXCEPT ![s].pump = "read", ![s].pumpWs = Nobody]
    /\ UNCHANGED <<sock, registered, sized>>

PumpSent(s) ==
    LET w == ses[s].pumpWs
    IN /\ ses[s].pump = "send" /\ sock[w].open
       /\ ses' = [ses EXCEPT ![s].pump = "read", ![s].pumpWs = Nobody]
       /\ sock' = [sock EXCEPT ![w].seen = Append(@, ses[s].out)]
       /\ UNCHANGED <<registered, sized>>

PumpFailed(s) ==
    LET w == ses[s].pumpWs
    IN /\ ses[s].pump = "send" /\ ~sock[w].open
       /\ ses' = [DetachedSession(s, w) EXCEPT ![s].pump = "read",
                                               ![s].pumpWs = Nobody]
       /\ sock' = DetachedSockets(s, w)
       /\ UNCHANGED <<registered, sized>>

ShellExit(s) ==
    /\ ses[s].alive
    /\ ses' = [ses EXCEPT ![s].alive = FALSE]
    /\ UNCHANGED <<sock, registered, sized>>

\* End of file: the pump closes the session, unless a close is under way.
EndOfFile(s) ==
    LET first == ses[s].st = "open"
        closed == IF first THEN Closing({s}) ELSE ses
    IN /\ ses[s].pump = "read" /\ ~ses[s].alive
       /\ ses' = [closed EXCEPT ![s].pump = "off"]
       /\ sock' = IF first THEN ClosingSockets({s}) ELSE sock
       /\ registered' = registered \ {s}
       /\ UNCHANGED sized

---------------------------------------------------------------------------
\* close(), after a reap or a call

CloseStart(s) ==
    /\ ses[s].closing = "sched"
    /\ ses' = Closing({s})
    /\ sock' = ClosingSockets({s})
    /\ UNCHANGED <<registered, sized>>

\* The shell ignored SIGHUP for two seconds.
CloseKill(s) ==
    /\ ses[s].closing = "hup" /\ ses[s].alive
    /\ ses' = [ses EXCEPT ![s].alive = FALSE]
    /\ UNCHANGED <<sock, registered, sized>>

\* The descriptor is given back, the pump cancelled, and the socket that is
\* attached by now closed; a killer's own reader returns.
CloseFinish(s) ==
    /\ ses[s].closing = "hup" /\ ~ses[s].alive
    /\ ses' = [ses EXCEPT ![s].closing = "fin", ![s].pump = "off",
                          ![s].pumpWs = Nobody, ![s].ws = Nobody]
    /\ sock' = [w \in Sockets |->
                  IF sock[w].pc = "kill" /\ sock[w].sid = s
                  THEN [sock[w] EXCEPT !.pc = "done", !.open = FALSE, !.seen = <<>>]
                  ELSE IF Owns(w, s) THEN [sock[w] EXCEPT !.open = FALSE]
                  ELSE sock[w]]
    /\ UNCHANGED <<registered, sized>>

\* shutdown_terminal, which the lifespan runs when no connection is left.
Shutdown ==
    /\ \A w \in Sockets : sock[w].pc = "done"
    /\ registered # {}
    /\ ses' = Closing(registered)
    /\ sock' = ClosingSockets(registered)
    /\ registered' = {}
    /\ UNCHANGED sized

---------------------------------------------------------------------------
Init ==
    /\ ses = [s \in Sids |-> NoSession]
    /\ sock = [w \in Sockets |-> NewSocket]
    /\ registered = {}
    /\ sized = [f \in Fds |-> Nobody]

\* A page asks for the sid it kept, which was minted, or for none.
Asked == {s \in Sids : ses[s].st \in {"open", "closed"}} \union {Nobody}

SocketStep(w) ==
    \/ \E sid \in Asked : Connect(w, sid)
    \/ TakeCreate(w) \/ Prepared(w) \/ Spawned(w)
    \/ TakeAttach(w) \/ Booted(w) \/ Announced(w) \/ Snapshot(w) \/ Replayed(w)
    \/ Disconnect(w)
    \/ Quit(w) \/ Keystrokes(w) \/ Resize(w) \/ WriteTurn(w) \/ Resume(w)
    \/ Bail(w) \/ Kill(w)

SessionStep(s) ==
    \/ Age(s)
    \/ Writable(s) \/ Output(s) \/ PumpLock(s) \/ PumpSent(s) \/ PumpFailed(s)
    \/ ShellExit(s) \/ EndOfFile(s)
    \/ CloseStart(s) \/ CloseKill(s) \/ CloseFinish(s)

Next ==
    \/ \E w \in Sockets : SocketStep(w)
    \/ \E s \in Sids : SessionStep(s)
    \/ Sweep \/ Shutdown

\* The loop runs what is ready; a send to a page that is gone fails, and the
\* page that attaches takes its own replay or goes.  Nothing is asked of the
\* page that is attached, nor of the shell.
Fairness ==
    /\ \A w \in Sockets :
         WF_vars(Booted(w) \/ Announced(w) \/ Snapshot(w) \/ Replayed(w))
    /\ \A s \in Sids : WF_vars(PumpLock(s)) /\ WF_vars(PumpFailed(s))

Spec == Init /\ [][Next]_vars /\ Fairness

---------------------------------------------------------------------------
TypeOK ==
    /\ \A s \in Sids :
         /\ ses[s].st \in {"none", "spawning", "open", "closed"}
         /\ ses[s].alive \in BOOLEAN
         /\ ses[s].closing \in {"no", "sched", "hup", "fin"}
         /\ {ses[s].ws, ses[s].pumpWs, ses[s].writer} \subseteq Sockets \union {Nobody}
         /\ ses[s].idle \in 0 .. 2
         /\ ses[s].fd \in Fds \union {Nobody}
         /\ ses[s].out \in 0 .. MaxChunks /\ ses[s].lo \in 1 .. MaxChunks + 1
         /\ ses[s].pump \in {"off", "read", "want", "send"}
    /\ \A w \in Sockets :
         /\ sock[w].pc \in Attaching \union Serving \union
                {"new", "create", "prepare", "spawn", "attach", "done"}
         /\ sock[w].sid \in Sids \union {Nobody}
         /\ sock[w].old \in Sockets \union {Nobody}
         /\ sock[w].left \in 0 .. Units
         /\ sock[w].seen \in Seq(1 .. MaxChunks)
    /\ registered \subseteq Sids
    /\ sized \in [Fds -> Sids \union {Nobody}]

\* What an attached page has been sent is a gapless run of the shell's output
\* with nothing twice, and it is up to date unless the pump still has the
\* last chunk in hand: replay and live output meet exactly, whichever of the
\* pump and the attach got the send lock first.
ReplayExact ==
    \A w \in Sockets, s \in Sids :
        Owns(w, s) /\ sock[w].pc # "replay" =>
            LET seen == sock[w].seen
            IN /\ \A i \in 2 .. Len(seen) : seen[i] = seen[i - 1] + 1
               /\ \/ ses[s].pumpWs = w
                  \/ Len(seen) = 0 /\ ses[s].out = 0
                  \/ Len(seen) > 0 /\ Last(seen) = ses[s].out

\* The cap counts sessions while the one being created is still preparing its
\* workspace and shell: however many pages ask at once, no more than
\* _MAX_SESSIONS are registered.  And the registry is exact: a page that asks
\* for a sid never finds a session that is being closed, and an open shell is
\* never out of reach unless its close is scheduled.
SlotsHonest ==
    /\ Cardinality(registered) <= MaxSessions
    /\ registered = {s \in Sids : ses[s].st = "open" /\ ses[s].closing = "no"}

\* Bytes reach a PTY only from the socket that owns its session at that
\* moment, however long the paste waited: the tail of a booted page's input
\* never enters the shell its successor drives.  And a writer parked on a full
\* PTY is the one registered for it and still owns an open session: no
\* hand-off leaves it asleep for good, or takes the registration of its
\* successor.
ParkedWriterIsTheOwner ==
    \A w \in Sockets :
        sock[w].pc = "parked" =>
            /\ ses[sock[w].sid].writer = w
            /\ ses[sock[w].sid].st = "open" /\ Owns(w, sock[w].sid)
InputOnlyFromOwner ==
    /\ []ParkedWriterIsTheOwner
    /\ [][\A w \in Sockets :
             sock'[w].left < sock[w].left =>
                 Owns(w, sock[w].sid) /\ ses[sock[w].sid].st = "open"]_vars

\* An attach under way ends, and the next in line gets its turn, even when the
\* page being replaced has stopped reading and the pump is stuck sending to it
\* with the send lock in hand.
AttachSettles == \A s \in Sids : AttachLocked(s) ~> ~AttachLocked(s)

\* "one PTY has one reader" (_attach_lock): the window size of an open PTY is
\* only ever set on behalf of its own session.  A page that attaches to a
\* session whose shell ends meanwhile stays attached to the closed session,
\* and its resize frames then reach whichever PTY was given the number.
PtySizedByItsOwner ==
    \A f \in Fds, s \in Sids :
        InUse(f) /\ ses[s].fd = f /\ ses[s].st = "open" /\ ses[s].closing # "fin" =>
            sized[f] \in {Nobody, s}

\* "the reaper skips a TTL-stale session whose attach handshake is in flight"
\* (verify.py): neither the sweep nor the eviction that makes room takes a
\* session that a page is attaching to or waits in line for.  The lock is free
\* for a moment when its holder leaves and the next in line has yet to run.
NeverReapedUnderAttach ==
    \A w \in Sockets, s \in Sids :
        ses[s].closing = "sched" =>
            /\ ses[s].ws = Nobody
            /\ sock[w].sid = s => sock[w].pc \notin Attaching \union {"attach"}
=============================================================================
