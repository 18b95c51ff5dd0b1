----------------------- MODULE TerminalSessionsProofs -----------------------
(* Proofs about TerminalSessions, for any sockets, sids, descriptors and    *)
(* bounds: the registry and its cap, replay meeting live output, and input  *)
(* reaching a shell only from the socket that owns it.                      *)
EXTENDS TerminalSessions, FiniteSetTheorems, TLAPS

Sid == Sids \union {Nobody}
Peer == Sockets \union {Nobody}
SessionRecord ==
    [st : {"none", "spawning", "open", "closed"}, alive : BOOLEAN,
     closing : {"no", "sched", "hup", "fin"}, ws : Peer, idle : 0 .. 2,
     fd : Fds \union {Nobody}, lo : 1 .. MaxChunks + 1, out : 0 .. MaxChunks,
     pump : {"off", "read", "want", "send"}, pumpWs : Peer, writer : Peer]
Seated == Attaching \union Serving
SocketRecord ==
    [pc : Seated \union {"new", "create", "prepare", "spawn", "attach", "done"},
     sid : Sid, open : BOOLEAN, old : Peer, left : 0 .. Units, seen : Seq(1 .. MaxChunks)]

Types ==
    /\ ses \in [Sids -> SessionRecord]
    /\ sock \in [Sockets -> SocketRecord]
    /\ registered \subseteq Sids
    /\ sized \in [Fds -> Sid]

\* Which session a socket is in, how far that session has come, and what is
\* left to write.
SeatHonest(w) ==
    /\ sock[w].pc \in {"new", "create", "prepare"} => sock[w].sid = Nobody
    /\ sock[w].pc = "spawn" => sock[w].sid \in Sids /\ ses[sock[w].sid].st = "spawning"
    /\ sock[w].pc \in Seated \union {"attach"} =>
         sock[w].sid \in Sids /\ ses[sock[w].sid].st \in {"open", "closed"}
    /\ sock[w].pc \in {"write", "parked", "woken"} => sock[w].left > 0

\* The attach lock of a session has one holder.
AttachLock ==
    \A v, w \in Sockets :
        sock[v].pc \in Attaching /\ sock[w].pc \in Attaching /\ sock[v].sid = sock[w].sid => v = w

Seats == AttachLock /\ \A w \in Sockets : SeatHonest(w)

\* So has the creation lock, and there is room for the session being created.
Creation ==
    /\ \A v, w \in Creating : v = w
    /\ Cardinality(registered) <= MaxSessions
    /\ Creating # {} => Cardinality(registered) < MaxSessions

Listed(s) == ses[s].st = "open" /\ ses[s].closing = "no"
Registry ==
    /\ \A s \in Sids :
         /\ (ses[s].closing \in {"hup", "fin"}) <=> (ses[s].st = "closed")
         /\ ses[s].closing = "sched" => ses[s].st = "open"
    /\ registered = {s \in Sids : Listed(s)}

\* Who owns a session is seated in it, past its snapshot; and so was the page
\* the pump has a chunk for.
Owners ==
    \A s \in Sids :
        /\ ses[s].ws # Nobody =>
             sock[ses[s].ws].sid = s /\ sock[ses[s].ws].pc \in {"replay"} \union Serving
        /\ ses[s].pumpWs # Nobody =>
             /\ sock[ses[s].pumpWs].sid = s
             /\ sock[ses[s].pumpWs].pc \in {"replay", "done"} \union Serving
        /\ (ses[s].pumpWs # Nobody) <=> (ses[s].pump \in {"want", "send"})
        /\ ses[s].st \in {"none", "spawning"} =>
             /\ ses[s].ws = Nobody /\ ses[s].pumpWs = Nobody /\ ses[s].pump = "off"
             /\ ses[s].lo = 1 /\ ses[s].out = 0
Handover ==
    \A w \in Sockets : sock[w].pc \in {"boot", "announce", "snap"} => ses[sock[w].sid].ws = Nobody

\* The ring holds the last chunk, and a chunk in hand is one.
Ring ==
    \A s \in Sids :
        /\ ses[s].lo > ses[s].out => ses[s].lo = 1 /\ ses[s].out = 0
        /\ ses[s].pumpWs # Nobody => ses[s].out > 0

Gapless(seen) == \A i \in 2 .. Len(seen) : seen[i] = seen[i - 1] + 1
EndsAt(seen, n) == IF seen = <<>> THEN n = 0 ELSE seen[Len(seen)] = n

\* What the owner has been sent ends with the output, but for the chunk the
\* pump has for it.
Shown ==
    \A s \in Sids :
        LET w == ses[s].ws
        IN w # Nobody =>
              /\ Gapless(sock[w].seen)
              /\ EndsAt(sock[w].seen, IF ses[s].pumpWs = w THEN ses[s].out - 1 ELSE ses[s].out)

IInv ==
    /\ Types /\ Seats /\ Creation /\ Registry
    /\ Owners /\ Handover /\ Ring /\ Shown
    /\ ParkedWriterIsTheOwner
-----------------------------------------------------------------------------
(* Records before and after. *)

KeepsLife(q, r) == q.st = r.st /\ q.closing = r.closing
KeepsPump(q, r) == q.lo = r.lo /\ q.out = r.out /\ q.pump = r.pump /\ q.pumpWs = r.pumpWs
KeepsOwner(q, r) == q.ws = r.ws /\ q.writer = r.writer
KeepsSession(q, r) == KeepsLife(q, r) /\ KeepsPump(q, r) /\ KeepsOwner(q, r)
KeepsSeat(q, r) == q.sid = r.sid /\ q.left = r.left /\ q.seen = r.seen

\* A socket that only goes on to another await.
Goes(r, pc) == [r EXCEPT !.pc = pc]
\* One that leaves, and one that is turned away.
Left(r) == [r EXCEPT !.pc = "done", !.open = FALSE, !.seen = <<>>]
Turned(r) == [r EXCEPT !.pc = "done", !.open = FALSE]
\* A session without its owner, and one whose close has begun.
Freed(r) == [r EXCEPT !.ws = Nobody, !.idle = 0, !.writer = Nobody]
Shut(r) == [r EXCEPT !.st = "closed", !.closing = "hup", !.writer = Nobody]
Due(r) == [r EXCEPT !.closing = "sched"]

Pcs == Seated \union {"new", "create", "prepare", "spawn", "attach", "done"}

LEMMA Socket ==
  ASSUME NEW r \in SocketRecord
  PROVE  /\ \A pc \in Pcs : Goes(r, pc) \in SocketRecord /\ Goes(r, pc).pc = pc /\ KeepsSeat(Goes(r, pc), r)
         /\ Left(r) \in SocketRecord /\ Left(r).pc = "done" /\ Left(r).seen = <<>>
         /\ Left(r).sid = r.sid /\ Left(r).left = r.left
         /\ Turned(r) \in SocketRecord /\ Turned(r).pc = "done" /\ KeepsSeat(Turned(r), r)
<1>1. \A pc \in Pcs : Goes(r, pc) \in SocketRecord
  BY DEF Goes, SocketRecord, Pcs
<1>2. \A pc \in Pcs : Goes(r, pc).pc = pc /\ KeepsSeat(Goes(r, pc), r)
  BY DEF Goes, SocketRecord, KeepsSeat
<1>3. Left(r) \in SocketRecord
  <2>1. <<>> \in Seq(1 .. MaxChunks)
    OBVIOUS
  <2> DEFINE chunks == Seq(1 .. MaxChunks)
  <2>2. SocketRecord = [pc : Pcs, sid : Sid, open : BOOLEAN, old : Peer, left : 0 .. Units, seen : chunks]
    BY DEF SocketRecord, Pcs
  <2> HIDE DEF chunks
  <2>3. <<>> \in chunks
    BY <2>1 DEF chunks
  <2> QED
    BY <2>2, <2>3 DEF Left, Pcs
<1>4. /\ Left(r).pc = "done" /\ Left(r).seen = <<>>
      /\ Left(r).sid = r.sid /\ Left(r).left = r.left
  BY DEF Left, SocketRecord
<1>5. Turned(r) \in SocketRecord /\ Turned(r).pc = "done" /\ KeepsSeat(Turned(r), r)
  BY DEF Turned, SocketRecord, KeepsSeat
<1> QED
  BY <1>1, <1>2, <1>3, <1>4, <1>5

LEMMA GoesTo ==
  ASSUME NEW r \in SocketRecord, NEW pc \in Pcs
  PROVE  /\ Goes(r, pc) \in SocketRecord /\ Goes(r, pc).pc = pc
         /\ Goes(r, pc).sid = r.sid /\ Goes(r, pc).left = r.left /\ Goes(r, pc).seen = r.seen
BY Socket DEF KeepsSeat

LEMMA Session ==
  ASSUME NEW r \in SessionRecord
  PROVE  /\ Freed(r) \in SessionRecord /\ Freed(r).ws = Nobody /\ Freed(r).writer = Nobody
         /\ KeepsLife(Freed(r), r) /\ KeepsPump(Freed(r), r)
         /\ Shut(r) \in SessionRecord /\ Shut(r).st = "closed" /\ Shut(r).closing = "hup"
         /\ Shut(r).ws = r.ws /\ Shut(r).writer = Nobody /\ KeepsPump(Shut(r), r)
         /\ Due(r) \in SessionRecord /\ Due(r).st = r.st /\ Due(r).closing = "sched"
         /\ KeepsOwner(Due(r), r) /\ KeepsPump(Due(r), r)
<1>1. Nobody \in Peer
  BY DEF Peer
<1>2. Freed(r) \in SessionRecord
  <2> DEFINE idles == 0 .. 2
  <2>1. 0 \in idles /\ SessionRecord =
          [st : {"none", "spawning", "open", "closed"}, alive : BOOLEAN,
           closing : {"no", "sched", "hup", "fin"}, ws : Peer, idle : idles,
           fd : Fds \union {Nobody}, lo : 1 .. MaxChunks + 1, out : 0 .. MaxChunks,
           pump : {"off", "read", "want", "send"}, pumpWs : Peer, writer : Peer]
    BY DEF SessionRecord
  <2> HIDE DEF idles
  <2> QED
    BY <1>1, <2>1 DEF Freed
<1>3. /\ Freed(r).ws = Nobody /\ Freed(r).writer = Nobody
      /\ KeepsLife(Freed(r), r) /\ KeepsPump(Freed(r), r)
  BY DEF Freed, SessionRecord, KeepsLife, KeepsPump
<1>4. Shut(r) \in SessionRecord
  BY <1>1 DEF Shut, SessionRecord
<1>5. /\ Shut(r).st = "closed" /\ Shut(r).closing = "hup"
      /\ Shut(r).ws = r.ws /\ Shut(r).writer = Nobody /\ KeepsPump(Shut(r), r)
  BY DEF Shut, SessionRecord, KeepsPump
<1>6. Due(r) \in SessionRecord
  BY DEF Due, SessionRecord
<1>7. /\ Due(r).st = r.st /\ Due(r).closing = "sched"
      /\ KeepsOwner(Due(r), r) /\ KeepsPump(Due(r), r)
  BY DEF Due, SessionRecord, KeepsOwner, KeepsPump
<1> QED
  BY <1>2, <1>3, <1>4, <1>5, <1>6, <1>7
-----------------------------------------------------------------------------
(* What keeps each part of the invariant. *)

\* Sockets that keep their session and go on within their stage.
Walks ==
    \A v \in Sockets :
        /\ sock'[v].sid = sock[v].sid
        /\ \/ sock'[v].pc \in {sock[v].pc, "done"}
           \/ sock[v].pc \in {"boot", "announce", "snap"} /\ sock'[v].pc \in Attaching \union {"serve"}
           \/ sock[v].pc = "replay" /\ sock'[v].pc = "serve"
           \/ sock[v].pc \in Serving /\ sock'[v].pc \in Serving
        /\ sock'[v].pc \in {"write", "parked", "woken"} => sock'[v].left > 0
\* Sessions that only close.
Ages ==
    \A s \in Sids :
        \/ ses'[s].st = ses[s].st
        \/ ses[s].st = "open" /\ ses'[s].st = "closed"

LEMMA SeatsKept ==
  ASSUME Seats, Walks, Ages
  PROVE  Seats' /\ Creating' \subseteq Creating
<1>1. ASSUME NEW w \in Sockets PROVE SeatHonest(w)'
  BY <1>1 DEF Seats, SeatHonest, Walks, Ages, Seated, Attaching, Serving
<1>2. ASSUME NEW v \in Sockets, NEW w \in Sockets,
             sock'[v].pc \in Attaching, sock'[w].pc \in Attaching, sock'[v].sid = sock'[w].sid
      PROVE  v = w
  BY <1>2 DEF Seats, AttachLock, Walks, Attaching, Serving
<1>3. Creating' \subseteq Creating
  BY DEF Creating, Walks, Attaching, Serving
<1> QED
  BY <1>1, <1>2, <1>3 DEF Seats, AttachLock

LEMMA CreationKept ==
  ASSUME Types, Creation, Creating' \subseteq Creating, registered' \subseteq registered
  PROVE  Creation'
<1> PICK less : less = registered'
  OBVIOUS
<1>1. IsFiniteSet(registered)
  BY TerminalAssumption, FS_Subset DEF Types
<1>2. less \subseteq registered
  OBVIOUS
<1>3. IsFiniteSet(less) /\ Cardinality(less) <= Cardinality(registered)
  BY <1>1, <1>2, FS_Subset
<1>4. Cardinality(less) \in Nat /\ Cardinality(registered) \in Nat
  BY <1>1, <1>3, FS_CardinalityType
<1>5. Cardinality(registered') = Cardinality(less)
  OBVIOUS
<1>6. Cardinality(less) <= MaxSessions /\ (Creating' # {} => Cardinality(less) < MaxSessions)
  BY <1>3, <1>4, TerminalAssumption DEF Creation
<1> QED
  BY <1>5, <1>6 DEF Creation

LEMMA RegistryKept ==
  ASSUME Registry, registered' = registered, \A s \in Sids : KeepsLife(ses'[s], ses[s])
  PROVE  Registry'
<1>1. \A s \in Sids : Listed(s)' <=> Listed(s)
  BY DEF Listed, KeepsLife
<1>2. \A s \in Sids :
         /\ (ses'[s].closing \in {"hup", "fin"}) <=> (ses'[s].st = "closed")
         /\ ses'[s].closing = "sched" => ses'[s].st = "open"
  BY DEF Registry, KeepsLife
<1>3. registered' = {s \in Sids : Listed(s)'}
  BY <1>1 DEF Registry
<1> QED
  BY <1>2, <1>3 DEF Registry

\* Sessions that show nothing new, to the owner they had or to nobody.
Lets(s) == ses'[s].ws \in {ses[s].ws, Nobody}
Ebbs(s) ==
    /\ Lets(s) /\ ses'[s].lo = ses[s].lo /\ ses'[s].out = ses[s].out
    /\ \/ /\ ses'[s].pumpWs = ses[s].pumpWs
          /\ (ses'[s].pump \in {"want", "send"}) <=> (ses[s].pump \in {"want", "send"})
       \/ /\ ses'[s].pumpWs = Nobody /\ ses'[s].pump \in {"off", "read"}
          /\ ses[s].pumpWs = Nobody \/ ses'[s].ws # ses[s].pumpWs
    /\ ses[s].pump = "off" => ses'[s].pump = "off"
\* The owners that are left, and the pages a pump has a chunk for, stay where
\* they were.
OwnersStay ==
    \A s \in Sids :
        /\ ses'[s].ws # Nobody =>
             /\ sock'[ses'[s].ws].sid = sock[ses'[s].ws].sid
             /\ sock'[ses'[s].ws].seen = sock[ses'[s].ws].seen
             /\ sock'[ses'[s].ws].pc \in {"replay"} \union Serving
        /\ ses'[s].pumpWs # Nobody =>
             /\ sock'[ses'[s].pumpWs].sid = sock[ses'[s].pumpWs].sid
             /\ sock'[ses'[s].pumpWs].pc \in {"replay", "done"} \union Serving

LEMMA ShownKept ==
  ASSUME Types, Types', Owners, Ring, Shown, Ages, OwnersStay, \A s \in Sids : Ebbs(s)
  PROVE  Owners' /\ Ring' /\ Shown'
<1>1. ASSUME NEW s \in Sids
      PROVE  /\ ses'[s].ws # Nobody => ses'[s].ws = ses[s].ws
             /\ ses'[s].pumpWs # Nobody => ses'[s].pumpWs = ses[s].pumpWs
  BY <1>1 DEF Ebbs, Lets
<1>2. Owners'
  <2>1. ASSUME NEW s \in Sids
        PROVE  ses'[s].ws # Nobody =>
                 sock'[ses'[s].ws].sid = s /\ sock'[ses'[s].ws].pc \in {"replay"} \union Serving
    BY <2>1, <1>1 DEF Owners, OwnersStay
  <2>2. ASSUME NEW s \in Sids
        PROVE  ses'[s].pumpWs # Nobody =>
                 /\ sock'[ses'[s].pumpWs].sid = s
                 /\ sock'[ses'[s].pumpWs].pc \in {"replay", "done"} \union Serving
    BY <2>2, <1>1 DEF Owners, OwnersStay
  <2>3. ASSUME NEW s \in Sids
        PROVE  (ses'[s].pumpWs # Nobody) <=> (ses'[s].pump \in {"want", "send"})
    BY <2>3 DEF Owners, Ebbs
  <2>4. ASSUME NEW s \in Sids, ses'[s].st \in {"none", "spawning"}
        PROVE  /\ ses'[s].ws = Nobody /\ ses'[s].pumpWs = Nobody /\ ses'[s].pump = "off"
               /\ ses'[s].lo = 1 /\ ses'[s].out = 0
    BY <2>4, <1>1 DEF Owners, Ebbs, Ages
  <2> QED
    BY <2>1, <2>2, <2>3, <2>4 DEF Owners
<1>3. Ring'
  BY <1>1 DEF Ring, Ebbs
<1>4. ASSUME NEW s \in Sids, ses'[s].ws # Nobody
      PROVE  /\ Gapless(sock'[ses'[s].ws].seen)
             /\ EndsAt(sock'[ses'[s].ws].seen,
                       IF ses'[s].pumpWs = ses'[s].ws THEN ses'[s].out - 1 ELSE ses'[s].out)
  <2>1. ses'[s].ws = ses[s].ws /\ sock'[ses'[s].ws].seen = sock[ses[s].ws].seen
    BY <1>4, <1>1 DEF OwnersStay
  <2>2. (ses'[s].pumpWs = ses'[s].ws) <=> (ses[s].pumpWs = ses[s].ws)
    BY <1>4, <2>1 DEF Ebbs
  <2>3. ses'[s].out = ses[s].out
    BY DEF Ebbs
  <2> QED
    BY <1>4, <2>1, <2>2, <2>3 DEF Shown
<1>5. Shown'
  BY <1>4 DEF Shown
<1> QED
  BY <1>2, <1>3, <1>5

LEMMA HandoverKept ==
  ASSUME Seats, Handover, Walks, \A s \in Sids : Lets(s)
  PROVE  Handover'
<1>1. ASSUME NEW w \in Sockets, sock'[w].pc \in {"boot", "announce", "snap"}
      PROVE  ses'[sock'[w].sid].ws = Nobody
  <2>1. sock[w].pc \in {"boot", "announce", "snap"} /\ sock'[w].sid = sock[w].sid
    BY <1>1 DEF Walks, Serving
  <2>2. sock[w].sid \in Sids
    BY <2>1 DEF Seats, SeatHonest, Seated, Attaching
  <2> QED
    BY <2>1, <2>2 DEF Handover, Lets
<1> QED
  BY <1>1 DEF Handover
-----------------------------------------------------------------------------
(* Steps that leave every session with its owner, its writer and its output. *)

Plain(r, q) ==
    /\ r.sid = q.sid /\ r.seen = q.seen
    /\ \/ r.pc = q.pc
       \/ q.pc \in {"boot", "announce"} /\ r.pc \in {"announce", "snap"}
       \/ q.pc = "replay" /\ r.pc = "serve"
       \/ q.pc \in Serving /\ r.pc \in Serving \ {"parked"}
    /\ r.pc \in {"write", "parked", "woken"} => r.left > 0

LEMMA PlainStep ==
  ASSUME IInv, Types', registered' = registered,
         \A v \in Sockets : Plain(sock'[v], sock[v]),
         \A s \in Sids : KeepsSession(ses'[s], ses[s])
  PROVE  IInv'
<1>1. Walks
  BY DEF Plain, Walks, Attaching
<1>2. Ages /\ \A s \in Sids : Ebbs(s) /\ KeepsLife(ses'[s], ses[s])
  <2>1. \A s \in Sids : KeepsLife(ses'[s], ses[s])
    BY DEF KeepsSession
  <2>2. ASSUME NEW s \in Sids PROVE Ebbs(s)
    <3>1. KeepsPump(ses'[s], ses[s]) /\ ses'[s].ws = ses[s].ws
      BY DEF KeepsSession, KeepsOwner
    <3> QED
      BY <3>1 DEF KeepsPump, Ebbs, Lets
  <2>3. Ages
    BY <2>1 DEF Ages, KeepsLife
  <2> QED
    BY <2>1, <2>2, <2>3
<1>3. OwnersStay
  <2>1. ASSUME NEW s \in Sids, ses'[s].ws # Nobody
        PROVE  /\ sock'[ses'[s].ws].sid = sock[ses'[s].ws].sid
               /\ sock'[ses'[s].ws].seen = sock[ses'[s].ws].seen
               /\ sock'[ses'[s].ws].pc \in {"replay"} \union Serving
    <3> PICK v : v = ses'[s].ws
      OBVIOUS
    <3>1. v = ses[s].ws /\ v \in Sockets
      BY <2>1 DEF KeepsSession, KeepsOwner, IInv, Types, SessionRecord, Peer
    <3>2. sock[v].pc \in {"replay"} \union Serving
      BY <2>1, <3>1 DEF IInv, Owners
    <3>3. Plain(sock'[v], sock[v])
      BY <3>1
    <3> QED
      BY <3>2, <3>3 DEF Plain, Serving
  <2>2. ASSUME NEW s \in Sids, ses'[s].pumpWs # Nobody
        PROVE  /\ sock'[ses'[s].pumpWs].sid = sock[ses'[s].pumpWs].sid
               /\ sock'[ses'[s].pumpWs].pc \in {"replay", "done"} \union Serving
    <3> PICK v : v = ses'[s].pumpWs
      OBVIOUS
    <3>1. v = ses[s].pumpWs /\ v \in Sockets
      BY <2>2 DEF KeepsSession, KeepsPump, IInv, Types, SessionRecord, Peer
    <3>2. sock[v].pc \in {"replay", "done"} \union Serving
      BY <2>2, <3>1 DEF IInv, Owners
    <3>3. Plain(sock'[v], sock[v])
      BY <3>1
    <3> QED
      BY <3>2, <3>3 DEF Plain, Serving
  <2> QED
    BY <2>1, <2>2 DEF OwnersStay
<1>4. Seats' /\ Creating' \subseteq Creating
  BY <1>1, <1>2, SeatsKept DEF IInv
<1>5. Creation' /\ Registry'
  BY <1>2, <1>4, CreationKept, RegistryKept DEF IInv
<1>6. Owners' /\ Ring' /\ Shown' /\ Handover'
  BY <1>1, <1>2, <1>3, ShownKept, HandoverKept DEF IInv, Ebbs
<1>7. ParkedWriterIsTheOwner'
  <2>1. ASSUME NEW w \in Sockets, sock'[w].pc = "parked"
        PROVE  /\ ses'[sock'[w].sid].writer = w
               /\ ses'[sock'[w].sid].st = "open" /\ ses'[sock'[w].sid].ws = w
    <3>1. sock[w].pc = "parked" /\ sock'[w].sid = sock[w].sid
      BY <2>1 DEF Plain
    <3>2. sock[w].sid \in Sids
      BY <3>1 DEF IInv, Seats, SeatHonest, Seated, Serving
    <3> QED
      BY <3>1, <3>2 DEF IInv, ParkedWriterIsTheOwner, Owns, KeepsSession, KeepsLife, KeepsOwner
  <2> QED
    BY <2>1 DEF ParkedWriterIsTheOwner, Owns
<1> QED
  BY <1>4, <1>5, <1>6, <1>7 DEF IInv

\* One socket goes on.
LEMMA OneSocket ==
  ASSUME IInv, NEW w \in Sockets, NEW r \in SocketRecord, Plain(r, sock[w]),
         sock' = [sock EXCEPT ![w] = r], ses' = ses, registered' = registered, sized' \in [Fds -> Sid]
  PROVE  IInv'
<1>1. sock' \in [Sockets -> SocketRecord] /\ sock'[w] = r /\ \A v \in Sockets \ {w} : sock'[v] = sock[v]
  BY DEF IInv, Types
<1>2. Types'
  BY <1>1 DEF IInv, Types
<1>3. ASSUME NEW v \in Sockets PROVE Plain(sock'[v], sock[v])
  BY <1>1 DEF Plain, IInv, Seats, SeatHonest
<1>4. \A s \in Sids : KeepsSession(ses'[s], ses[s])
  BY DEF KeepsSession, KeepsLife, KeepsPump, KeepsOwner
<1> QED
  BY <1>2, <1>3, <1>4, PlainStep

\* One session changes in what nobody here looks at.
LEMMA OneSession ==
  ASSUME IInv, NEW s \in Sids, NEW r \in SessionRecord, KeepsSession(r, ses[s]),
         ses' = [ses EXCEPT ![s] = r], UNCHANGED <<sock, registered, sized>>
  PROVE  IInv'
<1>1. ses' \in [Sids -> SessionRecord] /\ ses'[s] = r /\ \A x \in Sids \ {s} : ses'[x] = ses[x]
  BY DEF IInv, Types
<1>2. Types'
  BY <1>1 DEF IInv, Types
<1>3. ASSUME NEW v \in Sockets PROVE Plain(sock'[v], sock[v])
  BY DEF Plain, IInv, Seats, SeatHonest
<1>4. \A x \in Sids : KeepsSession(ses'[x], ses[x])
  BY <1>1 DEF KeepsSession, KeepsLife, KeepsPump, KeepsOwner
<1> QED
  BY <1>2, <1>3, <1>4, PlainStep

LEMMA Sized ==
  ASSUME Types, NEW s \in Sids
  PROVE  Resized(s) \in [Fds -> Sid]
BY DEF Types, Resized, Sid

\* The sid of a socket past its creation is one.
LEMMA SeatedSid ==
  ASSUME IInv, NEW w \in Sockets, sock[w].pc \in Seated \union {"spawn", "attach"}
  PROVE  sock[w].sid \in Sids
BY DEF IInv, Seats, SeatHonest

\* A socket goes on to its next await, and no more.
LEMMA SocketGoes ==
  ASSUME IInv, NEW w \in Sockets, NEW pc \in Pcs, Plain(Goes(sock[w], pc), sock[w]),
         sock' = [sock EXCEPT ![w].pc = pc], ses' = ses, registered' = registered, sized' \in [Fds -> Sid]
  PROVE  IInv'
<1> PICK q \in SocketRecord : q = sock[w]
  BY DEF IInv, Types
<1> PICK r \in SocketRecord : r = Goes(q, pc)
  BY Socket
<1>1. sock' = [sock EXCEPT ![w] = r]
  BY DEF Goes, IInv, Types
<1> QED
  BY <1>1, OneSocket

LEMMA GoesOn ==
  ASSUME IInv, NEW w \in Sockets, NEW pc \in Pcs,
         \/ sock[w].pc \in {"boot", "announce"} /\ pc \in {"announce", "snap"}
         \/ sock[w].pc = "replay" /\ pc = "serve"
         \/ sock[w].pc \in Serving /\ pc \in Serving \ {"parked"},
         pc \in {"write", "woken"} => sock[w].left > 0
  PROVE  Plain(Goes(sock[w], pc), sock[w])
<1> PICK q \in SocketRecord : q = sock[w]
  BY DEF IInv, Types
<1>1. Goes(q, pc).pc = pc /\ KeepsSeat(Goes(q, pc), q)
  BY Socket
<1> QED
  BY <1>1 DEF Plain, KeepsSeat

LEMMA BootedKeeps ==
  ASSUME IInv, NEW w \in Sockets, Booted(w)
  PROVE  IInv'
<1> PICK gone : gone = sock[w].old
  OBVIOUS
<1>1. sock' = [v \in Sockets |->
                 LET q == IF v = w THEN [sock[w] EXCEPT !.pc = "announce", !.old = Nobody] ELSE sock[v]
                 IN IF v = gone THEN [q EXCEPT !.open = FALSE] ELSE q]
  BY DEF Booted, IInv, Types
<1>2. ASSUME NEW v \in Sockets
      PROVE  sock'[v] \in SocketRecord /\ Plain(sock'[v], sock[v])
  <2> PICK r \in SocketRecord : r = sock[v]
    BY DEF IInv, Types
  <2> PICK q : q = (IF v = w THEN [r EXCEPT !.pc = "announce", !.old = Nobody] ELSE r)
    OBVIOUS
  <2>1. Nobody \in Peer
    BY DEF Peer
  <2>2. q \in SocketRecord /\ Plain(q, r)
    BY <2>1 DEF SocketRecord, Plain, Booted, Seated, Attaching, IInv, Seats, SeatHonest
  <2>3. [q EXCEPT !.open = FALSE] \in SocketRecord /\ Plain([q EXCEPT !.open = FALSE], r)
    BY <2>2 DEF SocketRecord, Plain
  <2> QED
    BY <1>1, <2>2, <2>3
<1>3. Types' /\ registered' = registered /\ ses' = ses
  BY <1>1, <1>2 DEF Booted, IInv, Types
<1> QED
  BY <1>2, <1>3, PlainStep DEF KeepsSession, KeepsLife, KeepsPump, KeepsOwner

LEMMA DisconnectKeeps ==
  ASSUME IInv, NEW w \in Sockets, Disconnect(w)
  PROVE  IInv'
<1> PICK q \in SocketRecord : q = sock[w]
  BY DEF IInv, Types
<1> PICK r : r = [q EXCEPT !.open = FALSE]
  OBVIOUS
<1>1. r \in SocketRecord /\ r.pc = q.pc /\ KeepsSeat(r, q)
  BY DEF SocketRecord, KeepsSeat
<1>2. sock' = [sock EXCEPT ![w] = r]
  BY DEF Disconnect
<1>3. Plain(r, sock[w])
  BY <1>1 DEF Plain, KeepsSeat, IInv, Seats, SeatHonest
<1> QED
  BY <1>1, <1>2, <1>3, OneSocket DEF Disconnect, IInv, Types

LEMMA KeystrokesKeeps ==
  ASSUME IInv, NEW w \in Sockets, Keystrokes(w)
  PROVE  IInv'
<1>1. "write" \in Pcs /\ Plain(Goes(sock[w], "write"), sock[w])
  BY GoesOn DEF Keystrokes, Receives, Pcs, Seated, Serving
<1> QED
  BY <1>1, SocketGoes DEF Keystrokes, IInv, Types

LEMMA ResizeKeeps ==
  ASSUME IInv, NEW w \in Sockets, Resize(w)
  PROVE  IInv'
<1>1. sock[w].sid \in Sids
  BY SeatedSid DEF Resize, Receives, Seated, Serving
<1>2. sized' \in [Fds -> Sid]
  BY <1>1, Sized DEF Resize, IInv
<1> PICK r \in SocketRecord : r = sock[w]
  BY DEF IInv, Types
<1>3. Plain(r, sock[w]) /\ sock' = [sock EXCEPT ![w] = r]
  BY DEF Plain, Resize, IInv, Types, Seats, SeatHonest
<1> QED
  BY <1>2, <1>3, OneSocket DEF Resize

LEMMA WritableKeeps ==
  ASSUME IInv, NEW s \in Sids, Writable(s)
  PROVE  IInv'
<1> PICK w : w = ses[s].writer
  OBVIOUS
<1>1. w \in Sockets /\ sock[w].pc = "parked"
  BY DEF Writable, IInv, Types, SessionRecord, Peer
<1>2. "woken" \in Pcs /\ Plain(Goes(sock[w], "woken"), sock[w])
  BY <1>1, GoesOn DEF Pcs, Seated, Serving, IInv, Seats, SeatHonest
<1>3. sock' = [sock EXCEPT ![w].pc = "woken"] /\ ses' = ses
      /\ registered' = registered /\ sized' \in [Fds -> Sid]
  BY DEF Writable, IInv, Types
<1> QED
  BY <1>1, <1>2, <1>3, SocketGoes

LEMMA AgeKeeps ==
  ASSUME IInv, NEW s \in Sids, Age(s)
  PROVE  IInv'
<1> PICK q \in SessionRecord : q = ses[s]
  BY DEF IInv, Types
<1> PICK r : r = [q EXCEPT !.idle = @ + 1]
  OBVIOUS
<1>1. q.idle + 1 \in 0 .. 2
  BY DEF Age, SessionRecord
<1>2. r \in SessionRecord
  BY <1>1 DEF SessionRecord
<1>3. KeepsSession(r, q)
  BY DEF SessionRecord, KeepsSession, KeepsLife, KeepsPump, KeepsOwner
<1>4. ses' = [ses EXCEPT ![s] = r]
  BY DEF Age
<1> QED
  BY <1>2, <1>3, <1>4, OneSession DEF Age

LEMMA DiesKeeps ==
  ASSUME IInv, NEW s \in Sids, ShellExit(s) \/ CloseKill(s)
  PROVE  IInv'
<1> PICK q \in SessionRecord : q = ses[s]
  BY DEF IInv, Types
<1> PICK r : r = [q EXCEPT !.alive = FALSE]
  OBVIOUS
<1>1. r \in SessionRecord
  BY DEF SessionRecord
<1>2. KeepsSession(r, q)
  BY DEF SessionRecord, KeepsSession, KeepsLife, KeepsPump, KeepsOwner
<1>3. ses' = [ses EXCEPT ![s] = r] /\ UNCHANGED <<sock, registered, sized>>
  BY DEF ShellExit, CloseKill
<1> QED
  BY <1>1, <1>2, <1>3, OneSession
-----------------------------------------------------------------------------
(* Steps that take an owner away. *)

LEMMA EbbStep ==
  ASSUME IInv, Types', Walks, Ages, OwnersStay, \A s \in Sids : Ebbs(s),
         registered' \subseteq registered, Registry', ParkedWriterIsTheOwner'
  PROVE  IInv'
<1>1. Seats' /\ Creating' \subseteq Creating
  BY SeatsKept DEF IInv
<1>2. Creation'
  BY <1>1, CreationKept DEF IInv
<1>3. Owners' /\ Ring' /\ Shown'
  BY ShownKept DEF IInv
<1>4. Handover'
  BY HandoverKept DEF IInv, Ebbs
<1> QED
  BY <1>1, <1>2, <1>3, <1>4 DEF IInv

\* A socket that a detach or a close may wake, to fail.
Wakes(r, q) ==
    /\ r \in SocketRecord /\ KeepsSeat(r, q)
    /\ \/ r.pc = q.pc
       \/ q.pc = "parked" /\ r.pc = "bail"

LEMMA BailedWakes ==
  ASSUME Types, NEW s \in Sids, NEW v \in Sockets
  PROVE  /\ Wakes(Bailed(sock, s)[v], sock[v])
         /\ v = ses[s].writer => Bailed(sock, s)[v].pc # "parked"
<1> PICK q \in SocketRecord : q = sock[v]
  BY DEF Types
<1>1. q.pc = "parked" => Wakes(Goes(q, "bail"), q)
  <2>1. "bail" \in Pcs
    BY DEF Pcs, Seated, Serving
  <2> QED
    BY <2>1, GoesTo DEF Wakes, KeepsSeat
<1>2. Wakes(q, q)
  BY DEF Wakes, KeepsSeat
<1>3. CASE v = ses[s].writer /\ q.pc = "parked"
  <2>1. Bailed(sock, s)[v] = Goes(q, "bail")
    BY <1>3 DEF Bailed, Goes
  <2>2. Goes(q, "bail").pc = "bail"
    BY Socket DEF Pcs, Seated, Serving
  <2> QED
    BY <1>1, <1>3, <2>1, <2>2
<1>4. CASE ~(v = ses[s].writer /\ q.pc = "parked")
  BY <1>2, <1>4 DEF Bailed
<1> QED
  BY <1>3, <1>4

\* detach: the session is left to nobody, and the writer of the owner fails.
LEMMA Detached ==
  ASSUME Types, NEW w, NEW s \in Sids, NEW x \in Sids
  PROVE  LET q == DetachedSession(s, w)[x]
         IN /\ q \in SessionRecord /\ KeepsLife(q, ses[x]) /\ KeepsPump(q, ses[x])
            /\ IF x = s /\ ses[s].ws = w THEN q.ws = Nobody /\ q.writer = Nobody
               ELSE KeepsOwner(q, ses[x])
<1> PICK q : q = DetachedSession(s, w)[x]
  OBVIOUS
<1>1. ses[x] \in SessionRecord
  BY DEF Types
<1>2. CASE x = s /\ ses[s].ws = w
  <2>1. q = Freed(ses[x])
    BY <1>2 DEF DetachedSession, Owns, Freed, Types
  <2> QED
    BY <1>1, <1>2, <2>1, Session
<1>3. CASE ~(x = s /\ ses[s].ws = w)
  <2>1. q = ses[x]
    BY <1>3 DEF DetachedSession, Owns, Types
  <2> QED
    BY <1>1, <1>3, <2>1 DEF KeepsLife, KeepsPump, KeepsOwner
<1> QED
  BY <1>2, <1>3

LEMMA DetachedWakes ==
  ASSUME Types, NEW w, NEW s \in Sids, NEW v \in Sockets
  PROVE  /\ Wakes(DetachedSockets(s, w)[v], sock[v])
         /\ ses[s].ws = w /\ v = ses[s].writer => DetachedSockets(s, w)[v].pc # "parked"
<1>1. CASE ses[s].ws = w
  BY <1>1, BailedWakes DEF DetachedSockets, Owns
<1>2. CASE ses[s].ws # w
  BY <1>2 DEF DetachedSockets, Owns, Types, Wakes, KeepsSeat
<1> QED
  BY <1>1, <1>2

LEMMA DetachedTables ==
  ASSUME Types, NEW w, NEW s \in Sids
  PROVE  /\ DetachedSession(s, w) \in [Sids -> SessionRecord]
         /\ DetachedSockets(s, w) \in [Sockets -> SocketRecord]
<1>1. \A x \in Sids : DetachedSession(s, w)[x] \in SessionRecord
  BY Detached
<1>2. DetachedSession(s, w) = [x \in Sids |-> DetachedSession(s, w)[x]]
  BY DEF DetachedSession, Types
<1>3. \A v \in Sockets : DetachedSockets(s, w)[v] \in SocketRecord
  BY DetachedWakes DEF Wakes
<1>4. DetachedSockets(s, w) = [v \in Sockets |-> DetachedSockets(s, w)[v]]
  BY DEF DetachedSockets, Bailed, Types
<1> QED
  BY <1>1, <1>2, <1>3, <1>4

LEMMA LeaveKeeps ==
  ASSUME IInv, NEW w \in Sockets, sock[w].pc \in Seated, Leave(w)
  PROVE  IInv'
<1> PICK s \in Sids : s = sock[w].sid
  BY SeatedSid
<1> PICK sk \in [Sockets -> SocketRecord] : sk = DetachedSockets(s, w)
  BY DetachedTables DEF IInv
<1>1. ses' = DetachedSession(s, w) /\ registered' = registered /\ sized' = sized
  BY DEF Leave
<1>2. sock' = [sk EXCEPT ![w] = Left(sk[w])]
  BY DEF Leave, Left
<1>3. /\ sock'[w] \in SocketRecord /\ sock'[w].pc = "done" /\ sock'[w].sid = s
      /\ sock'[w].left = sock[w].left
  <2>1. Wakes(sk[w], sock[w])
    BY DetachedWakes DEF IInv
  <2> QED
    BY <1>2, <2>1, Socket DEF Wakes, KeepsSeat
<1>4. ASSUME NEW v \in Sockets \ {w}
      PROVE  /\ Wakes(sock'[v], sock[v])
             /\ ses[s].ws = w /\ v = ses[s].writer => sock'[v].pc # "parked"
  <2>1. sock'[v] = sk[v]
    BY <1>2
  <2> QED
    BY <2>1, DetachedWakes DEF IInv
<1>5. ASSUME NEW x \in Sids
      PROVE  /\ ses'[x] \in SessionRecord /\ KeepsLife(ses'[x], ses[x]) /\ KeepsPump(ses'[x], ses[x])
             /\ IF x = s /\ ses[s].ws = w THEN ses'[x].ws = Nobody /\ ses'[x].writer = Nobody
                ELSE KeepsOwner(ses'[x], ses[x])
  <2> PICK q : q = DetachedSession(s, w)[x]
    OBVIOUS
  <2>1. /\ q \in SessionRecord /\ KeepsLife(q, ses[x]) /\ KeepsPump(q, ses[x])
        /\ IF x = s /\ ses[s].ws = w THEN q.ws = Nobody /\ q.writer = Nobody
           ELSE KeepsOwner(q, ses[x])
    BY Detached DEF IInv
  <2> QED
    BY <1>1, <2>1
<1>6. Types'
  <2>1. ses' \in [Sids -> SessionRecord]
    BY <1>1, DetachedTables DEF IInv
  <2>2. sock' \in [Sockets -> SocketRecord]
    BY <1>2, <1>3
  <2> QED
    BY <1>1, <2>1, <2>2 DEF IInv, Types
<1>7. Walks
  BY <1>3, <1>4 DEF Walks, Wakes, KeepsSeat, Serving, IInv, Seats, SeatHonest
<1>8. Ages /\ \A x \in Sids : KeepsLife(ses'[x], ses[x])
  BY <1>5 DEF Ages, KeepsLife
<1>9. ASSUME NEW x \in Sids PROVE Ebbs(x)
  BY <1>5 DEF Ebbs, Lets, KeepsPump, KeepsOwner
<1>10. OwnersStay
  <2>1. ASSUME NEW x \in Sids, ses'[x].ws # Nobody
        PROVE  /\ sock'[ses'[x].ws].sid = sock[ses'[x].ws].sid
               /\ sock'[ses'[x].ws].seen = sock[ses'[x].ws].seen
               /\ sock'[ses'[x].ws].pc \in {"replay"} \union Serving
    <3> PICK v : v = ses'[x].ws
      OBVIOUS
    <3>1. v = ses[x].ws /\ v \in Sockets
      BY <1>5, <2>1 DEF KeepsOwner, IInv, Types, SessionRecord, Peer
    <3>2. sock[v].pc \in {"replay"} \union Serving /\ sock[v].sid = x
      BY <2>1, <3>1 DEF IInv, Owners
    <3>3. v # w
      BY <1>5, <2>1, <3>1, <3>2
    <3>4. Wakes(sock'[v], sock[v])
      BY <1>4, <3>1, <3>3
    <3> QED
      BY <3>2, <3>4 DEF Wakes, KeepsSeat, Serving
  <2>2. ASSUME NEW x \in Sids, ses'[x].pumpWs # Nobody
        PROVE  /\ sock'[ses'[x].pumpWs].sid = sock[ses'[x].pumpWs].sid
               /\ sock'[ses'[x].pumpWs].pc \in {"replay", "done"} \union Serving
    <3> PICK v : v = ses'[x].pumpWs
      OBVIOUS
    <3>1. v = ses[x].pumpWs /\ v \in Sockets
      BY <1>5, <2>2 DEF KeepsPump, IInv, Types, SessionRecord, Peer
    <3>2. sock[v].pc \in {"replay", "done"} \union Serving
      BY <2>2, <3>1 DEF IInv, Owners
    <3>3. v # w => Wakes(sock'[v], sock[v])
      BY <1>4, <3>1
    <3> QED
      BY <1>3, <3>2, <3>3 DEF Wakes, KeepsSeat, Serving
  <2> QED
    BY <2>1, <2>2 DEF OwnersStay
<1>11. ParkedWriterIsTheOwner'
  <2>1. ASSUME NEW v \in Sockets, sock'[v].pc = "parked"
        PROVE  /\ ses'[sock'[v].sid].writer = v
               /\ ses'[sock'[v].sid].st = "open" /\ ses'[sock'[v].sid].ws = v
    <3>1. v # w /\ sock[v].pc = "parked" /\ sock'[v].sid = sock[v].sid
      BY <1>3, <1>4, <2>1 DEF Wakes, KeepsSeat
    <3> PICK x \in Sids : x = sock[v].sid
      BY <3>1, SeatedSid DEF Seated, Serving
    <3>2. ses[x].writer = v /\ ses[x].st = "open" /\ ses[x].ws = v
      BY <3>1 DEF IInv, ParkedWriterIsTheOwner, Owns
    <3>3. KeepsOwner(ses'[x], ses[x]) /\ KeepsLife(ses'[x], ses[x])
      BY <1>5, <3>1, <3>2
    <3> QED
      BY <3>1, <3>2, <3>3 DEF KeepsOwner, KeepsLife
  <2> QED
    BY <2>1 DEF ParkedWriterIsTheOwner, Owns
<1> QED
  BY <1>1, <1>6, <1>7, <1>8, <1>9, <1>10, <1>11, EbbStep, RegistryKept DEF IInv

LEMMA QuitKeeps ==
  ASSUME IInv, NEW w \in Sockets, Quit(w) \/ Bail(w)
  PROVE  IInv'
<1>1. sock[w].pc \in Seated /\ Leave(w)
  BY DEF Quit, Bail, Seated, Serving
<1> QED
  BY <1>1, LeaveKeeps

LEMMA AnnouncedKeeps ==
  ASSUME IInv, NEW w \in Sockets, Announced(w)
  PROVE  IInv'
<1>1. CASE sock[w].open
  <2>1. "snap" \in Pcs /\ Plain(Goes(sock[w], "snap"), sock[w])
    BY GoesOn DEF Announced, Pcs, Seated, Attaching
  <2>2. sock' = [sock EXCEPT ![w].pc = "snap"] /\ ses' = ses /\ registered' = registered /\ sized' = sized
    BY <1>1 DEF Announced
  <2> QED
    BY <2>1, <2>2, SocketGoes DEF IInv, Types
<1>2. CASE ~sock[w].open
  BY <1>2, LeaveKeeps DEF Announced, Seated, Attaching
<1> QED
  BY <1>1, <1>2

LEMMA ReplayedKeeps ==
  ASSUME IInv, NEW w \in Sockets, Replayed(w)
  PROVE  IInv'
<1>1. CASE sock[w].open
  <2>1. "serve" \in Pcs /\ Plain(Goes(sock[w], "serve"), sock[w])
    BY GoesOn DEF Replayed, Pcs, Seated, Serving
  <2>2. sock[w].sid \in Sids
    BY SeatedSid DEF Replayed, Seated, Attaching
  <2>3. sized' \in [Fds -> Sid]
    BY <1>1, <2>2, Sized DEF Replayed, IInv
  <2>4. sock' = [sock EXCEPT ![w].pc = "serve"] /\ ses' = ses /\ registered' = registered
    BY <1>1 DEF Replayed
  <2> QED
    BY <2>1, <2>3, <2>4, SocketGoes
<1>2. CASE ~sock[w].open
  BY <1>2, LeaveKeeps DEF Replayed, Seated, Attaching
<1> QED
  BY <1>1, <1>2

\* Owners and the pages of the pumps stay while the sockets only serve on.
Serves(r, q) ==
    /\ r.sid = q.sid /\ r.seen = q.seen
    /\ \/ r.pc = q.pc
       \/ q.pc \in Serving /\ r.pc \in Serving
LEMMA ServingOwnersStay ==
  ASSUME Types, Owners, \A v \in Sockets : Serves(sock'[v], sock[v]),
         \A s \in Sids : ses'[s].ws \in {ses[s].ws, Nobody} /\ ses'[s].pumpWs \in {ses[s].pumpWs, Nobody}
  PROVE  OwnersStay
<1>1. ASSUME NEW x \in Sids, ses'[x].ws # Nobody
      PROVE  /\ sock'[ses'[x].ws].sid = sock[ses'[x].ws].sid
             /\ sock'[ses'[x].ws].seen = sock[ses'[x].ws].seen
             /\ sock'[ses'[x].ws].pc \in {"replay"} \union Serving
  <2> PICK v : v = ses'[x].ws
    OBVIOUS
  <2>1. v = ses[x].ws /\ v \in Sockets
    BY <1>1 DEF Types, SessionRecord, Peer
  <2>2. sock[v].pc \in {"replay"} \union Serving
    BY <1>1, <2>1 DEF Owners
  <2> QED
    BY <2>1, <2>2 DEF Serves
<1>2. ASSUME NEW x \in Sids, ses'[x].pumpWs # Nobody
      PROVE  /\ sock'[ses'[x].pumpWs].sid = sock[ses'[x].pumpWs].sid
             /\ sock'[ses'[x].pumpWs].pc \in {"replay", "done"} \union Serving
  <2> PICK v : v = ses'[x].pumpWs
    OBVIOUS
  <2>1. v = ses[x].pumpWs /\ v \in Sockets
    BY <1>2 DEF Types, SessionRecord, Peer
  <2>2. sock[v].pc \in {"replay", "done"} \union Serving
    BY <1>2, <2>1 DEF Owners
  <2> QED
    BY <2>1, <2>2 DEF Serves
<1> QED
  BY <1>1, <1>2 DEF OwnersStay

\* Whoever else is parked in s is its writer.
OthersParked(s, w, peer) == \A v \in Sockets \ {w} : sock[v].pc = "parked" /\ sock[v].sid = s => peer = v

\* The registration of a writer: a socket parks, or its wait is over.
LEMMA WriterStep ==
  ASSUME IInv, NEW w \in Sockets, NEW pc \in Serving, NEW peer \in Peer, NEW s \in Sids,
         s = sock[w].sid, sock[w].pc \in Serving, sock[w].left > 0,
         sock' = [sock EXCEPT ![w].pc = pc], ses' = [ses EXCEPT ![s].writer = peer],
         registered' = registered, sized' = sized,
         pc = "parked" => peer = w /\ ses[s].st = "open" /\ ses[s].ws = w,
         OthersParked(s, w, peer)
  PROVE  IInv'
<1> USE DEF OthersParked
<1> PICK q \in SessionRecord : q = ses[s]
  BY DEF IInv, Types
<1> PICK r : r = [q EXCEPT !.writer = peer]
  OBVIOUS
<1>1. /\ r \in SessionRecord /\ KeepsLife(r, q) /\ KeepsPump(r, q)
      /\ r.ws = q.ws /\ r.writer = peer
  BY DEF SessionRecord, KeepsLife, KeepsPump
<1>2. /\ ses' \in [Sids -> SessionRecord] /\ ses'[s] = r /\ \A x \in Sids \ {s} : ses'[x] = ses[x]
  BY <1>1 DEF IInv, Types
<1>3. ASSUME NEW x \in Sids
      PROVE  KeepsLife(ses'[x], ses[x]) /\ KeepsPump(ses'[x], ses[x]) /\ ses'[x].ws = ses[x].ws
  BY <1>1, <1>2 DEF KeepsLife, KeepsPump
<1> PICK f \in SocketRecord : f = sock[w]
  BY DEF IInv, Types
<1>4. Goes(f, pc) \in SocketRecord /\ Goes(f, pc).pc = pc /\ KeepsSeat(Goes(f, pc), f)
  BY Socket DEF Pcs, Seated
<1>5. sock' = [sock EXCEPT ![w] = Goes(f, pc)]
  BY DEF Goes, IInv, Types
<1>6. /\ sock' \in [Sockets -> SocketRecord] /\ sock'[w].pc = pc /\ KeepsSeat(sock'[w], f)
      /\ \A v \in Sockets \ {w} : sock'[v] = sock[v]
  BY <1>4, <1>5 DEF IInv, Types
<1>7. Types'
  BY <1>2, <1>6 DEF IInv, Types
<1>8. Walks
  BY <1>6 DEF Walks, KeepsSeat, IInv, Seats, SeatHonest
<1>9. Ages
  BY <1>3 DEF Ages, KeepsLife
<1>10. ASSUME NEW x \in Sids PROVE Ebbs(x)
  BY <1>3 DEF Ebbs, Lets, KeepsPump
<1>11. \A v \in Sockets : Serves(sock'[v], sock[v])
  BY <1>6 DEF Serves, KeepsSeat
<1>12. OwnersStay
  BY <1>3, <1>11, ServingOwnersStay DEF IInv, KeepsPump
<1>13. Registry'
  BY <1>3, RegistryKept DEF IInv
<1>14. ParkedWriterIsTheOwner'
  <2>1. ASSUME NEW v \in Sockets, sock'[v].pc = "parked"
        PROVE  /\ ses'[sock'[v].sid].writer = v
               /\ ses'[sock'[v].sid].st = "open" /\ ses'[sock'[v].sid].ws = v
    <3>1. CASE v = w
      BY <1>1, <1>2, <1>6, <2>1, <3>1 DEF KeepsSeat, KeepsLife
    <3>2. CASE v # w
      <4>1. sock'[v] = sock[v]
        BY <1>6, <3>2
      <4> PICK x \in Sids : x = sock[v].sid
        BY <2>1, <4>1, SeatedSid DEF Seated, Serving
      <4>2. ses[x].writer = v /\ ses[x].st = "open" /\ ses[x].ws = v
        BY <2>1, <4>1 DEF IInv, ParkedWriterIsTheOwner, Owns
      <4>3. ses'[x].writer = v
        BY <1>1, <1>2, <2>1, <3>2, <4>1, <4>2
      <4> QED
        BY <1>3, <4>1, <4>2, <4>3 DEF KeepsLife
    <3> QED
      BY <3>1, <3>2
  <2> QED
    BY <2>1 DEF ParkedWriterIsTheOwner, Owns
<1> QED
  BY <1>7, <1>8, <1>9, <1>10, <1>12, <1>13, <1>14, EbbStep

LEMMA WriteTurnKeeps ==
  ASSUME IInv, NEW w \in Sockets, WriteTurn(w)
  PROVE  IInv'
<1> PICK s \in Sids : s = sock[w].sid
  BY SeatedSid DEF WriteTurn, Seated, Serving
<1> PICK q \in SocketRecord : q = sock[w]
  BY DEF IInv, Types
<1>1. sock[w].pc = "write" /\ q.left \in Nat \ {0} /\ q.left <= Units
  BY TerminalAssumption DEF WriteTurn, IInv, Seats, SeatHonest, SocketRecord
<1>2. CASE ~MayWrite(w) /\ Leave(w)
  BY <1>1, <1>2, LeaveKeeps DEF Seated, Serving
<1>3. CASE /\ sock' = [sock EXCEPT ![w].left = @ - 1, ![w].pc = IF sock[w].left = 1 THEN "serve" ELSE @]
           /\ UNCHANGED <<ses, registered, sized>>
  <2> PICK r : r = [q EXCEPT !.left = @ - 1, !.pc = IF q.left = 1 THEN "serve" ELSE @]
    OBVIOUS
  <2>1. sock' = [sock EXCEPT ![w] = r]
    BY <1>3 DEF IInv, Types
  <2>2. q.left - 1 \in 0 .. Units /\ (q.left # 1 => q.left - 1 > 0)
    BY <1>1, TerminalAssumption
  <2>3. r \in SocketRecord
    BY <2>2 DEF SocketRecord, Seated, Serving
  <2>4. /\ r.sid = q.sid /\ r.seen = q.seen /\ r.left = q.left - 1
        /\ r.pc = IF q.left = 1 THEN "serve" ELSE "write"
    BY <1>1 DEF SocketRecord
  <2>5. Plain(r, q)
    BY <1>1, <2>2, <2>4 DEF Plain, Serving
  <2> QED
    BY <1>3, <2>1, <2>3, <2>5, OneSocket DEF IInv, Types
<1>4. CASE /\ MayWrite(w)
           /\ sock' = [sock EXCEPT ![w].pc = "parked"]
           /\ ses' = [ses EXCEPT ![sock[w].sid].writer = w]
           /\ UNCHANGED <<registered, sized>>
  <2>1. ses[s].ws = w /\ ses[s].st = "open"
    BY <1>1, <1>4 DEF MayWrite, Owns, IInv, Seats, SeatHonest, Seated, Serving
  <2>2. OthersParked(s, w, w)
    BY <2>1 DEF IInv, ParkedWriterIsTheOwner, Owns, OthersParked
  <2>3. "parked" \in Serving /\ w \in Peer /\ sock[w].left > 0 /\ sock[w].pc \in Serving
    BY <1>1 DEF Serving, Peer
  <2>4. /\ sock' = [sock EXCEPT ![w].pc = "parked"] /\ ses' = [ses EXCEPT ![s].writer = w]
        /\ registered' = registered /\ sized' = sized
    BY <1>4
  <2> QED
    BY <2>1, <2>2, <2>3, <2>4, WriterStep
<1> QED
  BY <1>2, <1>3, <1>4 DEF WriteTurn

LEMMA ResumeKeeps ==
  ASSUME IInv, NEW w \in Sockets, Resume(w)
  PROVE  IInv'
<1> PICK s \in Sids : s = sock[w].sid
  BY SeatedSid DEF Resume, Seated, Serving
<1> PICK peer : peer = Unregistered(s, w)
  OBVIOUS
<1>1. peer \in Peer
  BY DEF Unregistered, IInv, Types, SessionRecord, Peer
<1>2. OthersParked(s, w, peer)
  BY DEF Unregistered, IInv, ParkedWriterIsTheOwner, OthersParked
<1>3. sock[w].pc \in Serving /\ sock[w].left > 0 /\ "write" \in Serving
  BY DEF Resume, Serving, IInv, Seats, SeatHonest
<1>4. /\ sock' = [sock EXCEPT ![w].pc = "write"] /\ ses' = [ses EXCEPT ![s].writer = peer]
      /\ registered' = registered /\ sized' = sized
  BY DEF Resume
<1> QED
  BY <1>1, <1>2, <1>3, <1>4, WriterStep
-----------------------------------------------------------------------------
(* Closing. *)

\* What a close of the sessions in S does to a session and to a socket.
ClosesSession(S, x) ==
    /\ ses'[x].ws = ses[x].ws /\ ses'[x].pumpWs = ses[x].pumpWs
    /\ ses'[x].lo = ses[x].lo /\ ses'[x].out = ses[x].out
    /\ \/ ses'[x].pump = ses[x].pump
       \/ ses[x].pump = "read" /\ ses'[x].pump = "off"
    /\ IF x \in S THEN ses'[x].st = "closed" /\ ses'[x].closing = "hup"
       ELSE KeepsLife(ses'[x], ses[x]) /\ ses'[x].writer = ses[x].writer
ClosesSocket(S, v) ==
    /\ sock'[v].sid = sock[v].sid /\ sock'[v].seen = sock[v].seen /\ sock'[v].left = sock[v].left
    /\ \/ sock'[v].pc = sock[v].pc
       \/ sock[v].pc \in Serving /\ sock'[v].pc \in {"bail", "kill"}
    /\ sock'[v].pc = "parked" => sock[v].sid \notin S

LEMMA CloseStep ==
  ASSUME IInv, Types', NEW S \in SUBSET Sids, \A s \in S : ses[s].st = "open",
         \A x \in Sids : ClosesSession(S, x), \A v \in Sockets : ClosesSocket(S, v),
         registered' = registered \ S
  PROVE  IInv'
<1>1. Walks
  BY DEF ClosesSocket, Walks, Serving, IInv, Seats, SeatHonest
<1>2. Ages
  BY DEF Ages, ClosesSession, KeepsLife
<1>3. ASSUME NEW x \in Sids PROVE Ebbs(x)
  BY DEF ClosesSession, Ebbs, Lets
<1>4. \A v \in Sockets : Serves(sock'[v], sock[v])
  BY DEF ClosesSocket, Serves, Serving
<1>5. OwnersStay
  BY <1>4, ServingOwnersStay DEF IInv, ClosesSession
<1>6. Registry'
  <2>1. ASSUME NEW x \in Sids
        PROVE  /\ (ses'[x].closing \in {"hup", "fin"}) <=> (ses'[x].st = "closed")
               /\ ses'[x].closing = "sched" => ses'[x].st = "open"
               /\ Listed(x)' <=> Listed(x) /\ x \notin S
    <3>1. ClosesSession(S, x)
      OBVIOUS
    <3> QED
      BY <3>1 DEF ClosesSession, KeepsLife, IInv, Registry, Listed
  <2>2. registered' = {x \in Sids : Listed(x)'}
    BY <2>1 DEF IInv, Registry
  <2> QED
    BY <2>1, <2>2 DEF Registry
<1>7. ParkedWriterIsTheOwner'
  <2>1. ASSUME NEW v \in Sockets, sock'[v].pc = "parked"
        PROVE  /\ ses'[sock'[v].sid].writer = v
               /\ ses'[sock'[v].sid].st = "open" /\ ses'[sock'[v].sid].ws = v
    <3>1. sock[v].pc = "parked" /\ sock'[v].sid = sock[v].sid /\ sock[v].sid \notin S
      BY <2>1 DEF ClosesSocket
    <3> PICK x \in Sids : x = sock[v].sid
      BY <3>1, SeatedSid DEF Seated, Serving
    <3>2. ses[x].writer = v /\ ses[x].st = "open" /\ ses[x].ws = v
      BY <3>1 DEF IInv, ParkedWriterIsTheOwner, Owns
    <3> QED
      BY <3>1, <3>2 DEF ClosesSession, KeepsLife
  <2> QED
    BY <2>1 DEF ParkedWriterIsTheOwner, Owns
<1> QED
  BY <1>1, <1>2, <1>3, <1>5, <1>6, <1>7, EbbStep

\* The tables as Closing and ClosingSockets write them.
LEMMA ClosingTables ==
  ASSUME IInv, NEW S \in SUBSET Sids
  PROVE  /\ Closing(S) \in [Sids -> SessionRecord]
         /\ ClosingSockets(S) \in [Sockets -> SocketRecord]
         /\ \A x \in Sids :
              IF x \in S
              THEN /\ Closing(S)[x].st = "closed" /\ Closing(S)[x].closing = "hup"
                   /\ Closing(S)[x].ws = ses[x].ws /\ KeepsPump(Closing(S)[x], ses[x])
              ELSE Closing(S)[x] = ses[x]
         /\ \A v \in Sockets :
              /\ Wakes(ClosingSockets(S)[v], sock[v])
              /\ ClosingSockets(S)[v].pc = "parked" => sock[v].sid \notin S
<1>1. \A x \in Sids : ses[x] \in SessionRecord
  BY DEF IInv, Types
<1>2. ASSUME NEW x \in S
      PROVE  Closing(S)[x] = Shut(ses[x])
  BY DEF Closing, Shut
<1>3. ASSUME NEW x \in Sids
      PROVE  /\ Closing(S)[x] \in SessionRecord
             /\ IF x \in S
                THEN /\ Closing(S)[x].st = "closed" /\ Closing(S)[x].closing = "hup"
                     /\ Closing(S)[x].ws = ses[x].ws /\ KeepsPump(Closing(S)[x], ses[x])
                ELSE Closing(S)[x] = ses[x]
  <2>1. CASE x \in S
    BY <1>1, <1>2, <2>1, Session
  <2>2. CASE x \notin S
    BY <1>1, <2>2 DEF Closing
  <2> QED
    BY <2>1, <2>2
<1>4. ASSUME NEW v \in Sockets
      PROVE  /\ Wakes(ClosingSockets(S)[v], sock[v])
             /\ ClosingSockets(S)[v].pc = "parked" => sock[v].sid \notin S
  <2> PICK q \in SocketRecord : q = sock[v]
    BY DEF IInv, Types
  <2> PICK r : r = ClosingSockets(S)[v]
    OBVIOUS
  <2>1. CASE q.pc = "parked" /\ \E s \in S : v = ses[s].writer
    <3>1. r = Goes(q, "bail")
      BY <2>1 DEF ClosingSockets, Goes
    <3> QED
      BY <2>1, <3>1, Socket DEF Wakes, Pcs, Seated, Serving
  <2>2. CASE ~(q.pc = "parked" /\ \E s \in S : v = ses[s].writer)
    <3>1. r = q
      BY <2>2 DEF ClosingSockets
    <3>2. q.pc = "parked" => ses[q.sid].writer = v
      BY DEF IInv, ParkedWriterIsTheOwner
    <3> QED
      BY <2>2, <3>1, <3>2 DEF Wakes, KeepsSeat
  <2> QED
    BY <2>1, <2>2
<1>5. Closing(S) = [x \in Sids |-> Closing(S)[x]] /\ ClosingSockets(S) = [v \in Sockets |-> ClosingSockets(S)[v]]
  BY DEF Closing, ClosingSockets
<1>6. ClosingSockets(S) \in [Sockets -> SocketRecord]
  BY <1>4, <1>5 DEF Wakes
<1> QED
  BY <1>3, <1>4, <1>5, <1>6

\* The sessions of S are closed, and nothing else happens.
LEMMA ClosingKeeps ==
  ASSUME IInv, NEW S \in SUBSET Sids, \A s \in S : ses[s].st = "open",
         ses' = Closing(S), sock' = ClosingSockets(S), registered' = registered \ S, sized' = sized
  PROVE  IInv'
<1> PICK ss \in [Sids -> SessionRecord] : ss = Closing(S)
  BY ClosingTables
<1> PICK sk \in [Sockets -> SocketRecord] : sk = ClosingSockets(S)
  BY ClosingTables
<1>1. Types'
  BY DEF IInv, Types
<1>2. ASSUME NEW x \in Sids PROVE ClosesSession(S, x)
  BY ClosingTables DEF ClosesSession, KeepsPump, KeepsLife
<1>3. ASSUME NEW v \in Sockets PROVE ClosesSocket(S, v)
  BY ClosingTables DEF ClosesSocket, Wakes, KeepsSeat, Serving
<1> QED
  BY <1>1, <1>2, <1>3, CloseStep

LEMMA CloseStartKeeps ==
  ASSUME IInv, NEW s \in Sids, CloseStart(s)
  PROVE  IInv'
<1>1. ses[s].st = "open" /\ s \notin registered
  BY DEF CloseStart, IInv, Registry, Listed
<1>2. registered' = registered \ {s}
  BY <1>1 DEF CloseStart
<1> QED
  BY <1>1, <1>2, ClosingKeeps DEF CloseStart

LEMMA ShutdownKeeps ==
  ASSUME IInv, Shutdown
  PROVE  IInv'
<1>1. registered \in SUBSET Sids /\ \A s \in registered : ses[s].st = "open"
  BY DEF IInv, Types, Registry, Listed
<1>2. registered' = registered \ registered
  BY DEF Shutdown
<1> QED
  BY <1>1, <1>2, ClosingKeeps DEF Shutdown

LEMMA KillKeeps ==
  ASSUME IInv, NEW w \in Sockets, Kill(w)
  PROVE  IInv'
<1> PICK s \in Sids : s = sock[w].sid
  BY SeatedSid DEF Kill, Receives, Seated, Serving
<1>1. sock[w].pc = "serve"
  BY DEF Kill, Receives
<1>2. CASE ses[s].st = "closed"
  BY <1>1, <1>2, LeaveKeeps DEF Kill, Seated, Serving
<1>3. CASE ses[s].st # "closed"
  <2> PICK ss \in [Sids -> SessionRecord] : ss = Closing({s})
    BY ClosingTables
  <2> PICK sk \in [Sockets -> SocketRecord] : sk = ClosingSockets({s})
    BY ClosingTables
  <2>1. ses[s].st = "open"
    BY <1>1, <1>3 DEF IInv, Seats, SeatHonest, Seated, Serving
  <2>2. ses' = ss /\ registered' = registered \ {s} /\ sized' = sized
    BY <1>3 DEF Kill
  <2>3. Goes(sk[w], "kill") \in SocketRecord /\ Goes(sk[w], "kill").pc = "kill" /\ KeepsSeat(Goes(sk[w], "kill"), sk[w])
    BY Socket DEF Pcs, Seated, Serving
  <2>4. sock' = [sk EXCEPT ![w] = Goes(sk[w], "kill")]
    BY <1>3 DEF Kill, Goes
  <2>5. sock' \in [Sockets -> SocketRecord] /\ sock'[w] = Goes(sk[w], "kill")
        /\ \A v \in Sockets \ {w} : sock'[v] = sk[v]
    BY <2>3, <2>4
  <2>6. Types'
    BY <2>2, <2>5 DEF IInv, Types
  <2>7. ASSUME NEW x \in Sids PROVE ClosesSession({s}, x)
    BY <2>2, ClosingTables DEF ClosesSession, KeepsPump, KeepsLife
  <2>8. \A v \in Sockets : Wakes(sk[v], sock[v]) /\ (sk[v].pc = "parked" => sock[v].sid \notin {s})
    BY ClosingTables
  <2>9. ASSUME NEW v \in Sockets PROVE ClosesSocket({s}, v)
    <3>1. Wakes(sk[v], sock[v]) /\ (sk[v].pc = "parked" => sock[v].sid \notin {s})
      BY <2>8
    <3>2. CASE v = w
      <4>1. sock'[w].pc = "kill" /\ KeepsSeat(sock'[w], sk[w])
        BY <2>3, <2>5
      <4> QED
        BY <1>1, <3>1, <3>2, <4>1 DEF ClosesSocket, Wakes, KeepsSeat, Serving
    <3>3. CASE v # w
      <4>1. sock'[v] = sk[v]
        BY <2>5, <3>3
      <4> QED
        BY <3>1, <4>1 DEF ClosesSocket, Wakes, KeepsSeat, Serving
    <3> QED
      BY <3>2, <3>3
  <2> QED
    BY <2>1, <2>2, <2>6, <2>7, <2>9, CloseStep
<1> QED
  BY <1>2, <1>3

\* The end of file: the session is closed if nobody did, and the pump stops.
LEMMA EndOfFileKeeps ==
  ASSUME IInv, NEW s \in Sids, EndOfFile(s)
  PROVE  IInv'
<1> PICK S \in SUBSET Sids : S = IF ses[s].st = "open" THEN {s} ELSE {}
  OBVIOUS
<1> PICK ss \in [Sids -> SessionRecord] : ss = IF ses[s].st = "open" THEN Closing({s}) ELSE ses
  BY ClosingTables DEF IInv, Types
<1> PICK sk \in [Sockets -> SocketRecord] : sk = IF ses[s].st = "open" THEN ClosingSockets({s}) ELSE sock
  BY ClosingTables DEF IInv, Types
<1>1. \A x \in Sids :
        IF x \in S
        THEN /\ ss[x].st = "closed" /\ ss[x].closing = "hup"
             /\ ss[x].ws = ses[x].ws /\ KeepsPump(ss[x], ses[x])
        ELSE ss[x] = ses[x]
  BY ClosingTables
<1>2. \A v \in Sockets : Wakes(sk[v], sock[v]) /\ (sk[v].pc = "parked" => sock[v].sid \notin S)
  <2>1. CASE ses[s].st = "open"
    BY <2>1, ClosingTables
  <2>2. CASE ses[s].st # "open"
    BY <2>2 DEF Wakes, KeepsSeat
  <2> QED
    BY <2>1, <2>2
<1> PICK r : r = [ss[s] EXCEPT !.pump = "off"]
  OBVIOUS
<1>3. /\ r \in SessionRecord /\ KeepsLife(r, ss[s]) /\ KeepsOwner(r, ss[s]) /\ r.pump = "off"
      /\ r.pumpWs = ss[s].pumpWs /\ r.lo = ss[s].lo /\ r.out = ss[s].out
  <2> PICK q \in SessionRecord : q = ss[s]
    OBVIOUS
  <2>1. r \in SessionRecord
    BY DEF SessionRecord
  <2> QED
    BY <2>1 DEF SessionRecord, KeepsLife, KeepsOwner
<1>4. ses' = [ss EXCEPT ![s] = r] /\ sock' = sk /\ sized' = sized
  BY DEF EndOfFile
<1>5. ses' \in [Sids -> SessionRecord] /\ ses'[s] = r /\ \A x \in Sids \ {s} : ses'[x] = ss[x]
  BY <1>3, <1>4
<1>6. registered' = registered \ S
  BY DEF EndOfFile, IInv, Registry, Listed
<1>7. Types'
  BY <1>4, <1>5, <1>6 DEF IInv, Types
<1>8. ASSUME NEW x \in Sids PROVE ClosesSession(S, x)
  <2>1. CASE x = s
    BY <1>1, <1>3, <1>5, <2>1 DEF EndOfFile, ClosesSession, KeepsPump, KeepsLife, KeepsOwner
  <2>2. CASE x # s
    BY <1>1, <1>5, <2>2 DEF ClosesSession, KeepsLife, KeepsPump
  <2> QED
    BY <2>1, <2>2
<1>9. ASSUME NEW v \in Sockets PROVE ClosesSocket(S, v)
  BY <1>2, <1>4 DEF ClosesSocket, Wakes, KeepsSeat, Serving
<1> QED
  BY <1>6, <1>7, <1>8, <1>9, CloseStep
-----------------------------------------------------------------------------
(* Reaping, and the sockets that arrive. *)

\* The sessions of V are popped and their close is due.
ReapedSession(V, x) ==
    /\ ses'[x].st = ses[x].st /\ KeepsPump(ses'[x], ses[x])
    /\ ses'[x].closing = IF x \in V THEN "sched" ELSE ses[x].closing

LEMMA ReapedTable ==
  ASSUME Types, NEW V
  PROVE  /\ Reaped(V) \in [Sids -> SessionRecord]
         /\ \A x \in Sids :
              /\ Reaped(V)[x].st = ses[x].st /\ KeepsPump(Reaped(V)[x], ses[x])
              /\ KeepsOwner(Reaped(V)[x], ses[x])
              /\ Reaped(V)[x].closing = IF x \in V THEN "sched" ELSE ses[x].closing
              /\ x \notin V => Reaped(V)[x] = ses[x]
<1>1. ASSUME NEW x \in Sids
      PROVE  /\ Reaped(V)[x] \in SessionRecord
             /\ Reaped(V)[x].st = ses[x].st /\ KeepsPump(Reaped(V)[x], ses[x])
             /\ KeepsOwner(Reaped(V)[x], ses[x])
             /\ Reaped(V)[x].closing = IF x \in V THEN "sched" ELSE ses[x].closing
             /\ x \notin V => Reaped(V)[x] = ses[x]
  <2>1. ses[x] \in SessionRecord
    BY DEF Types
  <2>2. CASE x \in V
    <3>1. Reaped(V)[x] = Due(ses[x])
      BY <2>2 DEF Reaped, Due
    <3> QED
      BY <2>1, <2>2, <3>1, Session
  <2>3. CASE x \notin V
    <3>1. Reaped(V)[x] = ses[x]
      BY <2>3 DEF Reaped
    <3> QED
      BY <2>1, <2>3, <3>1 DEF KeepsPump, KeepsOwner
  <2> QED
    BY <2>2, <2>3
<1>2. Reaped(V) = [x \in Sids |-> Reaped(V)[x]]
  BY DEF Reaped
<1> QED
  BY <1>1, <1>2

LEMMA RegistryReaped ==
  ASSUME Registry, NEW V \in SUBSET registered, registered' = registered \ V,
         \A x \in Sids : ReapedSession(V, x)
  PROVE  Registry'
<1>1. ASSUME NEW x \in Sids
      PROVE  /\ (ses'[x].closing \in {"hup", "fin"}) <=> (ses'[x].st = "closed")
             /\ ses'[x].closing = "sched" => ses'[x].st = "open"
             /\ Listed(x)' <=> Listed(x) /\ x \notin V
  <2>1. ReapedSession(V, x) /\ (x \in V => Listed(x))
    BY DEF Registry
  <2> QED
    BY <2>1 DEF ReapedSession, Registry, Listed
<1>2. registered' = {x \in Sids : Listed(x)'}
  BY <1>1 DEF Registry
<1> QED
  BY <1>1, <1>2 DEF Registry

\* Where a socket that arrives, or that had waited for a lock, goes next.
Arrives(w) ==
    /\ sock'[w].pc \in {"create", "prepare"} => sock'[w].sid = Nobody
    /\ sock'[w].pc = "prepare" => Creating = {} /\ Cardinality(registered') < MaxSessions
    /\ sock'[w].pc \in {"attach", "boot", "announce"} =>
         sock'[w].sid \in Sids /\ ses[sock'[w].sid].st \in {"open", "closed"}
    /\ sock'[w].pc \in {"boot", "announce"} =>
         ~AttachLocked(sock'[w].sid) /\ ses'[sock'[w].sid].ws = Nobody

LEMMA NewcomerStep ==
  ASSUME IInv, Types', NEW w \in Sockets, NEW V \in SUBSET registered, registered' = registered \ V,
         sock[w].pc \in {"new", "create", "attach"},
         sock'[w].pc \in {"done", "create", "prepare", "attach", "boot", "announce"}, Arrives(w),
         \A v \in Sockets \ {w} : Wakes(sock'[v], sock[v]),
         \A x \in Sids : ReapedSession(V, x) /\ Lets(x),
         \A v \in Sockets \ {w} : sock'[v].pc = "parked" => KeepsOwner(ses'[sock[v].sid], ses[sock[v].sid])
  PROVE  IInv'
<1>1. Ages
  BY DEF Ages, ReapedSession
<1>2. ASSUME NEW x \in Sids PROVE Ebbs(x)
  <2>1. ReapedSession(V, x) /\ Lets(x)
    OBVIOUS
  <2> QED
    BY <2>1 DEF Ebbs, ReapedSession, KeepsPump
<1>3. OwnersStay
  <2>1. ASSUME NEW x \in Sids, ses'[x].ws # Nobody
        PROVE  /\ sock'[ses'[x].ws].sid = sock[ses'[x].ws].sid
               /\ sock'[ses'[x].ws].seen = sock[ses'[x].ws].seen
               /\ sock'[ses'[x].ws].pc \in {"replay"} \union Serving
    <3> PICK v : v = ses'[x].ws
      OBVIOUS
    <3>1. v = ses[x].ws /\ v \in Sockets
      BY <2>1 DEF Lets, IInv, Types, SessionRecord, Peer
    <3>2. sock[v].pc \in {"replay"} \union Serving
      BY <2>1, <3>1 DEF IInv, Owners
    <3>3. Wakes(sock'[v], sock[v])
      BY <3>1, <3>2 DEF Serving
    <3> QED
      BY <3>2, <3>3 DEF Wakes, KeepsSeat, Serving
  <2>2. ASSUME NEW x \in Sids, ses'[x].pumpWs # Nobody
        PROVE  /\ sock'[ses'[x].pumpWs].sid = sock[ses'[x].pumpWs].sid
               /\ sock'[ses'[x].pumpWs].pc \in {"replay", "done"} \union Serving
    <3> PICK v : v = ses'[x].pumpWs
      OBVIOUS
    <3>1. v = ses[x].pumpWs /\ v \in Sockets
      BY <2>2 DEF ReapedSession, KeepsPump, IInv, Types, SessionRecord, Peer
    <3>2. sock[v].pc \in {"replay", "done"} \union Serving
      BY <2>2, <3>1 DEF IInv, Owners
    <3>3. Wakes(sock'[v], sock[v])
      BY <3>1, <3>2 DEF Serving
    <3> QED
      BY <3>2, <3>3 DEF Wakes, KeepsSeat, Serving
  <2> QED
    BY <2>1, <2>2 DEF OwnersStay
<1>4. Owners' /\ Ring' /\ Shown'
  BY <1>1, <1>2, <1>3, ShownKept DEF IInv
<1>5. Registry'
  BY RegistryReaped DEF IInv
<1>6. Seats'
  <2>1. SeatHonest(w)'
    <3>1. sock'[w].sid \in Sids => ses'[sock'[w].sid].st = ses[sock'[w].sid].st
      BY DEF ReapedSession
    <3> QED
      BY <3>1 DEF SeatHonest, Arrives, Seated, Attaching, Serving
  <2>2. ASSUME NEW v \in Sockets \ {w} PROVE SeatHonest(v)'
    <3>1. Wakes(sock'[v], sock[v]) /\ SeatHonest(v)
      BY DEF IInv, Seats
    <3>2. sock[v].sid \in Sids => ses'[sock[v].sid].st = ses[sock[v].sid].st
      BY DEF ReapedSession
    <3> QED
      BY <3>1, <3>2 DEF Wakes, KeepsSeat, SeatHonest, Seated, Attaching, Serving
  <2>3. ASSUME NEW u \in Sockets, NEW v \in Sockets,
               sock'[u].pc \in Attaching, sock'[v].pc \in Attaching, sock'[u].sid = sock'[v].sid
        PROVE  u = v
    <3>1. ASSUME NEW x \in Sockets \ {w}, sock'[x].pc \in Attaching
          PROVE  sock[x].pc \in Attaching /\ sock[x].sid = sock'[x].sid
      <4>1. Wakes(sock'[x], sock[x])
        OBVIOUS
      <4> QED
        BY <3>1, <4>1 DEF Wakes, KeepsSeat, Attaching
    <3>2. CASE u # w /\ v # w
      BY <2>3, <3>1, <3>2 DEF IInv, Seats, AttachLock
    <3>3. CASE u = w /\ v # w
      BY <2>3, <3>1, <3>3 DEF Arrives, AttachLocked, Attaching
    <3>4. CASE v = w /\ u # w
      BY <2>3, <3>1, <3>4 DEF Arrives, AttachLocked, Attaching
    <3> QED
      BY <3>2, <3>3, <3>4
  <2> QED
    BY <2>1, <2>2, <2>3 DEF Seats, AttachLock
<1>7. Handover'
  <2>1. ASSUME NEW v \in Sockets, sock'[v].pc \in {"boot", "announce", "snap"}
        PROVE  ses'[sock'[v].sid].ws = Nobody
    <3>1. CASE v = w
      BY <2>1, <3>1 DEF Arrives
    <3>2. CASE v # w
      <4>1. Wakes(sock'[v], sock[v])
        BY <3>2
      <4>2. sock[v].pc \in {"boot", "announce", "snap"} /\ sock'[v].sid = sock[v].sid
        BY <2>1, <4>1 DEF Wakes, KeepsSeat
      <4>3. sock[v].sid \in Sids
        BY <4>2, SeatedSid DEF Seated, Attaching
      <4> QED
        BY <4>2, <4>3 DEF IInv, Handover, Lets
    <3> QED
      BY <3>1, <3>2
  <2> QED
    BY <2>1 DEF Handover
<1>8. Creation'
  <2>1. ASSUME NEW v \in Sockets \ {w} PROVE v \in Creating' => v \in Creating
    <3>1. Wakes(sock'[v], sock[v])
      OBVIOUS
    <3> QED
      BY <3>1 DEF Wakes, Creating
  <2>2. CASE sock'[w].pc # "prepare"
    <3>1. Creating' \subseteq Creating
      BY <2>1, <2>2 DEF Creating
    <3> QED
      BY <3>1, CreationKept DEF IInv
  <2>3. CASE sock'[w].pc = "prepare"
    <3>1. Creating' \subseteq {w}
      BY <2>1, <2>3 DEF Arrives, Creating
    <3>2. Cardinality(registered') < MaxSessions
      BY <2>3 DEF Arrives
    <3>3. Cardinality(registered') \in Nat
      BY TerminalAssumption, FS_Subset, FS_CardinalityType DEF Types
    <3>4. Cardinality(registered') <= MaxSessions
      BY <3>2, <3>3, TerminalAssumption
    <3> QED
      BY <3>1, <3>2, <3>4 DEF Creation
  <2> QED
    BY <2>2, <2>3
<1>9. ParkedWriterIsTheOwner'
  <2>1. ASSUME NEW v \in Sockets, sock'[v].pc = "parked"
        PROVE  /\ ses'[sock'[v].sid].writer = v
               /\ ses'[sock'[v].sid].st = "open" /\ ses'[sock'[v].sid].ws = v
    <3>1. v # w
      BY <2>1
    <3>2. Wakes(sock'[v], sock[v])
      BY <3>1
    <3>3. sock[v].pc = "parked" /\ sock'[v].sid = sock[v].sid
      BY <2>1, <3>2 DEF Wakes, KeepsSeat
    <3> PICK x \in Sids : x = sock[v].sid
      BY <3>3, SeatedSid DEF Seated, Serving
    <3>4. ses[x].writer = v /\ ses[x].st = "open" /\ ses[x].ws = v
      BY <3>3 DEF IInv, ParkedWriterIsTheOwner, Owns
    <3>5. KeepsOwner(ses'[x], ses[x]) /\ ses'[x].st = ses[x].st
      BY <2>1, <3>1 DEF ReapedSession
    <3> QED
      BY <3>3, <3>4, <3>5 DEF KeepsOwner
  <2> QED
    BY <2>1 DEF ParkedWriterIsTheOwner, Owns
<1> QED
  BY <1>4, <1>5, <1>6, <1>7, <1>8, <1>9 DEF IInv

LEMMA StaleListed ==
  /\ Stale \subseteq registered
  /\ \A V \in Victims : V \subseteq registered
BY DEF Stale, Victims, Idle

LEMMA SweepKeeps ==
  ASSUME IInv, Sweep
  PROVE  IInv'
<1> PICK V \in SUBSET registered : V = Stale
  BY StaleListed
<1>1. ses' = Reaped(V) /\ registered' = registered \ V /\ sock' = sock /\ sized' = sized
  BY DEF Sweep
<1>2. ses' \in [Sids -> SessionRecord] /\ \A x \in Sids : ReapedSession(V, x) /\ KeepsOwner(ses'[x], ses[x])
  BY <1>1, ReapedTable DEF IInv, ReapedSession
<1>3. Types' /\ Registry'
  BY <1>1, <1>2, RegistryReaped DEF IInv, Types
<1>4. Walks
  BY <1>1 DEF Walks, IInv, Seats, SeatHonest
<1>5. Ages
  BY <1>2 DEF Ages, ReapedSession
<1>6. ASSUME NEW x \in Sids PROVE Ebbs(x)
  BY <1>2 DEF Ebbs, Lets, ReapedSession, KeepsPump, KeepsOwner
<1>7. \A v \in Sockets : Serves(sock'[v], sock[v])
  BY <1>1 DEF Serves
<1>8. OwnersStay
  BY <1>2, <1>7, ServingOwnersStay DEF IInv, ReapedSession, KeepsPump, KeepsOwner
<1>9. ParkedWriterIsTheOwner'
  <2>1. ASSUME NEW v \in Sockets, sock[v].pc = "parked"
        PROVE  ses'[sock[v].sid].writer = v /\ ses'[sock[v].sid].st = "open" /\ ses'[sock[v].sid].ws = v
    <3> PICK x \in Sids : x = sock[v].sid
      BY <2>1, SeatedSid DEF Seated, Serving
    <3> QED
      BY <1>2, <2>1 DEF IInv, ParkedWriterIsTheOwner, Owns, ReapedSession, KeepsOwner
  <2> QED
    BY <1>1, <2>1 DEF ParkedWriterIsTheOwner, Owns
<1>10. registered' \subseteq registered
  BY <1>1
<1> QED
  BY <1>3, <1>4, <1>5, <1>6, <1>8, <1>9, <1>10, EbbStep

\* A socket that takes no session yet: it waits, prepares one, or is gone.
LEMMA WaitsKeeps ==
  ASSUME IInv, NEW w \in Sockets, NEW V \in SUBSET registered, NEW r \in SocketRecord,
         sock[w].pc \in {"new", "create", "attach"},
         sock' = [sock EXCEPT ![w] = r], ses' = Reaped(V), registered' = registered \ V, sized' = sized,
         r.pc \in {"done", "create", "prepare", "attach"},
         r.pc \in {"create", "prepare"} => r.sid = Nobody,
         r.pc = "prepare" => Creating = {} /\ Cardinality(registered') < MaxSessions,
         r.pc = "attach" => r.sid \in Sids /\ ses[r.sid].st \in {"open", "closed"}
  PROVE  IInv'
<1>1. ses' \in [Sids -> SessionRecord] /\ \A x \in Sids : ReapedSession(V, x) /\ KeepsOwner(ses'[x], ses[x])
  BY ReapedTable DEF IInv, ReapedSession
<1>2. sock' \in [Sockets -> SocketRecord] /\ sock'[w] = r /\ \A v \in Sockets \ {w} : sock'[v] = sock[v]
  BY DEF IInv, Types
<1>3. Types'
  BY <1>1, <1>2 DEF IInv, Types
<1>4. Arrives(w)
  BY <1>2 DEF Arrives
<1>5. \A v \in Sockets \ {w} : Wakes(sock'[v], sock[v])
  BY <1>2 DEF Wakes, KeepsSeat, IInv, Types
<1>6. \A x \in Sids : ReapedSession(V, x) /\ Lets(x)
  BY <1>1 DEF Lets, KeepsOwner
<1>7. ASSUME NEW v \in Sockets \ {w}, sock'[v].pc = "parked"
      PROVE  KeepsOwner(ses'[sock[v].sid], ses[sock[v].sid])
  <2>1. sock[v].sid \in Sids
    BY <1>2, <1>7, SeatedSid DEF Seated, Serving
  <2> QED
    BY <1>1, <2>1
<1> QED
  BY <1>2, <1>3, <1>4, <1>5, <1>6, <1>7, NewcomerStep

LEMMA TakeCreateKeeps ==
  ASSUME IInv, NEW w \in Sockets, TakeCreate(w)
  PROVE  IInv'
<1> PICK V \in SUBSET registered :
      /\ registered' = registered \ V
      /\ ses' = Reaped(V)
      /\ IF Cardinality(registered \ V) >= MaxSessions
         THEN TurnAway(w)
         ELSE sock' = [sock EXCEPT ![w].pc = "prepare"]
  <2>1. PICK V : /\ V \in Victims \union {{}}
                 /\ registered' = registered \ V
                 /\ ses' = Reaped(V)
                 /\ IF Cardinality(registered \ V) >= MaxSessions
                    THEN TurnAway(w)
                    ELSE sock' = [sock EXCEPT ![w].pc = "prepare"]
    BY DEF TakeCreate
  <2>2. V \in SUBSET registered
    BY <2>1, StaleListed
  <2> QED
    BY <2>1, <2>2
<1> PICK q \in SocketRecord : q = sock[w]
  BY DEF IInv, Types
<1>1. sock[w].pc = "create" /\ Creating = {} /\ sized' = sized /\ q.sid = Nobody
  BY DEF TakeCreate, IInv, Seats, SeatHonest
<1> PICK left : left = registered \ V
  OBVIOUS
<1>2. CASE Cardinality(left) >= MaxSessions
  <2> PICK r \in SocketRecord : r = Turned(q)
    BY Socket
  <2>1. sock' = [sock EXCEPT ![w] = r]
    BY <1>2 DEF TurnAway, Turned, IInv, Types
  <2>2. r.pc = "done"
    BY Socket
  <2> QED
    BY <1>1, <2>1, <2>2, WaitsKeeps
<1>3. CASE ~(Cardinality(left) >= MaxSessions)
  <2> PICK r \in SocketRecord : r = Goes(q, "prepare")
    BY GoesTo DEF Pcs
  <2>1. sock' = [sock EXCEPT ![w] = r]
    BY <1>3 DEF Goes, IInv, Types
  <2>2. r.pc = "prepare" /\ r.sid = Nobody
    <3>1. "prepare" \in Pcs
      BY DEF Pcs
    <3> QED
      BY <1>1, <3>1, GoesTo
  <2>3. Cardinality(left) \in Nat
    BY TerminalAssumption, FS_Subset, FS_CardinalityType DEF IInv, Types
  <2>4. Cardinality(left) < MaxSessions
    BY <1>3, <2>3, TerminalAssumption
  <2>5. Cardinality(registered') < MaxSessions
    BY <2>4
  <2> QED
    BY <1>1, <2>1, <2>2, <2>5, WaitsKeeps
<1> QED
  BY <1>2, <1>3

\* The attach lock is taken: by a socket that is let straight in, or one whose
\* predecessor is being closed.
LEMMA EnterKeeps ==
  ASSUME IInv, NEW w \in Sockets, NEW s \in Sids, NEW V \in SUBSET registered, s \notin V,
         NEW q \in SocketRecord, q.pc \in {"new", "attach"}, sock[w].pc \in {"new", "attach"},
         NEW sk, sk = [sock EXCEPT ![w] = q], NEW ss, ss = Reaped(V),
         ses[s].st \in {"open", "closed"}, ~AttachLocked(s), Enter(w, s, sk, ss),
         registered' = registered \ V, sized' = sized
  PROVE  IInv'
<1>1. /\ ss \in [Sids -> SessionRecord] /\ ss[s] = ses[s]
      /\ \A x \in Sids :
           /\ ss[x].st = ses[x].st /\ KeepsPump(ss[x], ses[x]) /\ KeepsOwner(ss[x], ses[x])
           /\ ss[x].closing = IF x \in V THEN "sched" ELSE ses[x].closing
  BY ReapedTable DEF IInv
<1>2. sk \in [Sockets -> SocketRecord] /\ sk[w] = q /\ \A v \in Sockets \ {w} : sk[v] = sock[v]
  BY DEF IInv, Types
<1> PICK old : old = ses[s].ws
  OBVIOUS
<1>3. old \in Peer /\ s \in Sid /\ Nobody \in Peer
  BY DEF IInv, Types, SessionRecord, Peer, Sid
<1>4. CASE old = Nobody
  <2>1. ses' = ss
    BY <1>1, <1>4 DEF Enter
  <2> PICK r : r = [q EXCEPT !.pc = "announce", !.sid = s]
    OBVIOUS
  <2>2. r \in SocketRecord /\ r.pc = "announce" /\ r.sid = s
    BY <1>3 DEF SocketRecord, Seated, Attaching
  <2>3. sock' = [sk EXCEPT ![w] = r]
    BY <1>1, <1>2, <1>4 DEF Enter
  <2>4. sock' \in [Sockets -> SocketRecord] /\ sock'[w] = r /\ \A v \in Sockets \ {w} : sock'[v] = sock[v]
    BY <1>2, <2>2, <2>3
  <2>5. Types'
    BY <1>1, <2>1, <2>4 DEF IInv, Types
  <2>6. Arrives(w)
    <3>1. sock'[w].pc = "announce" /\ sock'[w].sid = s
      BY <2>2, <2>4
    <3>2. ses'[s].ws = Nobody
      BY <1>1, <1>4, <2>1
    <3> QED
      BY <3>1, <3>2 DEF Arrives
  <2>7. \A v \in Sockets \ {w} : Wakes(sock'[v], sock[v])
    BY <2>4 DEF Wakes, KeepsSeat, IInv, Types
  <2>8. \A x \in Sids : ReapedSession(V, x) /\ Lets(x)
    BY <1>1, <2>1 DEF ReapedSession, Lets, KeepsOwner
  <2>9. ASSUME NEW v \in Sockets \ {w}, sock'[v].pc = "parked"
        PROVE  KeepsOwner(ses'[sock[v].sid], ses[sock[v].sid])
    <3>1. sock[v].sid \in Sids
      BY <2>4, <2>9, SeatedSid DEF Seated, Serving
    <3> QED
      BY <1>1, <2>1, <3>1
  <2> QED
    BY <2>2, <2>4, <2>5, <2>6, <2>7, <2>8, <2>9, NewcomerStep
<1>5. CASE old # Nobody
  <2>1. ses' = [ss EXCEPT ![s] = Freed(ss[s])]
    BY <1>1, <1>5 DEF Enter, Freed
  <2>2. Freed(ss[s]) \in SessionRecord /\ Freed(ss[s]).ws = Nobody
        /\ KeepsLife(Freed(ss[s]), ss[s]) /\ KeepsPump(Freed(ss[s]), ss[s])
    BY <1>1, Session
  <2>3. /\ ses' \in [Sids -> SessionRecord] /\ ses'[s] = Freed(ss[s])
        /\ \A x \in Sids \ {s} : ses'[x] = ss[x]
    BY <1>1, <2>1, <2>2
  <2> PICK r : r = [q EXCEPT !.pc = "boot", !.sid = s, !.old = old]
    OBVIOUS
  <2>4. r \in SocketRecord /\ r.pc = "boot" /\ r.sid = s
    BY <1>3 DEF SocketRecord, Seated, Attaching
  <2> PICK bailed : bailed = Bailed(sk, s)
    OBVIOUS
  <2>5. bailed[w] = q /\ bailed = [v \in Sockets |-> bailed[v]]
        /\ \A v \in Sockets \ {w} : bailed[v] = Bailed(sock, s)[v]
    BY <1>2 DEF Bailed
  <2>6. ASSUME NEW v \in Sockets \ {w}
        PROVE  Wakes(bailed[v], sock[v]) /\ (v = ses[s].writer => bailed[v].pc # "parked")
    BY <2>5, BailedWakes DEF IInv
  <2>7. sock' = [bailed EXCEPT ![w] = r]
    <3>1. sock' = [bailed EXCEPT ![w].pc = "boot", ![w].sid = s, ![w].old = old]
      BY <1>1, <1>5 DEF Enter
    <3> QED
      BY <2>5, <3>1
  <2>8. /\ sock' = [v \in Sockets |-> IF v = w THEN r ELSE bailed[v]]
    BY <2>5, <2>7
  <2>9. sock' \in [Sockets -> SocketRecord] /\ sock'[w] = r /\ \A v \in Sockets \ {w} : sock'[v] = bailed[v]
    BY <2>4, <2>6, <2>8 DEF Wakes
  <2>10. Types'
    BY <2>3, <2>9 DEF IInv, Types
  <2>11. Arrives(w)
    BY <2>2, <2>3, <2>4, <2>9 DEF Arrives
  <2>12. \A v \in Sockets \ {w} : Wakes(sock'[v], sock[v])
    BY <2>6, <2>9
  <2>13. ASSUME NEW x \in Sids PROVE ReapedSession(V, x) /\ Lets(x)
    <3>1. CASE x = s
      BY <1>1, <2>2, <2>3, <3>1 DEF ReapedSession, Lets, KeepsLife, KeepsPump
    <3>2. CASE x # s
      BY <1>1, <2>3, <3>2 DEF ReapedSession, Lets, KeepsOwner
    <3> QED
      BY <3>1, <3>2
  <2>14. ASSUME NEW v \in Sockets \ {w}, sock'[v].pc = "parked"
         PROVE  KeepsOwner(ses'[sock[v].sid], ses[sock[v].sid])
    <3>1. sock'[v] = bailed[v] /\ Wakes(bailed[v], sock[v])
      BY <2>6, <2>9
    <3>2. v # ses[s].writer
      BY <2>6, <2>14, <3>1
    <3>3. sock[v].pc = "parked"
      BY <2>14, <3>1 DEF Wakes
    <3>4. sock[v].sid \in Sids /\ ses[sock[v].sid].writer = v
      BY <3>3, SeatedSid DEF Seated, Serving, IInv, ParkedWriterIsTheOwner
    <3>5. sock[v].sid # s
      BY <3>2, <3>4
    <3> QED
      BY <1>1, <2>3, <3>4, <3>5
  <2> QED
    BY <2>4, <2>9, <2>10, <2>11, <2>12, <2>13, <2>14, NewcomerStep
<1> QED
  BY <1>4, <1>5

LEMMA TakeAttachKeeps ==
  ASSUME IInv, NEW w \in Sockets, TakeAttach(w)
  PROVE  IInv'
<1> PICK s \in Sids : s = sock[w].sid
  BY SeatedSid DEF TakeAttach
<1> PICK q \in SocketRecord : q = sock[w]
  BY DEF IInv, Types
<1> PICK sk : sk = sock
  OBVIOUS
<1> PICK ss : ss = ses
  OBVIOUS
<1>1. sk = [sock EXCEPT ![w] = q]
  BY DEF IInv, Types
<1>2. ss = Reaped({})
  BY DEF Reaped, IInv, Types
<1>3. {} \in SUBSET registered /\ registered' = registered \ {} /\ sized' = sized
  BY DEF TakeAttach
<1>4. sock[w].pc = "attach" /\ ~AttachLocked(s) /\ Enter(w, s, sk, ss)
  BY DEF TakeAttach
<1>5. ses[s].st \in {"open", "closed"}
  BY <1>4 DEF IInv, Seats, SeatHonest
<1> QED
  BY <1>1, <1>2, <1>3, <1>4, <1>5, EnterKeeps

LEMMA ConnectKeeps ==
  ASSUME IInv, NEW w \in Sockets, NEW sid \in Asked, Connect(w, sid)
  PROVE  IInv'
<1> PICK q \in SocketRecord : q = sock[w]
  BY DEF IInv, Types
<1> PICK V \in SUBSET registered : V = Stale
  BY StaleListed
<1> PICK o : o = [q EXCEPT !.open = TRUE]
  OBVIOUS
<1>1. o \in SocketRecord /\ o.pc = "new" /\ o.sid = Nobody /\ KeepsSeat(o, q)
  BY DEF Connect, SocketRecord, KeepsSeat, IInv, Seats, SeatHonest
<1> PICK opened : opened = [sock EXCEPT ![w] = o]
  OBVIOUS
<1>2. opened = [sock EXCEPT ![w].open = TRUE] /\ opened[w] = o /\ sock[w].pc = "new"
  BY DEF Connect, IInv, Types
<1> PICK swept : swept = Reaped(V)
  OBVIOUS
<1>3. registered' = registered \ V /\ sized' = sized
  BY DEF Connect
<1>4. CASE sid \in registered \ V /\ ses[sid].st # "closed"
  <2>1. sid \in Sids /\ sid \notin V /\ ses[sid].st = "open"
    BY <1>4 DEF IInv, Types, Registry, Listed
  <2>2. CASE AttachLocked(sid)
    <3> PICK r : r = [o EXCEPT !.pc = "attach", !.sid = sid]
      OBVIOUS
    <3>1. sid \in Sid
      BY <2>1 DEF Sid
    <3>2. r \in SocketRecord /\ r.pc = "attach" /\ r.sid = sid
      BY <1>1, <3>1 DEF SocketRecord
    <3>3. sock' = [opened EXCEPT ![w].pc = "attach", ![w].sid = sid] /\ ses' = swept
      BY <1>2, <1>4, <2>2 DEF Connect
    <3>4. sock' = [sock EXCEPT ![w] = r]
      BY <1>1, <1>2, <3>3 DEF IInv, Types
    <3>5. r.sid \in Sids /\ ses[r.sid].st \in {"open", "closed"}
      BY <2>1, <3>2
    <3>6. ses' = Reaped(V) /\ sock[w].pc = "new"
      BY <1>2, <3>3
    <3> QED
      BY <1>3, <3>2, <3>4, <3>5, <3>6, WaitsKeeps
  <2>3. CASE ~AttachLocked(sid)
    <3>1. Enter(w, sid, opened, swept)
      BY <1>2, <1>4, <2>3 DEF Connect
    <3> QED
      BY <1>1, <1>2, <1>3, <2>1, <2>3, <3>1, EnterKeeps
  <2> QED
    BY <2>2, <2>3
<1>5. CASE TurnAway(w) /\ ses' = swept
  <2> PICK r \in SocketRecord : r = Turned(q)
    BY Socket
  <2>1. sock' = [sock EXCEPT ![w] = r]
    BY <1>5 DEF TurnAway, Turned, IInv, Types
  <2>2. r.pc = "done"
    BY Socket
  <2> QED
    BY <1>2, <1>3, <1>5, <2>1, <2>2, WaitsKeeps
<1>6. CASE sock' = [opened EXCEPT ![w].pc = "create"] /\ ses' = swept
  <2> PICK r \in SocketRecord : r = Goes(o, "create")
    BY <1>1, Socket DEF Pcs
  <2>1. sock' = [sock EXCEPT ![w] = r]
    BY <1>2, <1>6 DEF Goes, IInv, Types
  <2>2. r.pc = "create" /\ r.sid = Nobody
    <3>1. "create" \in Pcs
      BY DEF Pcs
    <3> QED
      BY <1>1, <3>1, GoesTo
  <2> QED
    BY <1>2, <1>3, <1>6, <2>1, <2>2, WaitsKeeps
<1> QED
  BY <1>2, <1>4, <1>5, <1>6 DEF Connect
-----------------------------------------------------------------------------
(* The pump, and the end of a close. *)

\* Nothing closes or opens: at most owners go, and their writers are woken.
LEMMA QuietStep ==
  ASSUME IInv, Types', registered' = registered,
         \A v \in Sockets : Wakes(sock'[v], sock[v]),
         \A x \in Sids : KeepsLife(ses'[x], ses[x]) /\ Ebbs(x),
         \A v \in Sockets : sock'[v].pc = "parked" => KeepsOwner(ses'[sock[v].sid], ses[sock[v].sid])
  PROVE  IInv'
<1>1. Walks
  BY DEF Wakes, KeepsSeat, Walks, Serving, IInv, Seats, SeatHonest
<1>2. Ages
  BY DEF Ages, KeepsLife
<1>3. \A v \in Sockets : Serves(sock'[v], sock[v])
  BY DEF Wakes, KeepsSeat, Serves, Serving
<1>4. \A x \in Sids : ses'[x].ws \in {ses[x].ws, Nobody} /\ ses'[x].pumpWs \in {ses[x].pumpWs, Nobody}
  BY DEF Ebbs, Lets
<1>5. OwnersStay
  BY <1>3, <1>4, ServingOwnersStay DEF IInv
<1>6. Registry'
  BY RegistryKept DEF IInv
<1>7. ParkedWriterIsTheOwner'
  <2>1. ASSUME NEW v \in Sockets, sock'[v].pc = "parked"
        PROVE  /\ ses'[sock'[v].sid].writer = v
               /\ ses'[sock'[v].sid].st = "open" /\ ses'[sock'[v].sid].ws = v
    <3>1. Wakes(sock'[v], sock[v])
      OBVIOUS
    <3>2. sock[v].pc = "parked" /\ sock'[v].sid = sock[v].sid
      BY <2>1, <3>1 DEF Wakes, KeepsSeat
    <3> PICK x \in Sids : x = sock[v].sid
      BY <3>2, SeatedSid DEF Seated, Serving
    <3>3. ses[x].writer = v /\ ses[x].st = "open" /\ ses[x].ws = v
      BY <3>2 DEF IInv, ParkedWriterIsTheOwner, Owns
    <3>4. KeepsOwner(ses'[x], ses[x]) /\ KeepsLife(ses'[x], ses[x])
      BY <2>1
    <3> QED
      BY <3>2, <3>3, <3>4 DEF KeepsOwner, KeepsLife
  <2> QED
    BY <2>1 DEF ParkedWriterIsTheOwner, Owns
<1> QED
  BY <1>1, <1>2, <1>5, <1>6, <1>7, EbbStep

LEMMA PumpLockKeeps ==
  ASSUME IInv, NEW s \in Sids, PumpLock(s)
  PROVE  IInv'
<1> PICK q \in SessionRecord : q = ses[s]
  BY DEF IInv, Types
<1> PICK r : r = IF q.ws = q.pumpWs THEN [q EXCEPT !.pump = "send"]
                 ELSE [q EXCEPT !.pump = "read", !.pumpWs = Nobody]
  OBVIOUS
<1>1. q.pump = "want" /\ UNCHANGED <<sock, registered, sized>>
  BY DEF PumpLock
<1>2. r \in SessionRecord
  <2>1. Nobody \in Peer
    BY DEF Peer
  <2> QED
    BY <2>1 DEF SessionRecord
<1>3. /\ KeepsLife(r, q) /\ KeepsOwner(r, q) /\ r.lo = q.lo /\ r.out = q.out
      /\ IF q.ws = q.pumpWs THEN r.pump = "send" /\ r.pumpWs = q.pumpWs
         ELSE r.pump = "read" /\ r.pumpWs = Nobody
  BY DEF SessionRecord, KeepsLife, KeepsOwner
<1>4. ses' = [ses EXCEPT ![s] = r]
  BY DEF PumpLock, Owns, IInv, Types
<1>5. ses' \in [Sids -> SessionRecord] /\ ses'[s] = r /\ \A x \in Sids \ {s} : ses'[x] = ses[x]
  BY <1>2, <1>4 DEF IInv, Types
<1>6. Types'
  BY <1>1, <1>5 DEF IInv, Types
<1>7. ASSUME NEW x \in Sids PROVE KeepsLife(ses'[x], ses[x]) /\ Ebbs(x) /\ KeepsOwner(ses'[x], ses[x])
  <2>1. CASE x = s
    <3>1. KeepsLife(r, q) /\ KeepsOwner(r, q) /\ r.lo = q.lo /\ r.out = q.out /\ r.ws = q.ws
      BY <1>3 DEF KeepsOwner
    <3>2. CASE q.ws = q.pumpWs
      BY <1>1, <1>3, <1>5, <2>1, <3>1, <3>2 DEF Ebbs, Lets
    <3>3. CASE q.ws # q.pumpWs
      BY <1>1, <1>3, <1>5, <2>1, <3>1, <3>3 DEF Ebbs, Lets
    <3> QED
      BY <3>2, <3>3
  <2>2. CASE x # s
    BY <1>5, <2>2 DEF KeepsLife, KeepsOwner, Ebbs, Lets
  <2> QED
    BY <2>1, <2>2
<1>8. \A v \in Sockets : Wakes(sock'[v], sock[v])
  BY <1>1 DEF Wakes, KeepsSeat, IInv, Types
<1>9. ASSUME NEW v \in Sockets, sock'[v].pc = "parked"
      PROVE  KeepsOwner(ses'[sock[v].sid], ses[sock[v].sid])
  <2>1. sock[v].sid \in Sids
    BY <1>1, <1>9, SeatedSid DEF Seated, Serving
  <2> QED
    BY <1>7, <2>1
<1> QED
  BY <1>1, <1>6, <1>7, <1>8, <1>9, QuietStep

LEMMA PumpFailedKeeps ==
  ASSUME IInv, NEW s \in Sids, PumpFailed(s)
  PROVE  IInv'
<1> PICK w : w = ses[s].pumpWs
  OBVIOUS
<1> PICK ss \in [Sids -> SessionRecord] : ss = DetachedSession(s, w)
  BY DetachedTables DEF IInv
<1>1. ses[s].pump = "send" /\ registered' = registered /\ sized' = sized /\ sock' = DetachedSockets(s, w)
  BY DEF PumpFailed
<1> PICK q \in SessionRecord : q = ss[s]
  OBVIOUS
<1> PICK r : r = [q EXCEPT !.pump = "read", !.pumpWs = Nobody]
  OBVIOUS
<1>2. r \in SessionRecord
  <2>1. Nobody \in Peer
    BY DEF Peer
  <2> QED
    BY <2>1 DEF SessionRecord
<1>3. /\ KeepsLife(r, q) /\ KeepsOwner(r, q) /\ r.lo = q.lo /\ r.out = q.out
      /\ r.pump = "read" /\ r.pumpWs = Nobody
  BY DEF SessionRecord, KeepsLife, KeepsOwner
<1>4. ses' = [ss EXCEPT ![s] = r]
  BY DEF PumpFailed
<1>5. ses' \in [Sids -> SessionRecord] /\ ses'[s] = r /\ \A x \in Sids \ {s} : ses'[x] = ss[x]
  BY <1>2, <1>4
<1>6. ASSUME NEW x \in Sids
      PROVE  /\ KeepsLife(ss[x], ses[x]) /\ KeepsPump(ss[x], ses[x])
             /\ IF x = s /\ ses[s].ws = w THEN ss[x].ws = Nobody ELSE KeepsOwner(ss[x], ses[x])
  BY Detached DEF IInv
<1>7. ASSUME NEW x \in Sids
      PROVE  /\ KeepsLife(ses'[x], ses[x]) /\ Ebbs(x)
             /\ ~(x = s /\ ses[s].ws = w) => KeepsOwner(ses'[x], ses[x])
  <2>1. CASE x = s
    <3>1. KeepsLife(r, ses[s]) /\ r.lo = ses[s].lo /\ r.out = ses[s].out
      BY <1>3, <1>6 DEF KeepsLife, KeepsPump
    <3>2. r.ws \in {ses[s].ws, Nobody} /\ (w = Nobody \/ r.ws # w)
      BY <1>3, <1>6 DEF KeepsOwner
    <3>3. ~(ses[s].ws = w) => KeepsOwner(r, ses[s])
      BY <1>3, <1>6 DEF KeepsOwner
    <3> QED
      BY <1>1, <1>3, <1>5, <2>1, <3>1, <3>2, <3>3 DEF Ebbs, Lets
  <2>2. CASE x # s
    BY <1>5, <1>6, <2>2 DEF Ebbs, Lets, KeepsPump, KeepsOwner
  <2> QED
    BY <2>1, <2>2
<1>8. ASSUME NEW v \in Sockets
      PROVE  Wakes(sock'[v], sock[v]) /\ (ses[s].ws = w /\ v = ses[s].writer => sock'[v].pc # "parked")
  BY <1>1, DetachedWakes DEF IInv
<1>9. Types'
  <2>1. sock' \in [Sockets -> SocketRecord]
    BY <1>1, DetachedTables DEF IInv
  <2> QED
    BY <1>1, <1>5, <2>1 DEF IInv, Types
<1>10. ASSUME NEW v \in Sockets, sock'[v].pc = "parked"
       PROVE  KeepsOwner(ses'[sock[v].sid], ses[sock[v].sid])
  <2>1. sock[v].pc = "parked" /\ ~(ses[s].ws = w /\ v = ses[s].writer)
    BY <1>8, <1>10 DEF Wakes
  <2>2. sock[v].sid \in Sids /\ ses[sock[v].sid].writer = v
    BY <2>1, SeatedSid DEF Seated, Serving, IInv, ParkedWriterIsTheOwner
  <2> QED
    BY <1>7, <2>1, <2>2
<1> QED
  BY <1>1, <1>7, <1>8, <1>9, <1>10, QuietStep

LEMMA CloseFinishKeeps ==
  ASSUME IInv, NEW s \in Sids, CloseFinish(s)
  PROVE  IInv'
<1> PICK q \in SessionRecord : q = ses[s]
  BY DEF IInv, Types
<1> PICK r : r = [q EXCEPT !.closing = "fin", !.pump = "off", !.pumpWs = Nobody, !.ws = Nobody]
  OBVIOUS
<1>1. q.closing = "hup" /\ q.st = "closed" /\ registered' = registered /\ sized' = sized
  BY DEF CloseFinish, IInv, Registry
<1>2. r \in SessionRecord
  <2>1. Nobody \in Peer
    BY DEF Peer
  <2> QED
    BY <2>1 DEF SessionRecord
<1>3. /\ r.st = q.st /\ r.closing = "fin" /\ r.lo = q.lo /\ r.out = q.out
      /\ r.pump = "off" /\ r.pumpWs = Nobody /\ r.ws = Nobody
  BY DEF SessionRecord
<1>4. ses' = [ses EXCEPT ![s] = r]
  BY DEF CloseFinish, IInv, Types
<1>5. ses' \in [Sids -> SessionRecord] /\ ses'[s] = r /\ \A x \in Sids \ {s} : ses'[x] = ses[x]
  BY <1>2, <1>4 DEF IInv, Types
<1>6. ASSUME NEW v \in Sockets
      PROVE  /\ sock'[v] \in SocketRecord
             /\ sock'[v].sid = sock[v].sid /\ sock'[v].left = sock[v].left
             /\ IF sock[v].pc = "kill" /\ sock[v].sid = s THEN sock'[v].pc = "done"
                ELSE sock'[v].pc = sock[v].pc /\ sock'[v].seen = sock[v].seen
  <2> PICK k \in SocketRecord : k = sock[v]
    BY DEF IInv, Types
  <2> PICK n : n = sock'[v]
    OBVIOUS
  <2>1. CASE k.pc = "kill" /\ k.sid = s
    <3>1. n = Left(k)
      BY <2>1 DEF CloseFinish, Left
    <3> QED
      BY <2>1, <3>1, Socket
  <2>2. CASE ~(k.pc = "kill" /\ k.sid = s)
    <3>1. n = k \/ n = [k EXCEPT !.open = FALSE]
      BY <2>2 DEF CloseFinish
    <3>2. /\ n \in SocketRecord /\ n.sid = k.sid /\ n.left = k.left /\ n.pc = k.pc /\ n.seen = k.seen
      BY <3>1 DEF SocketRecord
    <3> QED
      BY <2>2, <3>2
  <2> QED
    BY <2>1, <2>2
<1>7. sock' = [v \in Sockets |-> sock'[v]]
  BY DEF CloseFinish
<1>8. Types'
  BY <1>1, <1>5, <1>6, <1>7 DEF IInv, Types
<1>9. Walks
  BY <1>6 DEF Walks, IInv, Seats, SeatHonest
<1>10. Ages
  BY <1>3, <1>5 DEF Ages
<1>11. ASSUME NEW x \in Sids PROVE Ebbs(x)
  <2>1. CASE x = s
    BY <1>3, <1>5, <2>1 DEF Ebbs, Lets
  <2>2. CASE x # s
    BY <1>5, <2>2 DEF Ebbs, Lets
  <2> QED
    BY <2>1, <2>2
<1>12. Registry'
  <2>1. ASSUME NEW x \in Sids
        PROVE  /\ (ses'[x].closing \in {"hup", "fin"}) <=> (ses'[x].st = "closed")
               /\ ses'[x].closing = "sched" => ses'[x].st = "open"
               /\ Listed(x)' <=> Listed(x)
    <3>1. CASE x = s
      BY <1>1, <1>3, <1>5, <3>1 DEF Listed
    <3>2. CASE x # s
      BY <1>5, <3>2 DEF IInv, Registry, Listed
    <3> QED
      BY <3>1, <3>2
  <2>2. registered' = {x \in Sids : Listed(x)'}
    BY <1>1, <2>1 DEF IInv, Registry
  <2> QED
    BY <2>1, <2>2 DEF Registry
<1>13. OwnersStay
  <2>1. ASSUME NEW x \in Sids, ses'[x].ws # Nobody
        PROVE  /\ sock'[ses'[x].ws].sid = sock[ses'[x].ws].sid
               /\ sock'[ses'[x].ws].seen = sock[ses'[x].ws].seen
               /\ sock'[ses'[x].ws].pc \in {"replay"} \union Serving
    <3> PICK v : v = ses'[x].ws
      OBVIOUS
    <3>0. x # s
      BY <1>3, <1>5, <2>1
    <3>1. v = ses[x].ws /\ v \in Sockets
      BY <1>5, <2>1, <3>0 DEF IInv, Types, SessionRecord, Peer
    <3>2. sock[v].pc \in {"replay"} \union Serving /\ sock[v].sid = x
      BY <2>1, <3>1 DEF IInv, Owners
    <3> QED
      BY <1>6, <3>0, <3>1, <3>2
  <2>2. ASSUME NEW x \in Sids, ses'[x].pumpWs # Nobody
        PROVE  /\ sock'[ses'[x].pumpWs].sid = sock[ses'[x].pumpWs].sid
               /\ sock'[ses'[x].pumpWs].pc \in {"replay", "done"} \union Serving
    <3> PICK v : v = ses'[x].pumpWs
      OBVIOUS
    <3>0. x # s
      BY <1>3, <1>5, <2>2
    <3>1. v = ses[x].pumpWs /\ v \in Sockets
      BY <1>5, <2>2, <3>0 DEF IInv, Types, SessionRecord, Peer
    <3>2. sock[v].pc \in {"replay", "done"} \union Serving
      BY <2>2, <3>1 DEF IInv, Owners
    <3> QED
      BY <1>6, <3>1, <3>2
  <2> QED
    BY <2>1, <2>2 DEF OwnersStay
<1>14. ParkedWriterIsTheOwner'
  <2>1. ASSUME NEW v \in Sockets, sock'[v].pc = "parked"
        PROVE  /\ ses'[sock'[v].sid].writer = v
               /\ ses'[sock'[v].sid].st = "open" /\ ses'[sock'[v].sid].ws = v
    <3>1. sock[v].pc = "parked" /\ sock'[v].sid = sock[v].sid
      BY <1>6, <2>1
    <3> PICK x \in Sids : x = sock[v].sid
      BY <3>1, SeatedSid DEF Seated, Serving
    <3>2. ses[x].writer = v /\ ses[x].st = "open" /\ ses[x].ws = v
      BY <3>1 DEF IInv, ParkedWriterIsTheOwner, Owns
    <3>3. x # s
      BY <1>1, <3>2
    <3> QED
      BY <1>5, <3>1, <3>2, <3>3
  <2> QED
    BY <2>1 DEF ParkedWriterIsTheOwner, Owns
<1>15. registered' \subseteq registered
  BY <1>1
<1> QED
  BY <1>8, <1>9, <1>10, <1>11, <1>12, <1>13, <1>14, <1>15, EbbStep
-----------------------------------------------------------------------------
(* Output, and the page it is sent to. *)

LEMMA Larger ==
  ASSUME NEW a \in Int, NEW b \in Int
  PROVE  Max({a, b}) = IF a >= b THEN a ELSE b
<1> PICK m : m = IF a >= b THEN a ELSE b
  OBVIOUS
<1>1. m \in {a, b} /\ \A y \in {a, b} : m >= y
  OBVIOUS
<1>2. \A x \in {a, b} : (\A y \in {a, b} : x >= y) => x = m
  OBVIOUS
<1> QED
  BY <1>1, <1>2 DEF Max

\* What a session shows to its owner.
ShownTo(s) ==
    ses[s].ws # Nobody =>
        /\ Gapless(sock[ses[s].ws].seen)
        /\ EndsAt(sock[ses[s].ws].seen, IF ses[s].pumpWs = ses[s].ws THEN ses[s].out - 1 ELSE ses[s].out)
OwnedOk(s) ==
    /\ ses[s].ws # Nobody =>
         sock[ses[s].ws].sid = s /\ sock[ses[s].ws].pc \in {"replay"} \union Serving
    /\ ses[s].pumpWs # Nobody =>
         /\ sock[ses[s].pumpWs].sid = s
         /\ sock[ses[s].pumpWs].pc \in {"replay", "done"} \union Serving
    /\ (ses[s].pumpWs # Nobody) <=> (ses[s].pump \in {"want", "send"})
    /\ ses[s].st \in {"none", "spawning"} =>
         /\ ses[s].ws = Nobody /\ ses[s].pumpWs = Nobody /\ ses[s].pump = "off"
         /\ ses[s].lo = 1 /\ ses[s].out = 0
RingOk(s) ==
    /\ ses[s].lo > ses[s].out => ses[s].lo = 1 /\ ses[s].out = 0
    /\ ses[s].pumpWs # Nobody => ses[s].out > 0

LEMMA BySession ==
  /\ Owners <=> \A s \in Sids : OwnedOk(s)
  /\ Ring <=> \A s \in Sids : RingOk(s)
  /\ Shown <=> \A s \in Sids : ShownTo(s)
<1>1. Owners <=> \A s \in Sids : OwnedOk(s)
  BY DEF Owners, OwnedOk
<1>2. Ring <=> \A s \in Sids : RingOk(s)
  BY DEF Ring, RingOk
<1>3. Shown <=> \A s \in Sids : ShownTo(s)
  BY DEF Shown, ShownTo
<1> QED
  BY <1>1, <1>2, <1>3

\* Only what is shown changes.
LEMMA ShowsStep ==
  ASSUME IInv, Types', registered' = registered,
         \A v \in Sockets : sock'[v].pc = sock[v].pc /\ sock'[v].sid = sock[v].sid /\ sock'[v].left = sock[v].left,
         \A x \in Sids : KeepsLife(ses'[x], ses[x]) /\ KeepsOwner(ses'[x], ses[x]),
         (\A x \in Sids : OwnedOk(x) /\ RingOk(x) /\ ShownTo(x))'
  PROVE  IInv'
<1>1. Registry'
  BY RegistryKept DEF IInv
<1>2. Walks
  BY DEF Walks, IInv, Seats, SeatHonest
<1>3. Ages /\ \A x \in Sids : Lets(x)
  BY DEF Ages, Lets, KeepsLife, KeepsOwner
<1>4. Seats' /\ Creating' \subseteq Creating /\ Handover'
  BY <1>2, <1>3, SeatsKept, HandoverKept DEF IInv
<1>5. Creation'
  BY <1>4, CreationKept DEF IInv
<1>6. Owners' /\ Ring' /\ Shown'
  BY DEF Owners, Ring, Shown, OwnedOk, RingOk, ShownTo
<1>7. ParkedWriterIsTheOwner'
  <2>1. ASSUME NEW v \in Sockets, sock'[v].pc = "parked"
        PROVE  /\ ses'[sock'[v].sid].writer = v
               /\ ses'[sock'[v].sid].st = "open" /\ ses'[sock'[v].sid].ws = v
    <3>1. sock[v].pc = "parked" /\ sock'[v].sid = sock[v].sid
      BY <2>1
    <3> PICK x \in Sids : x = sock[v].sid
      BY <3>1, SeatedSid DEF Seated, Serving
    <3> QED
      BY <3>1 DEF IInv, ParkedWriterIsTheOwner, Owns, KeepsLife, KeepsOwner
  <2> QED
    BY <2>1 DEF ParkedWriterIsTheOwner, Owns
<1> QED
  BY <1>1, <1>4, <1>5, <1>6, <1>7 DEF IInv

\* The ring moves on and still holds the newest chunk.
LEMMA RingStays ==
  ASSUME NEW n \in 1 .. MaxChunks, NEW from \in Nat \ {0}, from > n - 1 => from = 1 /\ n - 1 = 0
  PROVE  /\ Max({from, n - RingChunks + 1}) \in 1 .. MaxChunks + 1
         /\ Max({from, n - RingChunks + 1}) <= n
<1>1. MaxChunks \in Nat /\ RingChunks \in Nat \ {0} /\ n \in Nat \ {0}
  BY TerminalAssumption
<1> PICK m : m = n - RingChunks + 1
  OBVIOUS
<1>2. m \in Int /\ m <= n
  BY <1>1
<1>3. Max({from, m}) = IF from >= m THEN from ELSE m
  BY <1>2, Larger
<1>4. from <= n
  BY <1>1
<1> QED
  BY <1>1, <1>2, <1>3, <1>4

LEMMA OutputKeeps ==
  ASSUME IInv, NEW s \in Sids, Output(s)
  PROVE  IInv'
<1> PICK q \in SessionRecord : q = ses[s]
  BY DEF IInv, Types
<1> PICK n : n = q.out + 1
  OBVIOUS
<1> PICK lo : lo = Max({q.lo, n - RingChunks + 1})
  OBVIOUS
<1>1. /\ q.pump = "read" /\ UNCHANGED <<sock, registered, sized>>
      /\ n \in 1 .. MaxChunks /\ q.lo \in 1 .. MaxChunks + 1 /\ q.out = n - 1
  BY TerminalAssumption DEF Output, SessionRecord
<1>2. RingOk(s) /\ OwnedOk(s) /\ ShownTo(s)
  BY BySession DEF IInv
<1>3. lo \in 1 .. MaxChunks + 1 /\ lo <= n
  <2>1. q.lo > n - 1 => q.lo = 1 /\ n - 1 = 0
    BY <1>1, <1>2 DEF RingOk
  <2>2. MaxChunks \in Nat /\ n \in 1 .. MaxChunks /\ q.lo \in Nat \ {0}
    BY <1>1, TerminalAssumption
  <2> QED
    BY <1>1, <2>1, <2>2, RingStays
<1> PICK r : r = [q EXCEPT !.out = n, !.lo = lo,
                           !.pump = IF q.ws = Nobody THEN "read" ELSE "want", !.pumpWs = q.ws]
  OBVIOUS
<1>4. r \in SessionRecord
  <2> DEFINE los == 1 .. MaxChunks + 1
             outs == 0 .. MaxChunks
  <2>1. /\ lo \in los /\ n \in outs
        /\ SessionRecord =
             [st : {"none", "spawning", "open", "closed"}, alive : BOOLEAN,
              closing : {"no", "sched", "hup", "fin"}, ws : Peer, idle : 0 .. 2,
              fd : Fds \union {Nobody}, lo : los, out : outs,
              pump : {"off", "read", "want", "send"}, pumpWs : Peer, writer : Peer]
    BY <1>1, <1>3 DEF SessionRecord
  <2> HIDE DEF los, outs
  <2> QED
    BY <2>1
<1>5. /\ KeepsLife(r, q) /\ KeepsOwner(r, q) /\ r.lo = lo /\ r.out = n
      /\ r.pump = (IF q.ws = Nobody THEN "read" ELSE "want") /\ r.pumpWs = q.ws
  BY DEF SessionRecord, KeepsLife, KeepsOwner
<1>6. ses' = [ses EXCEPT ![s] = r]
  BY DEF Output, IInv, Types
<1>7. ses' \in [Sids -> SessionRecord] /\ ses'[s] = r /\ \A x \in Sids \ {s} : ses'[x] = ses[x]
  BY <1>4, <1>6 DEF IInv, Types
<1>8. \A x \in Sids : KeepsLife(ses'[x], ses[x]) /\ KeepsOwner(ses'[x], ses[x])
  BY <1>5, <1>7 DEF KeepsLife, KeepsOwner
<1>9. Types'
  BY <1>1, <1>7 DEF IInv, Types
<1>10. ASSUME NEW x \in Sids PROVE OwnedOk(x)' /\ RingOk(x)' /\ ShownTo(x)'
  <2>1. OwnedOk(x) /\ RingOk(x) /\ ShownTo(x)
    BY BySession DEF IInv
  <2>2. CASE x = s
    <3>0. ses'[x] = r
      BY <1>7, <2>2
    <3>1. r.ws = q.ws /\ r.st = q.st
      BY <1>5 DEF KeepsOwner, KeepsLife
    <3>2. q.pumpWs = Nobody /\ q.st \notin {"none", "spawning"}
      BY <1>1, <1>2 DEF OwnedOk
    <3>3. OwnedOk(x)'
      <4>1. q.ws # Nobody => sock[q.ws].sid = s /\ sock[q.ws].pc \in {"replay"} \union Serving
        BY <1>2 DEF OwnedOk
      <4> QED
        BY <1>1, <1>5, <2>2, <3>0, <3>1, <3>2, <4>1 DEF OwnedOk
    <3>4. RingOk(x)'
      <4>1. ~(lo > n) /\ n > 0
        BY <1>1, <1>3
      <4> QED
        BY <1>5, <3>0, <4>1 DEF RingOk
    <3>5. ShownTo(x)'
      <4>1. q.ws # Nobody => Gapless(sock[q.ws].seen) /\ EndsAt(sock[q.ws].seen, q.out)
        BY <1>2, <3>2 DEF ShownTo
      <4> QED
        BY <1>1, <1>5, <3>0, <3>1, <4>1 DEF ShownTo
    <3> QED
      BY <3>3, <3>4, <3>5
  <2>3. CASE x # s
    BY <1>1, <1>7, <2>1, <2>3 DEF OwnedOk, RingOk, ShownTo
  <2> QED
    BY <2>2, <2>3
<1>11. (\A x \in Sids : OwnedOk(x) /\ RingOk(x) /\ ShownTo(x))'
  BY <1>10
<1> QED
  BY <1>1, <1>8, <1>9, <1>11, ShowsStep

LEMMA Appended ==
  ASSUME NEW seen \in Seq(1 .. MaxChunks), NEW n \in 1 .. MaxChunks, Gapless(seen), EndsAt(seen, n - 1)
  PROVE  /\ Append(seen, n) \in Seq(1 .. MaxChunks)
         /\ Gapless(Append(seen, n)) /\ EndsAt(Append(seen, n), n)
<1> PICK more : more = Append(seen, n)
  OBVIOUS
<1>0. more \in Seq(1 .. MaxChunks)
  <2> DEFINE chunk == 1 .. MaxChunks
  <2>1. seen \in Seq(chunk) /\ n \in chunk
    OBVIOUS
  <2> HIDE DEF chunk
  <2>2. more \in Seq(chunk)
    BY <2>1
  <2> QED
    BY <2>2 DEF chunk
<1>1. /\ Len(more) = Len(seen) + 1 /\ Len(seen) \in Nat /\ more # <<>> /\ more[Len(more)] = n
      /\ \A i \in 1 .. Len(seen) : more[i] = seen[i]
  OBVIOUS
<1>2. ASSUME NEW i \in 2 .. Len(more) PROVE more[i] = more[i - 1] + 1
  <2>1. CASE i \in 2 .. Len(seen)
    BY <1>1, <2>1 DEF Gapless
  <2>2. CASE i = Len(more)
    <3>1. Len(seen) >= 1 /\ seen # <<>>
      BY <1>1, <2>2
    <3>2. seen[Len(seen)] = n - 1
      BY <3>1 DEF EndsAt
    <3>3. more[i] = n /\ more[i - 1] = seen[Len(seen)]
      BY <1>1, <2>2, <3>1
    <3> QED
      BY <3>2, <3>3
  <2> QED
    BY <1>1, <2>1, <2>2
<1> QED
  BY <1>0, <1>1, <1>2 DEF Gapless, EndsAt

LEMMA PumpSentKeeps ==
  ASSUME IInv, NEW s \in Sids, PumpSent(s)
  PROVE  IInv'
<1> PICK q \in SessionRecord : q = ses[s]
  BY DEF IInv, Types
<1> PICK w : w = q.pumpWs
  OBVIOUS
<1>1. q.pump = "send" /\ UNCHANGED <<registered, sized>>
  BY DEF PumpSent
<1>2. RingOk(s) /\ OwnedOk(s) /\ ShownTo(s)
  BY BySession DEF IInv
<1>3. w \in Sockets /\ sock[w].sid = s /\ q.out \in 1 .. MaxChunks
  BY <1>1, <1>2 DEF OwnedOk, RingOk, SessionRecord, Peer
<1> PICK f \in SocketRecord : f = sock[w]
  BY <1>3 DEF IInv, Types
<1> PICK more : more = Append(f.seen, q.out)
  OBVIOUS
<1>4. more \in Seq(1 .. MaxChunks)
  BY <1>3 DEF SocketRecord
<1> PICK g : g = [f EXCEPT !.seen = more]
  OBVIOUS
<1>5. g \in SocketRecord
  <2> DEFINE chunks == Seq(1 .. MaxChunks)
  <2>1. more \in chunks /\ SocketRecord =
          [pc : Pcs, sid : Sid, open : BOOLEAN, old : Peer, left : 0 .. Units, seen : chunks]
    BY <1>4 DEF SocketRecord, Pcs
  <2> HIDE DEF chunks
  <2> QED
    BY <2>1
<1>6. g.pc = f.pc /\ g.sid = f.sid /\ g.left = f.left /\ g.seen = more
  BY DEF SocketRecord
<1> PICK r : r = [q EXCEPT !.pump = "read", !.pumpWs = Nobody]
  OBVIOUS
<1>7. r \in SessionRecord
  <2>1. Nobody \in Peer
    BY DEF Peer
  <2> QED
    BY <2>1 DEF SessionRecord
<1>8. /\ KeepsLife(r, q) /\ KeepsOwner(r, q) /\ r.lo = q.lo /\ r.out = q.out
      /\ r.pump = "read" /\ r.pumpWs = Nobody
  BY DEF SessionRecord, KeepsLife, KeepsOwner
<1>9. ses' = [ses EXCEPT ![s] = r] /\ sock' = [sock EXCEPT ![w] = g]
  BY DEF PumpSent, IInv, Types
<1>10. ses' \in [Sids -> SessionRecord] /\ ses'[s] = r /\ \A x \in Sids \ {s} : ses'[x] = ses[x]
  BY <1>7, <1>9 DEF IInv, Types
<1>11. sock' \in [Sockets -> SocketRecord] /\ sock'[w] = g /\ \A v \in Sockets \ {w} : sock'[v] = sock[v]
  BY <1>3, <1>5, <1>9 DEF IInv, Types
<1>12. Types'
  BY <1>1, <1>10, <1>11 DEF IInv, Types
<1>13. \A v \in Sockets : sock'[v].pc = sock[v].pc /\ sock'[v].sid = sock[v].sid /\ sock'[v].left = sock[v].left
  BY <1>6, <1>11
<1>14. \A x \in Sids : KeepsLife(ses'[x], ses[x]) /\ KeepsOwner(ses'[x], ses[x])
  BY <1>8, <1>10 DEF KeepsLife, KeepsOwner
<1>15. ASSUME NEW x \in Sids PROVE OwnedOk(x)' /\ RingOk(x)' /\ ShownTo(x)'
  <2>1. OwnedOk(x) /\ RingOk(x) /\ ShownTo(x)
    BY BySession DEF IInv
  <2>2. ses[x].ws \in Peer /\ ses[x].pumpWs \in Peer
    BY DEF IInv, Types, SessionRecord
  <2>3. CASE x = s
    <3>0. ses'[x] = r
      BY <1>10, <2>3
    <3>1. r.ws = q.ws /\ r.st = q.st
      BY <1>8 DEF KeepsOwner, KeepsLife
    <3>2. OwnedOk(x)'
      <4>1. q.ws # Nobody => sock'[q.ws].sid = s /\ sock'[q.ws].pc \in {"replay"} \union Serving
        BY <1>2, <1>13, <2>2, <2>3 DEF OwnedOk, Peer
      <4>2. q.st \notin {"none", "spawning"}
        BY <1>1, <1>2 DEF OwnedOk
      <4> QED
        BY <1>8, <2>3, <3>0, <3>1, <4>1, <4>2 DEF OwnedOk
    <3>3. RingOk(x)'
      BY <1>2, <1>8, <3>0 DEF RingOk
    <3>4. ASSUME q.ws # Nobody
          PROVE  Gapless(sock'[q.ws].seen) /\ EndsAt(sock'[q.ws].seen, q.out)
      <4>1. CASE q.ws = w
        <5>1. Gapless(f.seen) /\ EndsAt(f.seen, q.out - 1) /\ f.seen \in Seq(1 .. MaxChunks)
          BY <1>2, <3>4, <4>1 DEF ShownTo, SocketRecord
        <5>2. Gapless(more) /\ EndsAt(more, q.out)
          BY <1>3, <5>1, Appended
        <5> QED
          BY <1>6, <1>11, <4>1, <5>2
      <4>2. CASE q.ws # w
        <5>1. sock'[q.ws] = sock[q.ws]
          BY <1>11, <2>2, <2>3, <3>4, <4>2 DEF Peer
        <5>2. Gapless(sock[q.ws].seen) /\ EndsAt(sock[q.ws].seen, q.out)
          BY <1>2, <3>4, <4>2 DEF ShownTo
        <5> QED
          BY <5>1, <5>2
      <4> QED
        BY <4>1, <4>2, Zenon
    <3>5. ShownTo(x)'
      BY <1>8, <3>0, <3>1, <3>4 DEF ShownTo
    <3> QED
      BY <3>2, <3>3, <3>5
  <2>4. CASE x # s
    <3>1. ses'[x] = ses[x]
      BY <1>10, <2>4
    <3>2. ses[x].ws # Nobody => sock'[ses[x].ws] = sock[ses[x].ws]
      BY <1>3, <1>11, <2>1, <2>2, <2>4 DEF OwnedOk, Peer
    <3>3. ses[x].pumpWs # Nobody => sock'[ses[x].pumpWs] = sock[ses[x].pumpWs]
      BY <1>3, <1>11, <2>1, <2>2, <2>4 DEF OwnedOk, Peer
    <3> QED
      BY <2>1, <3>1, <3>2, <3>3 DEF OwnedOk, RingOk, ShownTo
  <2> QED
    BY <2>3, <2>4
<1>16. (\A x \in Sids : OwnedOk(x) /\ RingOk(x) /\ ShownTo(x))'
  BY <1>15
<1> QED
  BY <1>1, <1>12, <1>13, <1>14, <1>16, ShowsStep
-----------------------------------------------------------------------------
(* The creation of a session, and the snapshot. *)

\* No other socket is in s, or on its way there.
Lonely(s, w) == \A v \in Sockets \ {w} : sock[v].pc \in Seated \union {"spawn", "attach"} => sock[v].sid # s

LEMMA CreatorStep ==
  ASSUME IInv, Types', Creation', Registry', NEW w \in Sockets, NEW s, Lonely(s, w),
         sock[w].pc \in {"prepare", "spawn"}, SeatHonest(w)',
         sock'[w].pc \in {"done", "spawn", "announce"},
         sock'[w].pc = "announce" => sock'[w].sid = s /\ s \in Sids,
         \A v \in Sockets \ {w} : sock'[v] = sock[v],
         \A x \in Sids \ {s} : ses'[x] = ses[x],
         s \in Sids => ses'[s].ws = Nobody /\ ses'[s].pumpWs = Nobody /\ OwnedOk(s)' /\ RingOk(s)'
  PROVE  IInv'
<1>1. ASSUME NEW v \in Sockets \ {w}, sock[v].pc \in Seated \union {"spawn", "attach"}
      PROVE  sock[v].sid \in Sids \ {s} /\ ses'[sock[v].sid] = ses[sock[v].sid]
  <2>1. sock[v].sid \in Sids /\ sock[v].sid # s
    BY <1>1, SeatedSid DEF Lonely
  <2> QED
    BY <2>1
<1>2. Seats'
  <2>1. ASSUME NEW v \in Sockets \ {w} PROVE SeatHonest(v)'
    <3>1. SeatHonest(v) /\ sock'[v] = sock[v]
      BY DEF IInv, Seats
    <3> QED
      BY <1>1, <3>1 DEF SeatHonest
  <2>2. ASSUME NEW u \in Sockets, NEW v \in Sockets,
               sock'[u].pc \in Attaching, sock'[v].pc \in Attaching, sock'[u].sid = sock'[v].sid
        PROVE  u = v
    <3>1. ASSUME NEW x \in Sockets \ {w}, sock'[x].pc \in Attaching
          PROVE  sock[x] = sock'[x] /\ sock[x].sid # s
      BY <1>1, <3>1 DEF Seated
    <3>2. sock'[w].pc \in Attaching => sock'[w].sid = s
      BY DEF Attaching
    <3>3. CASE u # w /\ v # w
      BY <2>2, <3>1, <3>3 DEF IInv, Seats, AttachLock
    <3>4. CASE u = w \/ v = w
      BY <2>2, <3>1, <3>2, <3>4
    <3> QED
      BY <3>3, <3>4
  <2> QED
    BY <2>1, <2>2 DEF Seats, AttachLock
<1>3. ASSUME NEW x \in Sids PROVE OwnedOk(x)' /\ RingOk(x)' /\ ShownTo(x)'
  <2>1. CASE x = s
    BY <2>1 DEF ShownTo
  <2>2. CASE x # s
    <3>1. OwnedOk(x) /\ RingOk(x) /\ ShownTo(x)
      BY BySession DEF IInv
    <3>2. ses'[x] = ses[x] /\ ses[x].ws \in Peer /\ ses[x].pumpWs \in Peer
      BY <2>2 DEF IInv, Types, SessionRecord
    <3>3. ses[x].ws # Nobody => sock'[ses[x].ws] = sock[ses[x].ws]
      BY <3>1, <3>2 DEF OwnedOk, Peer, Serving
    <3>4. ses[x].pumpWs # Nobody => sock'[ses[x].pumpWs] = sock[ses[x].pumpWs]
      BY <3>1, <3>2 DEF OwnedOk, Peer, Serving
    <3> QED
      BY <3>1, <3>2, <3>3, <3>4 DEF OwnedOk, RingOk, ShownTo
  <2> QED
    BY <2>1, <2>2
<1>4. Owners' /\ Ring' /\ Shown'
  <2>1. (\A x \in Sids : OwnedOk(x) /\ RingOk(x) /\ ShownTo(x))'
    BY <1>3
  <2> QED
    BY <2>1 DEF Owners, Ring, Shown, OwnedOk, RingOk, ShownTo
<1>5. Handover'
  <2>1. ASSUME NEW v \in Sockets, sock'[v].pc \in {"boot", "announce", "snap"}
        PROVE  ses'[sock'[v].sid].ws = Nobody
    <3>1. CASE v = w
      BY <2>1, <3>1
    <3>2. CASE v # w
      BY <1>1, <2>1, <3>2 DEF IInv, Handover, Seated, Attaching
    <3> QED
      BY <3>1, <3>2
  <2> QED
    BY <2>1 DEF Handover
<1>6. ParkedWriterIsTheOwner'
  <2>1. ASSUME NEW v \in Sockets, sock'[v].pc = "parked"
        PROVE  /\ ses'[sock'[v].sid].writer = v
               /\ ses'[sock'[v].sid].st = "open" /\ ses'[sock'[v].sid].ws = v
    <3>1. v # w /\ sock'[v] = sock[v]
      BY <2>1
    <3>2. ses'[sock[v].sid] = ses[sock[v].sid]
      BY <1>1, <2>1, <3>1 DEF Seated, Serving
    <3> QED
      BY <2>1, <3>1, <3>2 DEF IInv, ParkedWriterIsTheOwner, Owns
  <2> QED
    BY <2>1 DEF ParkedWriterIsTheOwner, Owns
<1> QED
  BY <1>2, <1>4, <1>5, <1>6 DEF IInv

\* A session that is not there, or is being spawned, has nobody but its maker.
LEMMA MakerIsAlone ==
  ASSUME IInv, NEW w \in Creating, NEW s \in Sids, ses[s].st \in {"none", "spawning"}
  PROVE  Lonely(s, w)
<1>1. ASSUME NEW v \in Sockets \ {w}, sock[v].pc \in Seated \union {"spawn", "attach"}
      PROVE  sock[v].sid # s
  <2>1. sock[v].pc # "spawn"
    BY DEF IInv, Creation, Creating
  <2>2. ses[sock[v].sid].st \in {"open", "closed"}
    BY <1>1, <2>1 DEF IInv, Seats, SeatHonest
  <2> QED
    BY <2>2
<1> QED
  BY <1>1 DEF Lonely

LEMMA PreparedKeeps ==
  ASSUME IInv, NEW w \in Sockets, Prepared(w)
  PROVE  IInv'
<1> PICK q \in SocketRecord : q = sock[w]
  BY DEF IInv, Types
<1>1. q.pc = "prepare" /\ registered' = registered /\ w \in Creating
  BY DEF Prepared, Creating
<1>2. CASE TurnAway(w) /\ UNCHANGED <<ses, sized>>
  <2> PICK r \in SocketRecord : r = Turned(q)
    BY Socket
  <2>1. sock' = [sock EXCEPT ![w] = r]
    BY <1>2 DEF TurnAway, Turned, IInv, Types
  <2>2. r.pc = "done"
    BY Socket
  <2>3. sock' \in [Sockets -> SocketRecord] /\ sock'[w] = r /\ \A v \in Sockets \ {w} : sock'[v] = sock[v]
    BY <2>1 DEF IInv, Types
  <2>4. Types' /\ SeatHonest(w)'
    BY <1>1, <1>2, <2>2, <2>3 DEF IInv, Types, SeatHonest, Seated, Attaching, Serving
  <2>5. Creating' \subseteq Creating
    BY <2>2, <2>3 DEF Creating
  <2>6. Creation'
    BY <1>1, <2>5, CreationKept DEF IInv
  <2>7. \A x \in Sids : KeepsLife(ses'[x], ses[x])
    BY <1>2 DEF KeepsLife
  <2>8. Registry'
    BY <1>1, <2>7, RegistryKept DEF IInv
  <2>9. Nobody \notin Sids
    BY TerminalAssumption
  <2>10. Lonely(Nobody, w)
    BY <2>9, SeatedSid DEF Lonely
  <2>11. \A x \in Sids : ses'[x] = ses[x]
    BY <1>2
  <2> QED
    BY <1>1, <2>2, <2>3, <2>4, <2>6, <2>8, <2>9, <2>10, <2>11, CreatorStep
<1>3. ASSUME NEW s \in Sids, NEW f \in Fds, ses[s].st = "none",
             ses' = [ses EXCEPT ![s].st = "spawning", ![s].fd = f],
             sock' = [sock EXCEPT ![w].pc = "spawn", ![w].sid = s],
             sized' = [sized EXCEPT ![f] = Nobody]
      PROVE  IInv'
  <2> PICK p \in SessionRecord : p = ses[s]
    BY DEF IInv, Types
  <2> PICK n : n = [p EXCEPT !.st = "spawning", !.fd = f]
    OBVIOUS
  <2>1. n \in SessionRecord
    BY <1>3 DEF SessionRecord
  <2>2. /\ n.st = "spawning" /\ n.closing = p.closing /\ KeepsPump(n, p) /\ KeepsOwner(n, p)
    BY DEF SessionRecord, KeepsPump, KeepsOwner
  <2>3. ses' = [ses EXCEPT ![s] = n]
    BY <1>3 DEF IInv, Types
  <2>4. ses' \in [Sids -> SessionRecord] /\ ses'[s] = n /\ \A x \in Sids \ {s} : ses'[x] = ses[x]
    BY <2>1, <2>3 DEF IInv, Types
  <2> PICK r : r = [q EXCEPT !.pc = "spawn", !.sid = s]
    OBVIOUS
  <2>5. r \in SocketRecord /\ r.pc = "spawn" /\ r.sid = s
    BY DEF SocketRecord, Sid
  <2>6. sock' = [sock EXCEPT ![w] = r]
    BY <1>3 DEF IInv, Types
  <2>7. sock' \in [Sockets -> SocketRecord] /\ sock'[w] = r /\ \A v \in Sockets \ {w} : sock'[v] = sock[v]
    BY <2>5, <2>6 DEF IInv, Types
  <2>8. sized' \in [Fds -> Sid]
    BY <1>3 DEF IInv, Types, Sid
  <2>9. Types'
    BY <1>1, <2>4, <2>7, <2>8 DEF IInv, Types
  <2>10. SeatHonest(w)'
    <3>1. sock'[w].pc = "spawn" /\ sock'[w].sid = s /\ ses'[s].st = "spawning"
      BY <2>2, <2>4, <2>5, <2>7
    <3> QED
      BY <3>1 DEF SeatHonest, Seated, Attaching, Serving
  <2>11. Creating' \subseteq Creating
    BY <1>1, <2>7 DEF Creating
  <2>12. Creation'
    BY <1>1, <2>11, CreationKept DEF IInv
  <2>13. p.closing = "no"
    BY <1>3 DEF IInv, Registry, SessionRecord
  <2>14. Registry'
    <3>1. ASSUME NEW x \in Sids
          PROVE  /\ (ses'[x].closing \in {"hup", "fin"}) <=> (ses'[x].st = "closed")
                 /\ ses'[x].closing = "sched" => ses'[x].st = "open"
                 /\ Listed(x)' <=> Listed(x)
      <4>1. CASE x = s
        BY <1>3, <2>2, <2>4, <2>13, <4>1 DEF Listed
      <4>2. CASE x # s
        BY <2>4, <4>2 DEF IInv, Registry, Listed
      <4> QED
        BY <4>1, <4>2
    <3>2. registered' = {x \in Sids : Listed(x)'}
      BY <1>1, <3>1 DEF IInv, Registry
    <3> QED
      BY <3>1, <3>2 DEF Registry
  <2>15. Lonely(s, w)
    BY <1>1, <1>3, MakerIsAlone
  <2>16. OwnedOk(s) /\ RingOk(s)
    BY BySession DEF IInv
  <2>17. n.ws = Nobody /\ n.pumpWs = Nobody /\ n.pump = "off" /\ n.lo = 1 /\ n.out = 0
    BY <1>3, <2>2, <2>16 DEF OwnedOk, KeepsPump, KeepsOwner
  <2>18. ses'[s].ws = Nobody /\ ses'[s].pumpWs = Nobody /\ OwnedOk(s)' /\ RingOk(s)'
    BY <2>4, <2>17 DEF OwnedOk, RingOk
  <2> QED
    BY <1>1, <2>4, <2>5, <2>7, <2>9, <2>10, <2>12, <2>14, <2>15, <2>18, CreatorStep
<1> QED
  BY <1>2, <1>3 DEF Prepared

LEMMA Smaller ==
  ASSUME NEW a \in Int, NEW b \in Int
  PROVE  Min({a, b}) = IF a <= b THEN a ELSE b
<1> PICK m : m = IF a <= b THEN a ELSE b
  OBVIOUS
<1>1. m \in {a, b} /\ \A y \in {a, b} : m <= y
  OBVIOUS
<1>2. \A x \in {a, b} : (\A y \in {a, b} : x <= y) => x = m
  OBVIOUS
<1> QED
  BY <1>1, <1>2 DEF Min

\* The room that the capacity check found is still there.
LEMMA RoomIsTaken ==
  ASSUME IInv, NEW w \in Creating, NEW s \in Sids, s \notin registered,
         registered' = registered \union {s}, Creating' = {}
  PROVE  Creation'
<1> PICK more : more = registered \union {s}
  OBVIOUS
<1>1. IsFiniteSet(registered)
  BY TerminalAssumption, FS_Subset DEF IInv, Types
<1>2. Cardinality(more) = Cardinality(registered) + 1
  BY <1>1, FS_AddElement
<1>3. Cardinality(registered) \in Nat
  BY <1>1, FS_CardinalityType
<1>4. Cardinality(registered) < MaxSessions
  BY DEF IInv, Creation
<1>5. Cardinality(more) <= MaxSessions
  BY <1>2, <1>3, <1>4, TerminalAssumption
<1>6. Cardinality(registered') = Cardinality(more)
  OBVIOUS
<1> QED
  BY <1>5, <1>6 DEF Creation

LEMMA Unspawned == NoSession \in SessionRecord
<1>1. 1 \in 1 .. MaxChunks + 1 /\ 0 \in 0 .. MaxChunks
  BY TerminalAssumption
<1> DEFINE los == 1 .. MaxChunks + 1
           outs == 0 .. MaxChunks
           idles == 0 .. 2
<1>2. 1 \in los /\ 0 \in outs /\ 0 \in idles
  BY <1>1
<1>3. SessionRecord =
        [st : {"none", "spawning", "open", "closed"}, alive : BOOLEAN,
         closing : {"no", "sched", "hup", "fin"}, ws : Peer, idle : idles,
         fd : Fds \union {Nobody}, lo : los, out : outs,
         pump : {"off", "read", "want", "send"}, pumpWs : Peer, writer : Peer]
  BY Zenon DEF SessionRecord
<1> HIDE DEF los, outs, idles
<1> QED
  BY <1>2, <1>3 DEF NoSession, Peer

LEMMA SpawnedKeeps ==
  ASSUME IInv, NEW w \in Sockets, Spawned(w)
  PROVE  IInv'
<1> PICK q \in SocketRecord : q = sock[w]
  BY DEF IInv, Types
<1> PICK s \in Sids : s = sock[w].sid
  BY SeatedSid DEF Spawned
<1> PICK p \in SessionRecord : p = ses[s]
  BY DEF IInv, Types
<1>1. q.pc = "spawn" /\ sized' = sized /\ w \in Creating
  BY DEF Spawned, Creating
<1>2. p.st = "spawning" /\ q.sid = s
  BY <1>1 DEF IInv, Seats, SeatHonest
<1>3. p.closing = "no" /\ s \notin registered
  BY <1>2 DEF IInv, Registry, SessionRecord, Listed
<1>4. Lonely(s, w)
  BY <1>1, <1>2, MakerIsAlone
<1>5. OwnedOk(s) /\ RingOk(s)
  BY BySession DEF IInv
<1>6. p.ws = Nobody /\ p.pumpWs = Nobody /\ p.pump = "off" /\ p.lo = 1 /\ p.out = 0
  BY <1>2, <1>5 DEF OwnedOk
<1>7. ASSUME NEW banner \in 0 .. Min({1, MaxChunks}),
             ses' = [ses EXCEPT ![s].st = "open", ![s].alive = TRUE,
                                ![s].out = banner, ![s].pump = "read"],
             sock' = [sock EXCEPT ![w].pc = "announce"],
             registered' = registered \union {s}
      PROVE  IInv'
  <2>1. banner \in 0 .. MaxChunks
    <3>1. MaxChunks \in Int /\ 1 \in Int /\ MaxChunks >= 0
      BY TerminalAssumption
    <3>2. Min({1, MaxChunks}) = IF 1 <= MaxChunks THEN 1 ELSE MaxChunks
      BY <3>1, Smaller
    <3>3. Min({1, MaxChunks}) \in Int /\ Min({1, MaxChunks}) <= MaxChunks
      BY <3>1, <3>2
    <3> QED
      BY <3>1, <3>3
  <2> PICK n : n = [p EXCEPT !.st = "open", !.alive = TRUE, !.out = banner, !.pump = "read"]
    OBVIOUS
  <2>2. n \in SessionRecord
    <3> DEFINE los == 1 .. MaxChunks + 1
               outs == 0 .. MaxChunks
    <3>1. /\ banner \in outs
          /\ SessionRecord =
               [st : {"none", "spawning", "open", "closed"}, alive : BOOLEAN,
                closing : {"no", "sched", "hup", "fin"}, ws : Peer, idle : 0 .. 2,
                fd : Fds \union {Nobody}, lo : los, out : outs,
                pump : {"off", "read", "want", "send"}, pumpWs : Peer, writer : Peer]
      BY <2>1 DEF SessionRecord
    <3> HIDE DEF los, outs
    <3> QED
      BY <3>1
  <2>3. /\ n.st = "open" /\ n.closing = p.closing /\ n.ws = p.ws /\ n.pumpWs = p.pumpWs
        /\ n.lo = p.lo /\ n.out = banner /\ n.pump = "read"
    BY DEF SessionRecord
  <2>4. ses' = [ses EXCEPT ![s] = n]
    BY <1>7 DEF IInv, Types
  <2>5. ses' \in [Sids -> SessionRecord] /\ ses'[s] = n /\ \A x \in Sids \ {s} : ses'[x] = ses[x]
    BY <2>2, <2>4 DEF IInv, Types
  <2> PICK r : r = Goes(q, "announce")
    OBVIOUS
  <2>6. r \in SocketRecord /\ r.pc = "announce" /\ KeepsSeat(r, q)
    BY Socket DEF Pcs, Seated, Attaching
  <2>7. sock' = [sock EXCEPT ![w] = r]
    BY <1>7 DEF Goes, IInv, Types
  <2>8. sock' \in [Sockets -> SocketRecord] /\ sock'[w] = r /\ \A v \in Sockets \ {w} : sock'[v] = sock[v]
    BY <2>6, <2>7 DEF IInv, Types
  <2>9. Types'
    BY <1>1, <1>7, <2>5, <2>8 DEF IInv, Types
  <2>10. sock'[w].pc = "announce" /\ sock'[w].sid = s /\ ses'[s].st = "open"
    BY <1>2, <2>3, <2>5, <2>6, <2>8 DEF KeepsSeat
  <2>11. SeatHonest(w)'
    BY <2>10 DEF SeatHonest, Seated, Attaching, Serving
  <2>12. Creating' = {}
    <3>1. ASSUME NEW v \in Sockets PROVE sock'[v].pc \notin {"prepare", "spawn"}
      BY <1>1, <2>8, <2>10 DEF IInv, Creation, Creating
    <3> QED
      BY <3>1 DEF Creating
  <2>13. Creation'
    BY <1>1, <1>3, <1>7, <2>12, RoomIsTaken
  <2>14. Registry'
    <3>1. ses'[s].closing = "no" /\ ses'[s].st = "open"
      BY <1>3, <2>3, <2>5
    <3>2. ASSUME NEW x \in Sids
          PROVE  /\ (ses'[x].closing \in {"hup", "fin"}) <=> (ses'[x].st = "closed")
                 /\ ses'[x].closing = "sched" => ses'[x].st = "open"
                 /\ Listed(x)' <=> (x = s \/ Listed(x))
      <4>1. CASE x = s
        BY <3>1, <4>1 DEF Listed
      <4>2. CASE x # s
        <5>1. ses'[x] = ses[x]
          BY <2>5, <4>2
        <5> QED
          BY <4>2, <5>1 DEF IInv, Registry, Listed
      <4> QED
        BY <4>1, <4>2
    <3>3. registered' = {x \in Sids : Listed(x)'}
      BY <1>7, <3>2 DEF IInv, Registry
    <3> QED
      BY <3>2, <3>3 DEF Registry
  <2>15. ses'[s].ws = Nobody /\ ses'[s].pumpWs = Nobody /\ OwnedOk(s)' /\ RingOk(s)'
    <3>1. ~(1 > banner) \/ banner = 0
      BY <2>1, TerminalAssumption
    <3> QED
      BY <1>6, <2>3, <2>5, <3>1 DEF OwnedOk, RingOk
  <2> QED
    BY <1>1, <1>4, <2>5, <2>8, <2>9, <2>10, <2>11, <2>13, <2>14, <2>15, CreatorStep
<1>8. ASSUME ses' = [ses EXCEPT ![s] = NoSession], TurnAway(w), registered' = registered
      PROVE  IInv'
  <2>1. NoSession \in SessionRecord
    BY Unspawned
  <2>2. ses' \in [Sids -> SessionRecord] /\ ses'[s] = NoSession /\ \A x \in Sids \ {s} : ses'[x] = ses[x]
    BY <1>8, <2>1 DEF IInv, Types
  <2> PICK r \in SocketRecord : r = Turned(q)
    BY Socket
  <2>3. sock' = [sock EXCEPT ![w] = r]
    BY <1>8 DEF TurnAway, Turned, IInv, Types
  <2>4. r.pc = "done"
    BY Socket
  <2>5. sock' \in [Sockets -> SocketRecord] /\ sock'[w] = r /\ \A v \in Sockets \ {w} : sock'[v] = sock[v]
    BY <2>3 DEF IInv, Types
  <2>6. Types'
    BY <1>1, <1>8, <2>2, <2>5 DEF IInv, Types
  <2>7. SeatHonest(w)'
    BY <2>4, <2>5 DEF SeatHonest, Seated, Attaching, Serving
  <2>8. Creating' \subseteq Creating
    BY <2>4, <2>5 DEF Creating
  <2>9. Creation'
    BY <1>8, <2>8, CreationKept DEF IInv
  <2>10. Registry'
    <3>1. ses'[s].closing = "no" /\ ses'[s].st = "none"
      BY <2>2 DEF NoSession
    <3>2. ASSUME NEW x \in Sids
          PROVE  /\ (ses'[x].closing \in {"hup", "fin"}) <=> (ses'[x].st = "closed")
                 /\ ses'[x].closing = "sched" => ses'[x].st = "open"
                 /\ Listed(x)' <=> Listed(x)
      <4>1. CASE x = s
        BY <1>2, <3>1, <4>1 DEF Listed
      <4>2. CASE x # s
        BY <2>2, <4>2 DEF IInv, Registry, Listed
      <4> QED
        BY <4>1, <4>2
    <3>3. registered' = {x \in Sids : Listed(x)'}
      BY <1>8, <3>2 DEF IInv, Registry
    <3> QED
      BY <3>2, <3>3 DEF Registry
  <2>11. ses'[s].ws = Nobody /\ ses'[s].pumpWs = Nobody /\ OwnedOk(s)' /\ RingOk(s)'
    BY <2>2 DEF OwnedOk, RingOk, NoSession
  <2> QED
    BY <1>1, <1>4, <2>2, <2>4, <2>5, <2>6, <2>7, <2>9, <2>10, <2>11, CreatorStep
<1> QED
  BY <1>7, <1>8 DEF Spawned

\* The ring of a session as the run of chunks it keeps.
Run(lo, out) == [i \in 1 .. (out - lo + 1) |-> lo + i - 1]

LEMMA RunReaches ==
  ASSUME NEW lo \in 1 .. MaxChunks + 1, NEW out \in 0 .. MaxChunks,
         lo > out => lo = 1 /\ out = 0
  PROVE  /\ Run(lo, out) \in Seq(1 .. MaxChunks)
         /\ Gapless(Run(lo, out)) /\ EndsAt(Run(lo, out), out)
<1>1. MaxChunks \in Nat
  BY TerminalAssumption
<1> PICK n : n = out - lo + 1
  OBVIOUS
<1>2. n \in Nat /\ n <= out
  BY <1>1
<1> PICK ring : ring = [i \in 1 .. n |-> lo + i - 1]
  OBVIOUS
<1>3. Run(lo, out) = ring
  BY DEF Run
<1>4. \A i \in 1 .. n : ring[i] = lo + i - 1 /\ lo + i - 1 \in 1 .. MaxChunks
  BY <1>1, <1>2
<1>5. ring \in [1 .. n -> 1 .. MaxChunks]
  BY <1>4
<1>6. ring \in Seq(1 .. MaxChunks)
  BY <1>2, <1>5
<1>7. Len(ring) = n
  BY <1>2, <1>5
<1>8. Gapless(ring)
  <2>1. ASSUME NEW i \in 2 .. n PROVE ring[i] = ring[i - 1] + 1
    <3>1. i \in 1 .. n /\ i - 1 \in 1 .. n
      BY <1>2
    <3>2. ring[i] = lo + i - 1 /\ ring[i - 1] = lo + (i - 1) - 1
      BY <1>4, <3>1
    <3> QED
      BY <1>1, <3>1, <3>2
  <2> QED
    BY <1>7, <2>1 DEF Gapless
<1>9. EndsAt(ring, out)
  <2>1. CASE ring = <<>>
    <3>1. n = 0
      BY <1>7, <2>1
    <3>2. out = 0
      BY <1>1, <3>1
    <3> QED
      BY <2>1, <3>2 DEF EndsAt
  <2>2. CASE ring # <<>>
    <3>1. n # 0
      BY <1>6, <1>7, <2>2
    <3>2. ring[n] = lo + n - 1
      BY <1>2, <1>4, <3>1
    <3>3. ring[n] = out
      BY <1>1, <3>2
    <3> QED
      BY <1>7, <2>2, <3>3 DEF EndsAt
  <2> QED
    BY <2>1, <2>2
<1> QED
  BY <1>3, <1>6, <1>8, <1>9

LEMMA SnapshotKeeps ==
  ASSUME IInv, NEW w \in Sockets, Snapshot(w)
  PROVE  IInv'
<1> PICK q \in SocketRecord : q = sock[w]
  BY DEF IInv, Types
<1> PICK s \in Sids : s = sock[w].sid
  BY SeatedSid DEF Snapshot, Seated, Attaching
<1> PICK p \in SessionRecord : p = ses[s]
  BY DEF IInv, Types
<1> PICK ring : ring = Run(p.lo, p.out)
  OBVIOUS
<1> PICK pc : pc = IF ring = <<>> THEN "serve" ELSE "replay"
  OBVIOUS
<1>1. /\ q.pc = "snap" /\ q.sid = s /\ registered' = registered
      /\ pc \in {"serve", "replay"}
  BY DEF Snapshot
<1>2. /\ ses' = [ses EXCEPT ![s].ws = w, ![s].idle = 0]
      /\ sock' = [sock EXCEPT ![w].seen = ring, ![w].pc = pc]
      /\ sized' \in {Resized(s), sized}
  BY DEF Snapshot, Run
<1>3. OwnedOk(s) /\ RingOk(s)
  BY BySession DEF IInv
<1>4. p.ws = Nobody /\ p.st \in {"open", "closed"}
  BY <1>1 DEF IInv, Handover, Seats, SeatHonest, Seated, Attaching
<1>5. ring \in Seq(1 .. MaxChunks) /\ Gapless(ring) /\ EndsAt(ring, p.out)
  <2>1. p.lo \in 1 .. MaxChunks + 1 /\ p.out \in 0 .. MaxChunks
    BY DEF SessionRecord
  <2>2. p.lo > p.out => p.lo = 1 /\ p.out = 0
    BY <1>3 DEF RingOk
  <2> QED
    BY <2>1, <2>2, RunReaches
<1>6. w \in Peer /\ w # Nobody /\ Nobody \in Peer
  BY TerminalAssumption DEF Peer
<1> PICK n : n = [p EXCEPT !.ws = w, !.idle = 0]
  OBVIOUS
<1>7. n \in SessionRecord
  <2> DEFINE idles == 0 .. 2
  <2>1. 0 \in idles /\ SessionRecord =
          [st : {"none", "spawning", "open", "closed"}, alive : BOOLEAN,
           closing : {"no", "sched", "hup", "fin"}, ws : Peer, idle : idles,
           fd : Fds \union {Nobody}, lo : 1 .. MaxChunks + 1, out : 0 .. MaxChunks,
           pump : {"off", "read", "want", "send"}, pumpWs : Peer, writer : Peer]
    BY DEF SessionRecord
  <2> HIDE DEF idles
  <2> QED
    BY <1>6, <2>1
<1>8. n.ws = w /\ KeepsLife(n, p) /\ KeepsPump(n, p) /\ n.writer = p.writer
  BY DEF SessionRecord, KeepsLife, KeepsPump
<1>9. ses' = [ses EXCEPT ![s] = n]
  BY <1>2 DEF IInv, Types
<1>10. ses' \in [Sids -> SessionRecord] /\ ses'[s] = n /\ \A x \in Sids \ {s} : ses'[x] = ses[x]
  BY <1>7, <1>9 DEF IInv, Types
<1> PICK r : r = [q EXCEPT !.seen = ring, !.pc = pc]
  OBVIOUS
<1>11. r \in SocketRecord
  <2> DEFINE chunks == Seq(1 .. MaxChunks)
  <2>1. pc \in Pcs /\ ring \in chunks
        /\ SocketRecord = [pc : Pcs, sid : Sid, open : BOOLEAN, old : Peer, left : 0 .. Units, seen : chunks]
    BY <1>1, <1>5 DEF SocketRecord, Pcs, Seated, Attaching, Serving
  <2> HIDE DEF chunks
  <2> QED
    BY <2>1
<1>12. r.pc = pc /\ r.seen = ring /\ r.sid = s /\ r.left = q.left
  BY <1>1 DEF SocketRecord
<1>13. sock' = [sock EXCEPT ![w] = r]
  BY <1>2 DEF IInv, Types
<1>14. sock' \in [Sockets -> SocketRecord] /\ sock'[w] = r /\ \A v \in Sockets \ {w} : sock'[v] = sock[v]
  BY <1>11, <1>13 DEF IInv, Types
<1>15. Types'
  BY <1>1, <1>2, <1>10, <1>14, Sized DEF IInv, Types
<1>16. Walks
  <2>1. /\ sock[w].pc = "snap" /\ sock'[w].pc \in {"serve", "replay"}
        /\ sock'[w].sid = sock[w].sid /\ \A v \in Sockets \ {w} : sock'[v] = sock[v]
    BY <1>1, <1>12, <1>14
  <2>2. \A v \in Sockets : sock[v].pc \in {"write", "parked", "woken"} => sock[v].left > 0
    BY DEF IInv, Seats, SeatHonest
  <2> QED
    BY <2>1, <2>2 DEF Walks, Attaching
<1>17. \A x \in Sids : KeepsLife(ses'[x], ses[x])
  BY <1>8, <1>10 DEF KeepsLife
<1>18. Ages
  BY <1>17 DEF Ages, KeepsLife
<1>19. Seats' /\ Creating' \subseteq Creating
  BY <1>16, <1>18, SeatsKept DEF IInv
<1>20. Creation' /\ Registry'
  BY <1>1, <1>17, <1>19, CreationKept, RegistryKept DEF IInv
<1>21. Handover'
  <2>1. ASSUME NEW v \in Sockets, sock'[v].pc \in {"boot", "announce", "snap"}
        PROVE  ses'[sock'[v].sid].ws = Nobody
    <3>1. v # w /\ sock'[v] = sock[v]
      BY <1>1, <1>12, <1>14, <2>1
    <3>2. sock[v].sid \in Sids /\ sock[v].sid # s
      BY <1>1, <2>1, <3>1, SeatedSid DEF IInv, Seats, AttachLock, Attaching, Seated
    <3> QED
      BY <1>10, <2>1, <3>1, <3>2 DEF IInv, Handover
  <2> QED
    BY <2>1 DEF Handover
<1>22. ASSUME NEW x \in Sids PROVE OwnedOk(x)' /\ RingOk(x)' /\ ShownTo(x)'
  <2>1. OwnedOk(x) /\ RingOk(x) /\ ShownTo(x)
    BY BySession DEF IInv
  <2>2. ses[x].ws \in Peer /\ ses[x].pumpWs \in Peer
    BY DEF IInv, Types, SessionRecord
  <2>3. ses[x].pumpWs # Nobody => ses[x].pumpWs # w /\ sock'[ses[x].pumpWs] = sock[ses[x].pumpWs]
    BY <1>1, <1>14, <2>1, <2>2 DEF OwnedOk, Peer, Serving
  <2>4. CASE x = s
    <3>1. ses'[x] = n /\ sock'[w] = r
      BY <1>10, <1>14, <2>4
    <3>2. /\ n.st = p.st /\ n.lo = p.lo /\ n.out = p.out
          /\ n.pump = p.pump /\ n.pumpWs = p.pumpWs
      BY <1>8 DEF KeepsLife, KeepsPump
    <3>3. OwnedOk(x)'
      <4>1. r.sid = s /\ r.pc \in {"replay"} \union Serving
        BY <1>1, <1>12 DEF Serving
      <4>2. n.st \notin {"none", "spawning"}
        BY <1>4, <3>2
      <4>3. ses'[x].ws = w /\ ses'[x].pumpWs = ses[x].pumpWs /\ ses'[x].pump = ses[x].pump
        BY <1>8, <2>4, <3>1, <3>2
      <4>4. sock'[ses'[x].ws].sid = x /\ sock'[ses'[x].ws].pc \in {"replay"} \union Serving
        BY <2>4, <3>1, <4>1, <4>3
      <4>5. ses'[x].pumpWs # Nobody =>
              /\ sock'[ses'[x].pumpWs].sid = x
              /\ sock'[ses'[x].pumpWs].pc \in {"replay", "done"} \union Serving
        BY <2>1, <2>3, <4>3 DEF OwnedOk
      <4>6. (ses'[x].pumpWs # Nobody) <=> (ses'[x].pump \in {"want", "send"})
        BY <2>1, <4>3 DEF OwnedOk
      <4>7. ses'[x].st \notin {"none", "spawning"}
        BY <3>1, <4>2
      <4> QED
        BY <4>4, <4>5, <4>6, <4>7 DEF OwnedOk
    <3>4. RingOk(x)'
      BY <2>1, <2>4, <3>1, <3>2 DEF RingOk
    <3>5. ShownTo(x)'
      <4>1. n.pumpWs # n.ws
        BY <1>6, <1>8, <2>3, <2>4, <3>2
      <4>2. ses'[x].ws = w /\ ses'[x].out = p.out
        BY <1>8, <3>1, <3>2
      <4>3. ses'[x].pumpWs # ses'[x].ws
        BY <3>1, <4>1
      <4>4. sock'[ses'[x].ws].seen = ring
        BY <1>12, <3>1, <4>2
      <4> QED
        BY <1>5, <4>2, <4>3, <4>4 DEF ShownTo
    <3> QED
      BY <3>3, <3>4, <3>5
  <2>5. CASE x # s
    <3>1. ses'[x] = ses[x]
      BY <1>10, <2>5
    <3>2. ses[x].ws # Nobody => sock'[ses[x].ws] = sock[ses[x].ws]
      BY <1>1, <1>14, <2>1, <2>2 DEF OwnedOk, Peer, Serving
    <3> QED
      BY <2>1, <2>3, <3>1, <3>2 DEF OwnedOk, RingOk, ShownTo
  <2> QED
    BY <2>4, <2>5
<1>23. Owners' /\ Ring' /\ Shown'
  <2>1. (\A x \in Sids : OwnedOk(x) /\ RingOk(x) /\ ShownTo(x))'
    BY <1>22
  <2> QED
    BY <2>1 DEF Owners, Ring, Shown, OwnedOk, RingOk, ShownTo
<1>24. ParkedWriterIsTheOwner'
  <2>1. ASSUME NEW v \in Sockets, sock'[v].pc = "parked"
        PROVE  /\ ses'[sock'[v].sid].writer = v
               /\ ses'[sock'[v].sid].st = "open" /\ ses'[sock'[v].sid].ws = v
    <3>1. sock[v].pc = "parked" /\ sock'[v].sid = sock[v].sid
      BY <1>1, <1>12, <1>14, <2>1
    <3> PICK x \in Sids : x = sock[v].sid
      BY <3>1, SeatedSid DEF Seated, Serving
    <3>2. ses[x].writer = v /\ ses[x].st = "open" /\ ses[x].ws = v
      BY <3>1 DEF IInv, ParkedWriterIsTheOwner, Owns
    <3>3. x # s
      BY <1>4, <3>2, TerminalAssumption
    <3>4. ses'[x] = ses[x]
      BY <1>10, <3>3
    <3> QED
      BY <3>1, <3>2, <3>4
  <2> QED
    BY <2>1 DEF ParkedWriterIsTheOwner, Owns
<1> QED
  BY <1>15, <1>19, <1>20, <1>21, <1>23, <1>24 DEF IInv
-----------------------------------------------------------------------------
(* The invariant is inductive. *)

LEMMA Starts == Init => IInv
<1> SUFFICES ASSUME Init PROVE IInv
  OBVIOUS
<1>1. \A s \in Sids : ses[s] = NoSession
  BY DEF Init
<1>2. \A w \in Sockets : sock[w] = NewSocket
  BY DEF Init
<1>3. Types
  <2>1. NoSession \in SessionRecord
    BY Unspawned
  <2>2. NewSocket \in SocketRecord
    <3>1. Units \in 0 .. Units /\ <<>> \in Seq(1 .. MaxChunks)
      BY TerminalAssumption
    <3> DEFINE chunks == Seq(1 .. MaxChunks)
               units == 0 .. Units
    <3>2. /\ Units \in units /\ <<>> \in chunks
          /\ SocketRecord =
               [pc : Pcs, sid : Sid, open : BOOLEAN, old : Peer, left : units, seen : chunks]
      BY <3>1 DEF SocketRecord, Pcs
    <3> HIDE DEF chunks, units
    <3> QED
      BY <3>2 DEF NewSocket, Pcs, Sid, Peer
  <2> QED
    BY <2>1, <2>2 DEF Init, Types, Sid
<1>4. Seats
  <2>1. \A w \in Sockets : sock[w].pc = "new" /\ sock[w].sid = Nobody
    BY <1>2 DEF NewSocket
  <2> QED
    BY <2>1 DEF Seats, AttachLock, SeatHonest, Seated, Attaching, Serving
<1>5. Creation
  <2>1. Creating = {}
    BY <1>2 DEF Creating, NewSocket
  <2>2. Cardinality(registered) = 0
    BY FS_EmptySet DEF Init
  <2> QED
    BY <2>1, <2>2, TerminalAssumption DEF Creation
<1>6. Registry
  <2>1. \A s \in Sids : ses[s].st = "none" /\ ses[s].closing = "no"
    BY <1>1 DEF NoSession
  <2> QED
    BY <2>1 DEF Registry, Listed, Init
<1>7. Owners /\ Ring /\ Shown
  BY <1>1 DEF Owners, Ring, Shown, NoSession
<1>8. Handover /\ ParkedWriterIsTheOwner
  BY <1>2 DEF Handover, ParkedWriterIsTheOwner, NewSocket
<1> QED
  BY <1>3, <1>4, <1>5, <1>6, <1>7, <1>8 DEF IInv

LEMMA SocketKeeps ==
  ASSUME IInv, NEW w \in Sockets, SocketStep(w)
  PROVE  IInv'
<1>1. CASE \E sid \in Asked : Connect(w, sid)
  BY <1>1, ConnectKeeps
<1>2. CASE TakeCreate(w)
  BY <1>2, TakeCreateKeeps
<1>3. CASE Prepared(w)
  BY <1>3, PreparedKeeps
<1>4. CASE Spawned(w)
  BY <1>4, SpawnedKeeps
<1>5. CASE TakeAttach(w)
  BY <1>5, TakeAttachKeeps
<1>6. CASE Booted(w)
  BY <1>6, BootedKeeps
<1>7. CASE Announced(w)
  BY <1>7, AnnouncedKeeps
<1>8. CASE Snapshot(w)
  BY <1>8, SnapshotKeeps
<1>9. CASE Replayed(w)
  BY <1>9, ReplayedKeeps
<1>10. CASE Disconnect(w)
  BY <1>10, DisconnectKeeps
<1>11. CASE Quit(w) \/ Bail(w)
  BY <1>11, QuitKeeps
<1>12. CASE Keystrokes(w)
  BY <1>12, KeystrokesKeeps
<1>13. CASE Resize(w)
  BY <1>13, ResizeKeeps
<1>14. CASE WriteTurn(w)
  BY <1>14, WriteTurnKeeps
<1>15. CASE Resume(w)
  BY <1>15, ResumeKeeps
<1>16. CASE Kill(w)
  BY <1>16, KillKeeps
<1> QED
  BY <1>1, <1>2, <1>3, <1>4, <1>5, <1>6, <1>7, <1>8, <1>9, <1>10, <1>11, <1>12,
     <1>13, <1>14, <1>15, <1>16 DEF SocketStep

LEMMA SessionKeeps ==
  ASSUME IInv, NEW s \in Sids, SessionStep(s)
  PROVE  IInv'
<1>1. CASE Age(s)
  BY <1>1, AgeKeeps
<1>2. CASE Writable(s)
  BY <1>2, WritableKeeps
<1>3. CASE Output(s)
  BY <1>3, OutputKeeps
<1>4. CASE PumpLock(s)
  BY <1>4, PumpLockKeeps
<1>5. CASE PumpSent(s)
  BY <1>5, PumpSentKeeps
<1>6. CASE PumpFailed(s)
  BY <1>6, PumpFailedKeeps
<1>7. CASE ShellExit(s) \/ CloseKill(s)
  BY <1>7, DiesKeeps
<1>8. CASE EndOfFile(s)
  BY <1>8, EndOfFileKeeps
<1>9. CASE CloseStart(s)
  BY <1>9, CloseStartKeeps
<1>10. CASE CloseFinish(s)
  BY <1>10, CloseFinishKeeps
<1> QED
  BY <1>1, <1>2, <1>3, <1>4, <1>5, <1>6, <1>7, <1>8, <1>9, <1>10 DEF SessionStep

LEMMA Stutters ==
  ASSUME IInv, UNCHANGED vars
  PROVE  IInv'
<1>1. ses' = ses /\ sock' = sock /\ registered' = registered /\ sized' = sized
  BY DEF vars
<1>2. Types'
  BY <1>1 DEF IInv, Types
<1>3. \A v \in Sockets : Plain(sock'[v], sock[v])
  BY <1>1 DEF Plain, IInv, Seats, SeatHonest
<1>4. \A s \in Sids : KeepsSession(ses'[s], ses[s])
  BY <1>1 DEF KeepsSession, KeepsLife, KeepsPump, KeepsOwner
<1> QED
  BY <1>1, <1>2, <1>3, <1>4, PlainStep

\* No step of a socket, a session, the sweep or the shutdown breaks the
\* invariant that the theorems below rest on.
THEOREM Inductive == Spec => []IInv
<1>1. Init => IInv
  BY Starts
<1>2. IInv /\ [Next]_vars => IInv'
  <2> SUFFICES ASSUME IInv, [Next]_vars PROVE IInv'
    OBVIOUS
  <2>1. CASE \E w \in Sockets : SocketStep(w)
    BY <2>1, SocketKeeps
  <2>2. CASE \E s \in Sids : SessionStep(s)
    BY <2>2, SessionKeeps
  <2>3. CASE Sweep
    BY <2>3, SweepKeeps
  <2>4. CASE Shutdown
    BY <2>4, ShutdownKeeps
  <2>5. CASE UNCHANGED vars
    BY <2>5, Stutters
  <2> QED
    BY <2>1, <2>2, <2>3, <2>4, <2>5 DEF Next
<1> QED
  BY <1>1, <1>2, PTL DEF Spec

\* Every record of the two tables keeps its shape: states, sockets, classes
\* and counts stay in their ranges through every attach, detach and close.
THEOREM TypeCorrect == Spec => []TypeOK
<1>1. IInv => TypeOK
  <2> SUFFICES ASSUME IInv PROVE TypeOK
    OBVIOUS
  <2>1. ASSUME NEW s \in Sids
        PROVE  /\ ses[s].st \in {"none", "spawning", "open", "closed"}
               /\ ses[s].alive \in BOOLEAN
               /\ ses[s].closing \in {"no", "sched", "hup", "fin"}
               /\ {ses[s].ws, ses[s].pumpWs, ses[s].writer} \subseteq Sockets \union {Nobody}
               /\ ses[s].idle \in 0 .. 2
               /\ ses[s].fd \in Fds \union {Nobody}
               /\ ses[s].out \in 0 .. MaxChunks /\ ses[s].lo \in 1 .. MaxChunks + 1
               /\ ses[s].pump \in {"off", "read", "want", "send"}
    <3> PICK p \in SessionRecord : p = ses[s]
      BY DEF IInv, Types
    <3>1. {p.ws, p.pumpWs, p.writer} \subseteq Sockets \union {Nobody}
      BY DEF SessionRecord, Peer
    <3> QED
      BY <3>1 DEF SessionRecord
  <2>2. ASSUME NEW w \in Sockets
        PROVE  /\ sock[w].pc \in Attaching \union Serving \union
                      {"new", "create", "prepare", "spawn", "attach", "done"}
               /\ sock[w].sid \in Sids \union {Nobody}
               /\ sock[w].old \in Sockets \union {Nobody}
               /\ sock[w].left \in 0 .. Units
               /\ sock[w].seen \in Seq(1 .. MaxChunks)
    <3> PICK q \in SocketRecord : q = sock[w]
      BY DEF IInv, Types
    <3> QED
      BY DEF SocketRecord, Seated, Sid, Peer
  <2> QED
    BY <2>1, <2>2 DEF TypeOK, IInv, Types, Sid
<1> QED
  BY <1>1, Inductive, PTL

\* However many pages ask for a terminal at once, no more than MaxSessions
\* sessions are registered; and the registry holds the open sessions whose
\* close is not due, no other and none less.
THEOREM SlotsKept == Spec => []SlotsHonest
<1>1. IInv => SlotsHonest
  BY DEF IInv, Creation, Registry, Listed, SlotsHonest
<1> QED
  BY <1>1, Inductive, PTL

\* The replay of the ring and the live output meet exactly: what an attached
\* page has been sent has no gap and no repetition, and it is up to date but
\* for the chunk the pump has in hand for it.
THEOREM ReplayMeets == Spec => []ReplayExact
<1>1. IInv => ReplayExact
  <2> SUFFICES ASSUME IInv PROVE ReplayExact
    OBVIOUS
  <2>1. ASSUME NEW w \in Sockets, NEW s \in Sids, ses[s].ws = w
        PROVE  LET seen == sock[w].seen
               IN /\ \A i \in 2 .. Len(seen) : seen[i] = seen[i - 1] + 1
                  /\ \/ ses[s].pumpWs = w
                     \/ Len(seen) = 0 /\ ses[s].out = 0
                     \/ Len(seen) > 0 /\ Last(seen) = ses[s].out
    <3> PICK seen : seen = sock[w].seen
      OBVIOUS
    <3>1. seen \in Seq(1 .. MaxChunks)
      BY DEF IInv, Types, SocketRecord
    <3>2. ses[s].ws # Nobody
      BY <2>1, TerminalAssumption
    <3>3. Gapless(seen) /\ (ses[s].pumpWs # w => EndsAt(seen, ses[s].out))
      BY <2>1, <3>2 DEF IInv, Shown
    <3>4. CASE seen = <<>>
      BY <3>3, <3>4 DEF Gapless, EndsAt
    <3>5. CASE seen # <<>>
      <4>1. Len(seen) > 0 /\ Last(seen) = seen[Len(seen)]
        BY <3>1, <3>5 DEF Last
      <4> QED
        BY <3>3, <3>5, <4>1 DEF Gapless, EndsAt
    <3> QED
      BY <3>4, <3>5
  <2> QED
    BY <2>1 DEF ReplayExact, Owns
<1> QED
  BY <1>1, Inductive, PTL
-----------------------------------------------------------------------------
(* Who writes. *)

\* No socket's input grows less.
Unspent == \A v \in Sockets : sock'[v].left = sock[v].left

LEMMA BailedUnspent ==
  ASSUME NEW sk \in [Sockets -> SocketRecord], NEW s, NEW v \in Sockets
  PROVE  Bailed(sk, s)[v].left = sk[v].left
<1> PICK q \in SocketRecord : q = sk[v]
  OBVIOUS
<1>1. [q EXCEPT !.pc = "bail"].left = q.left
  BY DEF SocketRecord
<1> QED
  BY <1>1 DEF Bailed

LEMMA LeaveUnspent ==
  ASSUME IInv, NEW w \in Sockets, sock[w].pc \in Seated, Leave(w)
  PROVE  Unspent
<1> PICK s \in Sids : s = sock[w].sid
  BY SeatedSid
<1> PICK sk \in [Sockets -> SocketRecord] : sk = DetachedSockets(s, w)
  BY DetachedTables DEF IInv
<1>1. sock' = [sk EXCEPT ![w] = Left(sk[w])]
  BY DEF Leave, Left
<1>2. ASSUME NEW v \in Sockets PROVE sk[v].left = sock[v].left
  BY DetachedWakes DEF IInv, Wakes, KeepsSeat
<1>3. Left(sk[w]).left = sk[w].left
  BY Socket
<1> QED
  BY <1>1, <1>2, <1>3 DEF Unspent

\* A socket that enters the attach of s, from the sockets sk.
LEMMA EnterUnspent ==
  ASSUME IInv, NEW sk \in [Sockets -> SocketRecord], NEW ss, NEW w \in Sockets, NEW s,
         \A v \in Sockets : sk[v].left = sock[v].left, Enter(w, s, sk, ss)
  PROVE  Unspent
<1>1. CASE sock' = [sk EXCEPT ![w].pc = "announce", ![w].sid = s]
  <2> PICK q \in SocketRecord : q = sk[w]
    OBVIOUS
  <2>1. [q EXCEPT !.pc = "announce", !.sid = s].left = q.left
    BY DEF SocketRecord
  <2>2. sock' = [sk EXCEPT ![w] = [q EXCEPT !.pc = "announce", !.sid = s]]
    BY <1>1
  <2> QED
    BY <2>1, <2>2 DEF Unspent
<1>2. CASE \E old : sock' = [Bailed(sk, s) EXCEPT ![w].pc = "boot", ![w].sid = s, ![w].old = old]
  <2> PICK old : sock' = [Bailed(sk, s) EXCEPT ![w].pc = "boot", ![w].sid = s, ![w].old = old]
    BY <1>2
  <2> PICK bs : bs = Bailed(sk, s)
    OBVIOUS
  <2>1. bs = [v \in Sockets |-> bs[v]] /\ \A v \in Sockets : bs[v].left = sk[v].left
    BY BailedUnspent DEF Bailed
  <2>2. ASSUME NEW v \in Sockets
        PROVE  sock'[v] = IF v = w THEN [bs[w] EXCEPT !.pc = "boot", !.sid = s, !.old = old] ELSE bs[v]
    BY <2>1
  <2>3. bs[w] \in SocketRecord
    <3> PICK q \in SocketRecord : q = sk[w]
      OBVIOUS
    <3>1. Goes(q, "bail") \in SocketRecord
      BY Socket DEF Pcs, Seated, Serving
    <3> QED
      BY <3>1 DEF Bailed, Goes
  <2> PICK q \in SocketRecord : q = bs[w]
    BY <2>3
  <2>4. [q EXCEPT !.pc = "boot", !.sid = s, !.old = old].left = q.left
    BY DEF SocketRecord
  <2> QED
    BY <2>1, <2>2, <2>4 DEF Unspent
<1> QED
  BY <1>1, <1>2 DEF Enter

\* Nothing but a turn of _write_all takes a piece of input.
LEMMA SocketSpends ==
  ASSUME IInv, NEW w \in Sockets, SocketStep(w), ~WriteTurn(w)
  PROVE  Unspent
<1> PICK q \in SocketRecord : q = sock[w]
  BY DEF IInv, Types
<1>1. ASSUME NEW r, sock' = [sock EXCEPT ![w] = r], r.left = q.left
      PROVE  Unspent
  BY <1>1 DEF Unspent, IInv, Types
<1>2. ASSUME NEW sid \in Asked, Connect(w, sid) PROVE Unspent
  <2> PICK opened : opened = [sock EXCEPT ![w].open = TRUE]
    OBVIOUS
  <2> PICK o : o = [q EXCEPT !.open = TRUE]
    OBVIOUS
  <2>1. o \in SocketRecord /\ o.left = q.left
    BY DEF SocketRecord
  <2>2. opened = [sock EXCEPT ![w] = o]
    BY DEF IInv, Types
  <2>3. opened \in [Sockets -> SocketRecord] /\ \A v \in Sockets : opened[v].left = sock[v].left
    BY <2>1, <2>2 DEF IInv, Types
  <2>4. CASE sock' = [opened EXCEPT ![w].pc = "attach", ![w].sid = sid]
    <3>1. [o EXCEPT !.pc = "attach", !.sid = sid].left = o.left
      BY <2>1 DEF SocketRecord
    <3>2. sock' = [sock EXCEPT ![w] = [o EXCEPT !.pc = "attach", !.sid = sid]]
      BY <2>2, <2>4 DEF IInv, Types
    <3> QED
      BY <1>1, <2>1, <3>1, <3>2
  <2>5. CASE Enter(w, sid, opened, Reaped(Stale))
    BY <2>3, <2>5, EnterUnspent
  <2>6. CASE TurnAway(w)
    <3>1. sock' = [sock EXCEPT ![w] = Turned(q)]
      BY <2>6 DEF TurnAway, Turned, IInv, Types
    <3> QED
      BY <1>1, <3>1, Socket DEF KeepsSeat
  <2>7. CASE sock' = [opened EXCEPT ![w].pc = "create"]
    <3>1. [o EXCEPT !.pc = "create"].left = o.left
      BY <2>1 DEF SocketRecord
    <3>2. sock' = [sock EXCEPT ![w] = [o EXCEPT !.pc = "create"]]
      BY <2>2, <2>7 DEF IInv, Types
    <3> QED
      BY <1>1, <2>1, <3>1, <3>2
  <2> QED
    BY <1>2, <2>4, <2>5, <2>6, <2>7 DEF Connect
<1>3. CASE TurnAway(w)
  <2>1. sock' = [sock EXCEPT ![w] = Turned(q)]
    BY <1>3 DEF TurnAway, Turned, IInv, Types
  <2> QED
    BY <1>1, <2>1, Socket DEF KeepsSeat
<1>4. ASSUME NEW pc, sock' = [sock EXCEPT ![w].pc = pc] PROVE Unspent
  <2>1. [q EXCEPT !.pc = pc].left = q.left
    BY DEF SocketRecord
  <2>2. sock' = [sock EXCEPT ![w] = [q EXCEPT !.pc = pc]]
    BY <1>4
  <2> QED
    BY <1>1, <2>1, <2>2
<1>5. CASE TakeCreate(w)
  BY <1>3, <1>4, <1>5 DEF TakeCreate
<1>6. CASE Prepared(w)
  <2>1. ASSUME NEW s, sock' = [sock EXCEPT ![w].pc = "spawn", ![w].sid = s] PROVE Unspent
    <3>1. [q EXCEPT !.pc = "spawn", !.sid = s].left = q.left
      BY DEF SocketRecord
    <3>2. sock' = [sock EXCEPT ![w] = [q EXCEPT !.pc = "spawn", !.sid = s]]
      BY <2>1 DEF IInv, Types
    <3> QED
      BY <1>1, <3>1, <3>2
  <2> QED
    BY <1>3, <1>6, <2>1 DEF Prepared
<1>7. CASE Spawned(w)
  BY <1>3, <1>4, <1>7 DEF Spawned
<1>8. CASE TakeAttach(w)
  BY <1>8, EnterUnspent DEF TakeAttach, IInv, Types
<1>9. CASE Booted(w)
  <2> PICK gone : gone = q.old
    OBVIOUS
  <2>1. sock' = [v \in Sockets |->
                   LET a == IF v = w THEN [q EXCEPT !.pc = "announce", !.old = Nobody] ELSE sock[v]
                   IN IF v = gone THEN [a EXCEPT !.open = FALSE] ELSE a]
    BY <1>9 DEF Booted, IInv, Types
  <2>2. ASSUME NEW v \in Sockets PROVE sock'[v].left = sock[v].left
    <3> PICK b \in SocketRecord : b = sock[v]
      BY DEF IInv, Types
    <3> PICK a : a = IF v = w THEN [b EXCEPT !.pc = "announce", !.old = Nobody] ELSE b
      OBVIOUS
    <3>1. a \in SocketRecord /\ a.left = b.left
      BY DEF SocketRecord, Seated, Attaching, Peer
    <3>2. [a EXCEPT !.open = FALSE].left = a.left
      BY <3>1 DEF SocketRecord
    <3> QED
      BY <2>1, <3>1, <3>2
  <2> QED
    BY <2>2 DEF Unspent
<1>10. CASE Announced(w) \/ Replayed(w)
  BY <1>4, <1>10, LeaveUnspent DEF Announced, Replayed, Seated, Attaching
<1>11. CASE Snapshot(w)
  <2> PICK ring, pc : sock' = [sock EXCEPT ![w].seen = ring, ![w].pc = pc]
    BY <1>11 DEF Snapshot
  <2>1. [q EXCEPT !.seen = ring, !.pc = pc].left = q.left
    BY DEF SocketRecord
  <2>2. sock' = [sock EXCEPT ![w] = [q EXCEPT !.seen = ring, !.pc = pc]]
    BY DEF IInv, Types
  <2> QED
    BY <1>1, <2>1, <2>2
<1>12. CASE Disconnect(w)
  <2>1. [q EXCEPT !.open = FALSE].left = q.left
    BY DEF SocketRecord
  <2>2. sock' = [sock EXCEPT ![w] = [q EXCEPT !.open = FALSE]]
    BY <1>12 DEF Disconnect
  <2> QED
    BY <1>1, <2>1, <2>2
<1>13. CASE Quit(w) \/ Bail(w)
  BY <1>13, LeaveUnspent DEF Quit, Bail, Seated, Serving
<1>14. CASE Keystrokes(w) \/ Resume(w)
  BY <1>4, <1>14 DEF Keystrokes, Resume
<1>15. CASE Resize(w)
  BY <1>15 DEF Resize, Unspent
<1>16. CASE Kill(w)
  <2>1. sock[w].pc \in Seated
    BY <1>16 DEF Kill, Receives, Seated, Serving
  <2> PICK s \in Sids : s = q.sid
    BY <2>1, SeatedSid
  <2>2. CASE Leave(w)
    BY <2>1, <2>2, LeaveUnspent
  <2>3. CASE sock' = [ClosingSockets({s}) EXCEPT ![w].pc = "kill"]
    <3> PICK sk \in [Sockets -> SocketRecord] : sk = ClosingSockets({s})
      BY ClosingTables
    <3>1. \A v \in Sockets : sk[v].left = sock[v].left
      BY ClosingTables DEF Wakes, KeepsSeat
    <3>2. [sk[w] EXCEPT !.pc = "kill"].left = sk[w].left
      <4> PICK r \in SocketRecord : r = sk[w]
        OBVIOUS
      <4> QED
        BY DEF SocketRecord
    <3> QED
      BY <2>3, <3>1, <3>2 DEF Unspent
  <2> QED
    BY <1>16, <2>2, <2>3 DEF Kill
<1> QED
  BY <1>2, <1>5, <1>6, <1>7, <1>8, <1>9, <1>10, <1>11, <1>12, <1>13, <1>14, <1>15, <1>16
     DEF SocketStep

LEMMA SessionSpends ==
  ASSUME IInv, NEW s \in Sids, SessionStep(s)
  PROVE  Unspent
<1> PICK p \in SessionRecord : p = ses[s]
  BY DEF IInv, Types
<1>1. CASE sock' = sock
  BY <1>1 DEF Unspent
<1>2. CASE sock' = ClosingSockets({s})
  <2> PICK sk \in [Sockets -> SocketRecord] : sk = ClosingSockets({s})
    BY ClosingTables
  <2>1. \A v \in Sockets : sk[v].left = sock[v].left
    BY ClosingTables DEF Wakes, KeepsSeat
  <2> QED
    BY <1>2, <2>1 DEF Unspent
<1>3. CASE Age(s) \/ Output(s) \/ PumpLock(s) \/ ShellExit(s) \/ CloseKill(s)
  BY <1>1, <1>3 DEF Age, Output, PumpLock, ShellExit, CloseKill
<1>4. CASE EndOfFile(s) \/ CloseStart(s)
  BY <1>1, <1>2, <1>4 DEF EndOfFile, CloseStart
<1>5. CASE Writable(s)
  <2> PICK w \in Sockets : w = p.writer
    BY <1>5 DEF Writable, SessionRecord, Peer
  <2> PICK q \in SocketRecord : q = sock[w]
    BY DEF IInv, Types
  <2>1. [q EXCEPT !.pc = "woken"].left = q.left
    BY DEF SocketRecord
  <2>2. sock' = [sock EXCEPT ![w] = [q EXCEPT !.pc = "woken"]]
    BY <1>5 DEF Writable
  <2> QED
    BY <2>1, <2>2 DEF Unspent, IInv, Types
<1>6. CASE PumpSent(s)
  <2> PICK w : w = p.pumpWs
    OBVIOUS
  <2> PICK more : sock' = [sock EXCEPT ![w].seen = more]
    BY <1>6 DEF PumpSent
  <2>1. ASSUME NEW v \in Sockets PROVE sock'[v].left = sock[v].left
    <3> PICK q \in SocketRecord : q = sock[v]
      BY DEF IInv, Types
    <3>1. [q EXCEPT !.seen = more].left = q.left
      BY DEF SocketRecord
    <3>2. sock'[v] = IF v = w THEN [q EXCEPT !.seen = more] ELSE q
      BY DEF IInv, Types
    <3> QED
      BY <3>1, <3>2
  <2> QED
    BY <2>1 DEF Unspent
<1>7. CASE PumpFailed(s)
  <2> PICK w : w = p.pumpWs
    OBVIOUS
  <2>1. \A v \in Sockets : DetachedSockets(s, w)[v].left = sock[v].left
    BY DetachedWakes DEF IInv, Wakes, KeepsSeat
  <2>2. sock' = DetachedSockets(s, w)
    BY <1>7 DEF PumpFailed
  <2> QED
    BY <2>1, <2>2 DEF Unspent
<1>8. CASE CloseFinish(s)
  <2>1. ASSUME NEW v \in Sockets PROVE sock'[v].left = sock[v].left
    <3> PICK q \in SocketRecord : q = sock[v]
      BY DEF IInv, Types
    <3>1. /\ [q EXCEPT !.pc = "done", !.open = FALSE, !.seen = <<>>].left = q.left
          /\ [q EXCEPT !.open = FALSE].left = q.left
      BY DEF SocketRecord
    <3> QED
      BY <1>8, <3>1 DEF CloseFinish
  <2> QED
    BY <2>1 DEF Unspent
<1> QED
  BY <1>3, <1>4, <1>5, <1>6, <1>7, <1>8 DEF SessionStep

\* A turn of _write_all takes input of its own socket only, after both checks.
LEMMA TurnSpends ==
  ASSUME IInv, NEW w \in Sockets, WriteTurn(w), NEW v \in Sockets, sock'[v].left < sock[v].left
  PROVE  Owns(v, sock[v].sid) /\ ses[sock[v].sid].st = "open"
<1> PICK q \in SocketRecord : q = sock[w]
  BY DEF IInv, Types
<1>1. sock[w].pc \in Seated /\ ses[sock[w].sid].st \in {"open", "closed"}
  BY DEF WriteTurn, Seated, Serving, IInv, Seats, SeatHonest
<1>2. ~Unspent
  BY DEF Unspent, IInv, Types, SocketRecord
<1>3. ~Leave(w)
  BY <1>1, <1>2, LeaveUnspent
<1>4. MayWrite(w)
  BY <1>3 DEF WriteTurn
<1>5. v = w
  BY <1>3 DEF WriteTurn, IInv, Types, SocketRecord
<1> QED
  BY <1>1, <1>4, <1>5 DEF MayWrite

\* Input enters a shell only from the socket that owns its open session at
\* that moment, and a writer that waits on a full PTY is the one registered
\* for it and owns an open session.
THEOREM OwnersWrite == Spec => InputOnlyFromOwner
<1> DEFINE Writes == \A w \in Sockets :
                       sock'[w].left < sock[w].left =>
                           Owns(w, sock[w].sid) /\ ses[sock[w].sid].st = "open"
<1>1. IInv => ParkedWriterIsTheOwner
  BY DEF IInv
<1>2. IInv /\ [Next]_vars => [Writes]_vars
  <2> SUFFICES ASSUME IInv, Next PROVE Writes
    BY DEF vars
  <2>1. Unspent => Writes
    BY DEF Unspent, IInv, Types, SocketRecord
  <2>2. ASSUME NEW w \in Sockets, SocketStep(w) PROVE Writes
    <3>1. CASE WriteTurn(w)
      BY <3>1, TurnSpends
    <3>2. CASE ~WriteTurn(w)
      BY <2>1, <2>2, <3>2, SocketSpends
    <3> QED
      BY <3>1, <3>2
  <2>3. ASSUME NEW s \in Sids, SessionStep(s) PROVE Writes
    BY <2>1, <2>3, SessionSpends
  <2>4. CASE Sweep
    BY <2>4 DEF Sweep, IInv, Types, SocketRecord
  <2>5. CASE Shutdown
    <3>1. \A v \in Sockets : ClosingSockets(registered)[v].left = sock[v].left
      BY ClosingTables DEF Wakes, KeepsSeat, IInv, Types
    <3>2. Unspent
      BY <2>5, <3>1 DEF Shutdown, Unspent
    <3> QED
      BY <2>1, <3>2
  <2> QED
    BY <2>2, <2>3, <2>4, <2>5 DEF Next
<1>3. Spec => [][Writes]_vars
  BY <1>2, Inductive, PTL DEF Spec
<1>4. Spec => []ParkedWriterIsTheOwner
  BY <1>1, Inductive, PTL
<1> QED
  BY <1>3, <1>4 DEF InputOnlyFromOwner
=============================================================================
