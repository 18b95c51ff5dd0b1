---------------------------- MODULE LessonBridge ----------------------------
(***************************************************************************)
(* The Learn page's parent runtime (app/static/src/learn-bridge.ts): which *)
(* document the preview frame shows, which page identity that document is  *)
(* bound to, the one port it is granted, and the operations it may ask for *)
(* over the port.  Everything the parent awaits (preview metadata, settle  *)
(* timers, HTTP calls, the run stream) is a separate step, so navigations  *)
(* and edits of the bundle fall between any two of them.                   *)
(*                                                                         *)
(* Of what the frame shows the runtime learns one thing, that some load    *)
(* ended: `frame` is what it believes, `shown` what the browser does.  A   *)
(* document runs from its commit, and its load may come late or never.     *)
(*                                                                         *)
(* The server is external: `meta` is what its preview-meta route would     *)
(* answer now, a version token (bytes and profile), a page identity and    *)
(* what the manifest declares for the page.                                *)
(***************************************************************************)
EXTENDS Naturals, Sequences, FiniteSets, FiniteSetsExt

CONSTANTS
    Requests,       \* request ids a lesson document uses
    Kinds,          \* operations it asks for
    Versions,       \* version tokens of the page
    Pages,          \* page identities the manifest may give the entry
    NoPage,         \* ... or none: not bridge-eligible
    NoJob,          \* no run is relayed
    Outputs,        \* output events of a run before its exit event
    Trouble,        \* bound: edits, lost answers, self-navigations, bad messages
    MaxLoads,       \* bound: load events of the frame
    MaxReasserts, MaxInflight, MaxOwned, MaxProtocolErrors

VARIABLES
    meta,       \* external: what preview-meta answers
    trouble,    \* how much of the bound Trouble is used
    frame,      \* the navigation state of the runtime
    shown,      \* external: the document in the iframe, as the browser has it
    bridge,     \* per-document state, reset by teardown
    fetches,    \* metadata reads of bind, tick and handshake in flight
    ops,        \* operations in flight
    applied     \* child: last event of each request's run it has shown

vars == <<meta, trouble, frame, shown, bridge, fetches, ops, applied>>

Waiting == [is |-> "waiting"]
Lost == [is |-> "lost"]
Done == [is |-> "done"]
Declarations == {{}, {"question", "block"}, {"question", "block", "run"}}
Metas == [ver : Versions, page : Pages \union {NoPage}, can : SUBSET {"question", "block", "run"}]

\* What each operation awaits, in order.
Stages ==
    [attempt |-> <<"look", "settle", "attempt">>,
     get     |-> <<"look", "look", "get", "look">>,
     save    |-> <<"look", "settle", "look", "save">>,
     run     |-> <<"look", "settle", "look", "save", "look", "start", "look">>,
     cancel  |-> <<"look", "settle", "look", "cancel">>]

Stage(o) == Stages[o.kind][o.at]
Needs(o) == IF o.kind = "attempt" THEN {"question"}
            ELSE IF o.kind = "run" THEN {"block", "run"}
            ELSE IF o.kind = "cancel" THEN {} ELSE {"block"}
Capability(k) == IF k = "attempt" THEN "attempts" ELSE IF k \in {"get", "save"} THEN "editor" ELSE "run"

NoBridge == [armed |-> {}, can |-> {}, caps |-> {}, granted |-> FALSE, port |-> FALSE,
             errors |-> 0, consent |-> {}, granting |-> FALSE, starting |-> FALSE,
             owned |-> <<>>, relay |-> NoJob]

Identity(m) == [page |-> m.page, ver |-> m.ver]
Shown(kind, v) == [kind |-> kind, ver |-> v]

\* The file route serves the bytes the token names, or a refusal that reloads itself.
Served(v) == IF meta.ver = v THEN Shown("page", v) ELSE Shown("refused", v)

\* The parent sets the frame's src: the browser is to go where it says.
SentOn(s) == [s EXCEPT !.going = TRUE, !.astray = FALSE]

(* The module may start before the first load or after it; after a second  *)
(* load it puts the expected page back.  The document it finds after one   *)
(* load may have gone elsewhere before that load.                          *)
Init ==
    \E v \in Versions, p \in Pages, loads \in 0..2, own \in BOOLEAN :
        /\ meta = [ver |-> v, page |-> p, can |-> {"question", "block", "run"}]
        /\ frame = [gen |-> 0, expected |-> v, pending |-> loads # 1,
                    reasserts |-> IF loads = 2 THEN 1 ELSE 0, quarantined |-> FALSE]
        /\ own => loads # 0
        /\ loads = 2 => own
        /\ shown = [doc |-> Shown(IF own THEN "other" ELSE IF loads = 0 THEN "blank" ELSE "page", v),
                    loading |-> FALSE, going |-> loads # 1, own |-> own, astray |-> own /\ loads = 1]
        /\ bridge = NoBridge
        /\ fetches = {} /\ ops = {} /\ trouble = 0
        /\ applied = [r \in Requests |-> 0]

Troubled == trouble < Trouble /\ trouble' = trouble + 1

(* The bundle changes: new bytes, or a manifest edit that leaves them.     *)
EditBundle ==
    /\ Troubled
    /\ \E m \in Metas :
        /\ m # meta /\ m.can \in Declarations
        /\ m.ver # meta.ver => m.can = meta.can /\ m.page = meta.page
        /\ meta' = m
        /\ ops' = {IF Needs(o) \subseteq m.can /\ Identity(m) \in o.page
                   THEN [o EXCEPT !.fresh = TRUE] ELSE o : o \in ops}
    /\ UNCHANGED <<frame, shown, bridge, fetches, applied>>

-----------------------------------------------------------------------------
(* Frame and identity *)

Navigated(f, m) ==
    [f EXCEPT !.expected = m.ver, !.reasserts = 0, !.quarantined = FALSE, !.pending = TRUE]

Navigate(m) == frame' = Navigated(frame, m) /\ shown' = SentOn(shown) /\ bridge' = NoBridge

IdentityMatches(m) == bridge.armed \subseteq (IF m.page = NoPage THEN {} ELSE {Identity(m)})

Armed_MidNavigation(b, m) ==
    IF frame.quarantined \/ b.armed # {} \/ b.granted \/ m.page = NoPage THEN b
    ELSE [b EXCEPT !.armed = {Identity(m)}, !.can = m.can]

Armed(b, m) ==
    IF frame.quarantined \/ frame.pending \/ b.armed # {} \/ b.granted \/ m.page = NoPage THEN b
    ELSE [b EXCEPT !.armed = {Identity(m)}, !.can = m.can]

Fetch(why, want) == [why |-> why, gen |-> frame.gen, seen |-> Waiting, want |-> want]

Reasserted_Always(f) == [f EXCEPT !.reasserts = @ + 1, !.pending = TRUE]

Reasserted(f) ==
    IF f.reasserts < MaxReasserts
    THEN [f EXCEPT !.reasserts = @ + 1, !.pending = TRUE]
    ELSE [f EXCEPT !.quarantined = TRUE]

(* The navigation the parent began last commits.                          *)
Commit ==
    /\ shown.going
    /\ shown' = [shown EXCEPT !.doc = Served(frame.expected), !.loading = TRUE, !.going = FALSE, !.own = FALSE]
    /\ UNCHANGED <<meta, trouble, frame, bridge, fetches, ops, applied>>

(* The document on show goes elsewhere (a link, a script), loaded or not,  *)
(* or a refusal reloads itself; a navigation the parent had begun is       *)
(* replaced.  Nothing tells the runtime, and the successor already runs.   *)
SelfNavigate ==
    /\ shown.doc.kind # "blank"
    /\ \/ /\ shown.doc.kind # "refused" /\ Troubled
          /\ shown' = [shown EXCEPT !.doc = Shown("other", @.ver), !.loading = TRUE, !.going = FALSE, !.own = TRUE]
       \/ /\ shown.doc.kind = "refused" /\ UNCHANGED trouble
          /\ shown' = [shown EXCEPT !.doc = Served(@.ver), !.loading = TRUE, !.going = FALSE, !.own = TRUE]
    /\ UNCHANGED <<meta, frame, bridge, fetches, ops, applied>>

(* The frame's load event does not say of which document it is.  While a   *)
(* navigation is pending it is taken for that one's and the document bound *)
(* (astray: it went there itself, or the parent's is still on its way);    *)
(* else a document left on its own, and the expected page is put back.     *)
Load ==
    /\ shown.loading /\ frame.gen < MaxLoads
    /\ LET next == [frame EXCEPT !.gen = @ + 1]
           loaded == [shown EXCEPT !.loading = FALSE]
       IN  IF frame.pending
           THEN /\ frame' = [next EXCEPT !.pending = FALSE]
                /\ shown' = [loaded EXCEPT !.astray = shown.own \/ shown.going]
                /\ fetches' = fetches \union {[Fetch("bind", {}) EXCEPT !.gen = frame.gen + 1]}
           ELSE /\ frame' = Reasserted(next)
                /\ shown' = IF frame.reasserts < MaxReasserts THEN SentOn(loaded) ELSE loaded
                /\ UNCHANGED fetches
    /\ bridge' = NoBridge
    /\ UNCHANGED <<meta, trouble, ops, applied>>

(* The live-reload poll: one read at a time, for whatever document its     *)
(* answer then finds.                                                      *)
Tick ==
    /\ \A f \in fetches : f.why # "tick"
    /\ fetches' = fetches \union {[Fetch("tick", {}) EXCEPT !.gen = 0]}
    /\ UNCHANGED <<meta, trouble, frame, shown, bridge, ops, applied>>

(* The server answers a metadata read, or the answer is lost.              *)
AnswerFetch(f) ==
    /\ f.seen = Waiting
    /\ \/ UNCHANGED trouble /\ fetches' = (fetches \ {f}) \union {[f EXCEPT !.seen = meta]}
       \/ Troubled /\ fetches' = (fetches \ {f}) \union {[f EXCEPT !.seen = Lost]}
    /\ UNCHANGED <<meta, frame, shown, bridge, ops, applied>>

BindDone(f) ==
    /\ f.why = "bind" /\ f.seen # Waiting
    /\ IF f.gen # frame.gen \/ f.seen = Lost THEN UNCHANGED <<frame, shown, bridge>>
       ELSE IF f.seen.ver # frame.expected THEN Navigate(f.seen)
       ELSE bridge' = Armed(bridge, f.seen) /\ UNCHANGED <<frame, shown>>
    /\ fetches' = fetches \ {f}
    /\ UNCHANGED <<meta, trouble, ops, applied>>

TickDone(f) ==
    /\ f.why = "tick" /\ f.seen # Waiting
    /\ IF f.seen = Lost THEN UNCHANGED <<frame, shown, bridge>>
       ELSE IF \/ f.seen.ver # frame.expected
               \/ ~frame.pending /\ ~IdentityMatches(f.seen) THEN Navigate(f.seen)
       ELSE IF frame.pending THEN UNCHANGED <<frame, shown, bridge>>
       ELSE bridge' = Armed(bridge, f.seen) /\ UNCHANGED <<frame, shown>>
    /\ fetches' = fetches \ {f}
    /\ UNCHANGED <<meta, trouble, ops, applied>>

-----------------------------------------------------------------------------
(* Handshake *)

Granted(b, want) ==
    [b EXCEPT !.granted = TRUE, !.port = TRUE,
              !.caps = {c \in want : \/ c = "attempts"
                                     \/ c = "editor" /\ "block" \in b.can
                                     \/ c = "run" /\ {"block", "run"} \subseteq b.can}]

(* The document on show announces itself: its source is the frame's window,*)
(* which stands through navigations.  Before identity is bound the message *)
(* is dropped; for a document that settled before the module started it    *)
(* begins the bind that no load will begin.                                *)
Announce(want) ==
    /\ shown.doc.kind \in {"page", "other"} /\ ~bridge.granted
    /\ IF bridge.armed = {}
       THEN /\ frame.gen = 0 /\ ~frame.pending /\ \A f \in fetches : f.why # "bind"
            /\ fetches' = fetches \union {Fetch("bind", {})}
            /\ UNCHANGED bridge
       ELSE /\ ~bridge.granting
            /\ IF want \intersect {"editor", "run"} # {}
               THEN /\ bridge' = [bridge EXCEPT !.granting = TRUE]
                    /\ fetches' = fetches \union {Fetch("grant", want)}
               ELSE bridge' = Granted(bridge, want) /\ UNCHANGED fetches
    /\ UNCHANGED <<meta, trouble, frame, shown, ops, applied>>

GrantDone(f) ==
    /\ f.why = "grant" /\ f.seen # Waiting
    /\ LET mine == bridge.granting /\ f.gen = frame.gen
           b == [bridge EXCEPT !.granting = FALSE]
       IN  bridge' = IF ~mine THEN bridge
                     ELSE IF \/ bridge.armed = {} \/ bridge.granted \/ frame.pending
                             \/ frame.quarantined \/ f.seen = Lost THEN b
                     ELSE IF \/ f.seen.ver # frame.expected \/ f.seen.page = NoPage
                             \/ ~IdentityMatches(f.seen) THEN b
                     ELSE Granted([b EXCEPT !.can = f.seen.can], f.want)
    /\ fetches' = fetches \ {f}
    /\ UNCHANGED <<meta, trouble, frame, shown, ops, applied>>

(* A message that breaks the port protocol; the last one tolerated closes  *)
(* the port, and the grant stays consumed.                                 *)
ProtocolError ==
    /\ bridge.port /\ Troubled
    /\ bridge' = [bridge EXCEPT !.errors = @ + 1, !.port = @ /\ bridge.errors + 1 < MaxProtocolErrors]
    /\ UNCHANGED <<meta, frame, shown, fetches, ops, applied>>

-----------------------------------------------------------------------------
(* Operations *)

Inflight(k) == {o \in ops : o.gen = frame.gen /\ Capability(o.kind) = Capability(k)}

(* The child asks.  A duplicate of a pending request is dropped, a full    *)
(* membrane answers busy, and a run waits for no other run.                *)
Ask(r, k) ==
    /\ bridge.port /\ Capability(k) \in bridge.caps
    /\ \A o \in Inflight(k) : o.req # r
    /\ Cardinality(Inflight(k)) < MaxInflight
    /\ k = "run" => bridge.relay = NoJob /\ ~bridge.starting /\ applied[r] <= Outputs
    /\ k = "cancel" => r \in {bridge.owned[i] : i \in DOMAIN bridge.owned}
    /\ bridge' = [bridge EXCEPT !.starting = @ \/ k = "run"]
    /\ ops' = ops \union {[req |-> r, kind |-> k, gen |-> frame.gen, at |-> 1, seen |-> Waiting,
                           page |-> bridge.armed, fresh |-> FALSE]}
    /\ UNCHANGED <<meta, trouble, frame, shown, fetches, applied>>

(* The answer to what an operation awaits: fresh metadata, or the endpoint *)
(* (which may refuse); either may be lost.                                 *)
AnswerOp(o) ==
    /\ o.seen = Waiting /\ Stage(o) # "settle"
    /\ LET fresh == Needs(o) \subseteq meta.can /\ Identity(meta) \in o.page
       IN  \/ /\ ops' = (ops \ {o}) \union
                        {[o EXCEPT !.seen = IF Stage(o) = "look" THEN meta ELSE Done,
                                   !.fresh = IF Stage(o) = "look" THEN @ \/ fresh ELSE fresh]}
              /\ UNCHANGED trouble
           \/ /\ ops' = (ops \ {o}) \union {[o EXCEPT !.seen = Lost]}
              /\ Troubled
    /\ UNCHANGED <<meta, frame, shown, bridge, fetches, applied>>

Live(o) == o.gen = frame.gen /\ bridge.port
Settled == ~frame.pending /\ ~frame.quarantined

LookAllows_Undeclared(o) ==
    /\ o.seen # Lost /\ Settled
    /\ o.seen.ver = frame.expected /\ o.seen.page # NoPage /\ IdentityMatches(o.seen)

\* freshBlocks and freshBlock: the answer lets the operation go on.
LookAllows(o) ==
    /\ o.seen # Lost /\ Settled
    /\ o.seen.ver = frame.expected /\ o.seen.page # NoPage /\ IdentityMatches(o.seen)
    /\ Needs(o) \subseteq o.seen.can

Allows(o) ==
    /\ Live(o)
    /\ CASE Stage(o) = "settle" -> Settled
         [] Stage(o) = "look" -> LookAllows(o)
         [] OTHER -> o.seen = Done

Finished(o, b) == [b EXCEPT !.starting = @ /\ ~(o.kind = "run" /\ o.gen = frame.gen)]

\* The runs a document owns are the keys of a map, in the order they came.
Without(keys, r) ==
    IF \E i \in DOMAIN keys : keys[i] = r
    THEN LET i == CHOOSE i \in DOMAIN keys : keys[i] = r
         IN  SubSeq(keys, 1, i - 1) \o SubSeq(keys, i + 1, Len(keys))
    ELSE keys

Remembered(b, r) ==
    LET all == Append(Without(b.owned, r), r)
    IN  [b EXCEPT !.owned = IF Len(all) > MaxOwned THEN Tail(all) ELSE all, !.relay = r]

(* The continuation of an await: stop (answered or silently), go on to the *)
(* next await, or finish and answer.                                       *)
Stop(o) ==
    /\ o.seen # Waiting \/ Stage(o) = "settle"
    /\ ~Allows(o)
    /\ ops' = ops \ {o} /\ bridge' = Finished(o, bridge)
    /\ UNCHANGED <<meta, trouble, frame, shown, fetches, applied>>

GoOn(o) ==
    /\ o.seen # Waiting \/ Stage(o) = "settle"
    /\ Allows(o) /\ o.at < Len(Stages[o.kind])
    /\ IF o.kind = "get" /\ o.at = 1 /\ bridge.consent # {TRUE}
       THEN \* the parent asks the learner once per document; a refusal is kept
            \/ bridge.consent = {} /\ bridge' = [bridge EXCEPT !.consent = {TRUE}]
               /\ ops' = (ops \ {o}) \union {[o EXCEPT !.at = @ + 1, !.seen = Waiting, !.fresh = FALSE]}
            \/ bridge' = [bridge EXCEPT !.consent = {FALSE}] /\ ops' = ops \ {o}
       ELSE /\ ops' = (ops \ {o}) \union
                      {[o EXCEPT !.at = @ + 1, !.seen = Waiting,
                                 !.fresh = @ /\ ~(Stage(o) = "settle" /\ o.kind # "attempt")]}
            /\ UNCHANGED bridge
    /\ UNCHANGED <<meta, trouble, frame, shown, fetches, applied>>

Finish(o) ==
    /\ o.seen # Waiting /\ Allows(o) /\ o.at = Len(Stages[o.kind])
    /\ ops' = ops \ {o}
    /\ bridge' = Finished(o, IF o.kind = "run" THEN Remembered(bridge, o.req) ELSE bridge)
    /\ UNCHANGED <<meta, trouble, frame, shown, fetches, applied>>

-----------------------------------------------------------------------------
(* The relay of a run's stream.  Outputs are events 1..Outputs, the exit   *)
(* is the event after them; the server may repeat events already applied.  *)

OwnsRelay == bridge.relay # NoJob /\ bridge.port /\ \E i \in DOMAIN bridge.owned : bridge.owned[i] = bridge.relay

Disowned(b) == [b EXCEPT !.owned = Without(@, b.relay), !.relay = NoJob]

RelayEvent(seq) ==
    /\ OwnsRelay /\ seq <= applied[bridge.relay] + 1
    /\ applied' = [applied EXCEPT ![bridge.relay] = Max({@, seq})]
    /\ bridge' = IF seq = Outputs + 1 THEN Disowned(bridge) ELSE bridge
    /\ UNCHANGED <<meta, trouble, frame, shown, fetches, ops>>

(* The stream breaks, is malformed or is refused; a job the server no      *)
(* longer keeps is forgotten.  A relay that lost its port just ends.       *)
RelayEnds ==
    /\ bridge.relay # NoJob
    /\ \/ OwnsRelay /\ Troubled /\ bridge' \in {Disowned(bridge), [bridge EXCEPT !.relay = NoJob]}
       \/ ~OwnsRelay /\ UNCHANGED trouble /\ bridge' = [bridge EXCEPT !.relay = NoJob]
    /\ UNCHANGED <<meta, frame, shown, fetches, ops, applied>>

Wants == {{"attempts"}, {"attempts", "editor", "run"}}

Answering == \E f \in fetches : AnswerFetch(f) \/ BindDone(f) \/ TickDone(f) \/ GrantDone(f)

Next ==
    \/ EditBundle \/ Commit \/ SelfNavigate \/ Load \/ Tick \/ Answering
    \/ \E want \in Wants : Announce(want)
    \/ ProtocolError
    \/ \E r \in Requests, k \in Kinds : Ask(r, k)
    \/ \E o \in ops : AnswerOp(o) \/ Stop(o) \/ GoOn(o) \/ Finish(o)
    \/ \E seq \in 1..(Outputs + 1) : RelayEvent(seq)
    \/ RelayEnds

Spec == Init /\ [][Next]_vars

-----------------------------------------------------------------------------
(* Properties *)

TypeOK ==
    /\ meta \in Metas /\ frame.expected \in Versions /\ frame.reasserts \in 0..MaxReasserts
    /\ Len(bridge.owned) <= MaxOwned
    /\ \A o \in ops : o.req \in Requests /\ o.kind \in Kinds /\ o.at \in DOMAIN Stages[o.kind]

Sends == {"attempt", "get", "save", "start", "cancel"}

\* The document on show is a successor that the document before it went to by
\* itself, and has not loaded; or the load that the parent took for that of its
\* own navigation was another's: of such a successor, or of the document about
\* to be replaced.  No signal of the browser would tell the runtime.
Strayed == shown.astray \/ (shown.own /\ shown.loading)

(* Through navigations of the parent and of documents, edits and lost      *)
(* answers: identity is bound to the version the parent asked for, and a   *)
(* port is open under it only to that page's document, or to one that      *)
(* strayed.  The port of a successor ends at its load event unless that    *)
(* load was the one the parent waited for, and it may never load.  An      *)
(* operation reaches its endpoint only if, since it last asked, the page   *)
(* had that identity and declared what the operation needs; one run of a   *)
(* document is starting or relayed at a time, and it is one it owns.       *)
BridgeHonest ==
    /\ bridge.port =>
        /\ ~frame.pending /\ ~frame.quarantined
        /\ \E p \in Pages : bridge.armed = {[page |-> p, ver |-> frame.expected]}
        /\ shown.doc = Shown("page", frame.expected) \/ Strayed
    /\ \A o \in ops : Live(o) /\ o.seen = Waiting /\ Stage(o) \in Sends => o.fresh
    /\ Cardinality({o \in ops : o.kind = "run" /\ o.gen = frame.gen}) + (IF OwnsRelay THEN 1 ELSE 0) <= 1
=============================================================================
