------------------------- MODULE MCTerminalSessions -------------------------
(***************************************************************************)
(* TLC instance of TerminalSessions: three pages at one shell, or two      *)
(* pages that create two, with some output or input on the way.            *)
(***************************************************************************)
EXTENDS TerminalSessions

CONSTANTS
    w1, w2, w3, s1, s2,
    MaxCast,    \* bound: sockets that connect and sids that are minted
    MaxScene    \* bound: these and chunks of output and pieces of input

Cast == {w \in Sockets : sock'[w].pc # "new"} \union {s \in Sids : ses'[s].st # "none"}
Moved ==
    UNION {{<<s, n>> : n \in 1 .. ses'[s].out} : s \in Sids}
        \union UNION {{<<w, n>> : n \in sock'[w].left + 1 .. Units} : w \in Sockets}

\* Sockets and sids are interchangeable: they are numbered as they come.
InTurn ==
    /\ sock'[w2].pc # "new" => sock'[w1].pc # "new"
    /\ sock'[w3].pc # "new" => sock'[w2].pc # "new"
    /\ ses'[s2].st # "none" => ses'[s1].st # "none"

Bounded ==
    /\ Cardinality(Cast) <= MaxCast
    /\ Cardinality(Cast) + Cardinality(Moved) <= MaxScene

CastSpec == Init /\ [][Next /\ InTurn /\ Bounded]_vars /\ Fairness
=============================================================================
