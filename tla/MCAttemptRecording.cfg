SPECIFICATION Spec
CONSTANTS
    Requests = {r1, r2}
    Keys = {k1, k2}
    Questions = {q1}
    Pages = {g1, g2}
    Procs = {p1, p2}
    NoRequest = NoRequest
    RateMax = 2
    MaxCrashes = 1
INVARIANTS
    TypeOK
    CountsHonest
PROPERTIES
    LedgerKept
    EveryCallAnswered
