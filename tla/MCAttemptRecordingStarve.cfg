SPECIFICATION Spec
CONSTANTS
    Requests = {r1, r2, r3}
    Keys = {k1, k2}
    Questions = {q1}
    Pages = {g1}
    Procs = {p1}
    NoRequest = NoRequest
    RateMax = 2
    MaxCrashes = 0
PROPERTIES
    RetriesNeverStarve
