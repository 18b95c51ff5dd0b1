SPECIFICATION CastSpec
CONSTANTS
    w1 = w1
    w2 = w2
    w3 = w3
    s1 = s1
    s2 = s2
    Sockets = {w1, w2, w3}
    Sids = {s1, s2}
    LearnerSids = {s1, s2}
    Fds = {f1, f2}
    Nobody = Nobody
    MaxSessions = 1
    RingChunks = 1
    MaxChunks = 1
    Units = 0
    MaxCast = 5
    MaxScene = 6
CHECK_DEADLOCK FALSE
INVARIANTS
    PtySizedByItsOwner
