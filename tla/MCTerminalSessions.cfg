SPECIFICATION CastSpec
CONSTANTS
    w1 = w1
    w2 = w2
    w3 = w3
    s1 = s1
    s2 = s2
    Sockets = {w1, w2, w3}
    Sids = {s1, s2}
    LearnerSids = {s1, s2}
    Fds = {f1, f2}
    Nobody = Nobody
    MaxSessions = 1
    RingChunks = 1
    MaxChunks = 2
    Units = 1
    MaxCast = 4
    MaxScene = 5
CHECK_DEADLOCK FALSE
INVARIANTS
    TypeOK
    ReplayExact
    SlotsHonest
PROPERTIES
    InputOnlyFromOwner
    AttachSettles
