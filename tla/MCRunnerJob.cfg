SPECIFICATION Spec
CONSTANTS
    Streams = {stdout, stderr}
    Watchers = {w1}
    OutputLimit = 1
    MaxChunks = 1
INVARIANTS
    TypeOK
    EndingHonest
    KillFollowsClaim
PROPERTIES
    PromiseKept
    EverythingEnds
