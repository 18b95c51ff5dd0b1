SPECIFICATION Spec
CONSTANTS
    Starts = {s1, s2, s3}
    Lessons = {l1, l2, l3}
    Keys = {k}
    Targets = {t1, t2}
    Leases = {r1, r2}
    NoJob = NoJob
    GlobalLimit = 2
    LessonLimit = 1
    MaxTerminal = 1
    ReaderLimit = 2
    RateMax = 2
SYMMETRY Symmetry
CHECK_DEADLOCK FALSE
INVARIANTS
    TypeOK
    CountersHonest
    KeysHonest
    LeasesHonest
PROPERTIES
    NoLaunchAfterShutdown
