SPECIFICATION Spec
CONSTANTS
    Calls = {c1, c2}
    Texts = {a, b}
    Absent = Absent
    Unsafe = Unsafe
    Binary = Binary
    Torn = Torn
    RateMax = 1
    MaxDirect = 2
    MaxCrash = 1
SYMMETRY Symmetry
CHECK_DEADLOCK FALSE
INVARIANTS
    TypeOK
    EventsInSaveOrder
    ReadsAreWhole
PROPERTIES
    ConflictExclusion
