SPECIFICATION Spec
CONSTANTS
    Procs = {p1, p2}
    NoProc = NoProc
    Line <- MCLine
    Stamps = {1, 2, 3, 4, 5, 6, 7}
    MaxEdits = 1
    MaxFaults = 1
SYMMETRY Symmetry
INVARIANTS
    TypeOK
    TrustedIsFaithful
PROPERTIES
    ProjectedCoversOwnRow
    CursorNeverFallsBack
