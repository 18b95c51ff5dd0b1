SPECIFICATION Spec
CONSTANTS
    Days = {d1}
    Statuses = {full_done, failed}
    Words = {a, b}
    None = None
    MaxCalls = 2
    MaxItems = 2
    MaxLog = 4
INVARIANT
    RestoreAccepts
\* The bound on events ends every behaviour.
CHECK_DEADLOCK FALSE
