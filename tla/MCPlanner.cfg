SPECIFICATION PlannerSpec
CONSTANTS
    None = None
    \* RetroEntries
    Instants = {1, 2}
    Texts = {"a"}
    MaxRows = 1
    MaxJournal = 3
    MaxCalls = 2
    MaxClock = 1
    \* HabitLedger
    Words = {a, b}
    HabitDays = {d1}
    HabitStatuses = {full_done, failed}
    MaxItems = 2
    MaxLog = 4
    \* TaskBoard
    Gap = 2
    Priorities = {0, 1}
    MaxTasks = 3
    MaxLists = 3
    MaxMoves = 3
    \* CalendarSeries
    Week = 2
    LastDay = 3
    Intervals = {1, 2}
    MaxEvents = 1
    MaxEdits = 3
    \* SchemaUpgrade
    MaxStamped = 3
    MaxCrashes = 2
INVARIANTS
    TypesOK
    LedgerReplays
    SeriesHonest
    RetroHonest
    ViewsAgree
PROPERTIES
    DragMovesOneTask
    SchemaConverges
\* The bounds on writes end every behaviour.
CHECK_DEADLOCK FALSE
