SPECIFICATION LearnSpec
CONSTANTS
    None = None
    Bad = Bad
    \* BundleSchema
    PageIds = {"p1", "p2"}
    ItemIds = {"q1"}
    PageNames = {"index", "b"}
    FileNames = {"f"}
    Folders = {"x"}
    MaxEdits = 3
    \* BundleMigration
    Slugs = {s1, s2}
    Old = {o1, o2}
    Own = {n1}
    MaxDirs = 2
    MaxMeddling = 2
    \* LessonLifecycle
    Titles = {t1}
    EntryPaths = {page1, page2}
    First = page1
    MaxLessons = 2
    MaxCalls = 2
    MaxMoves = 4
    MaxClock = 1
    \* LessonPages
    Halves = {x, y}
    MaxChanges = 2
    MaxReads = 3
    MaxReaders = 2
    \* LessonBridge
    Requests = {r1}
    OpKinds = {"run", "cancel", "attempt", "get", "save"}
    Versions = {token1, token2}
    Pages = {page1}
    NoPage = NoPage
    NoJob = NoJob
    Outputs = 1
    Trouble = 1
    MaxLoads = 2
    MaxReasserts = 1
    MaxInflight = 1
    MaxOwned = 1
    MaxProtocolErrors = 1
INVARIANTS
    TypesOK
    ManifestHonest
    LessonsHonest
    IdentityHonest
    MigrationRestorable
    BridgeHonest
\* The bounds on edits, moves, loads and runs end every behaviour.
CHECK_DEADLOCK FALSE
