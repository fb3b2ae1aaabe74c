SPECIFICATION Spec
CONSTANTS
    Processes = {p1, p2}
    Last = 1
    NoProcess = NoProcess
    CrashBound = 1
    Calls = {c1, c2}
    Kinds = {"tool", "run", "ingest", "apply"}
    FileCount = 2
    Contents = {x, y}
    None = None
    EditBound = 1
SYMMETRY Interchangeable
CHECK_DEADLOCK FALSE
INVARIANTS
    OwnedAndMigrated
    CommitsExplained
    OutcomesTruthful
    FilesRecorded
    ApplyExact
PROPERTIES
    UnseenWorkKept
