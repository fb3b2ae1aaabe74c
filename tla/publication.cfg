SPECIFICATION Spec
CONSTANTS
    Sessions = {s1, s2, s3}
    Branches = {main, fork}
    Main = main
    Paths = {p1}
    KvKeys = {}
    Chunks = {c1}
    CallerIds = {r1}
    None = None
    Collector = Collector
    MutationBudget = 1
    EditBound = 1
    SweepBound = 0
    CrashBound = 1
SYMMETRY Symmetry
INVARIANTS
    HistoryExplainsState
    OneReceiptPerCommit
    SequenceOrdersHistory
    WorkspaceRecordsTruthful
    AnswersTruthful
    ConflictsArePermanent
    SecondLineIdle
PROPERTIES
    ImplementsCommitLog
CHECK_DEADLOCK FALSE
