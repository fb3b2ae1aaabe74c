SPECIFICATION FairSpec
CONSTANTS
    Sessions = {s1, s2}
    Branches = {main}
    Main = main
    Paths = {p1}
    KvKeys = {k1}
    Chunks = {c1}
    CallerIds = {}
    None = None
    Collector = Collector
    MutationBudget = 1
    EditBound = 2
    SweepBound = 1
    CrashBound = 1
CHECK_DEADLOCK FALSE
INVARIANTS
    TypeOK
    NoDanglingContent
PROPERTIES
    CallsAnswered
