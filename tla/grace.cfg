SPECIFICATION Spec
CONSTANTS
    Sessions = {s1, s2}
    Branches = {main}
    Main = main
    Paths = {p1}
    KvKeys = {}
    Chunks = {c1}
    CallerIds = {r1}
    None = None
    Collector = Collector
    MutationBudget = 1
    EditBound = 1
    SweepBound = 1
    CrashBound = 0
SYMMETRY Symmetry
PROPERTIES RecentChunksKept
CHECK_DEADLOCK FALSE
