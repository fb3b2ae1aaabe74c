SPECIFICATION Spec
CONSTANTS
    Processes = {p1}
    Last = 1
    NoProcess = NoProcess
    CrashBound = 0
    Calls = {c1, c2}
    Kinds = {"run"}
    FileCount = 2
    Contents = {x, y}
    None = None
    EditBound = 0
CHECK_DEADLOCK FALSE
INVARIANTS
    RunRecordsExactly
