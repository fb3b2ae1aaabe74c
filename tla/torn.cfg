SPECIFICATION Spec
CONSTANTS
    Chunks = {x}
    None = None
    Main = main
    SourceBound = 2
    TargetBound = 0
    RacingBound = 1
    ExportBound = 1
    ImportBound = 1
    CrashBound = 0
    SweepBound = 0
    AgeBound = 0
CHECK_DEADLOCK FALSE
INVARIANTS
    TargetReadable
