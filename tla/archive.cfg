SPECIFICATION Spec
CONSTANTS
    Chunks = {x}
    None = None
    Main = main
    SourceBound = 1
    TargetBound = 1
    RacingBound = 0
    ExportBound = 1
    ImportBound = 2
    CrashBound = 1
    SweepBound = 1
    AgeBound = 1
CHECK_DEADLOCK FALSE
INVARIANTS
    ReferencesResolve
    RoundTrip
    NamesComeLast
