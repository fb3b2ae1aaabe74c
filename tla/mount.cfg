SPECIFICATION Spec
CONSTANTS
    Names = {"d", "e", "f"}
    Depth = 2
    Places <- InTwo
    Contents = {x}
    Metas = {0, 1}
    Seed <- OneFile
    RequestBound = 4
    EventBound = 2
CHECK_DEADLOCK FALSE
INVARIANTS
    NumbersStandForFiles
PROPERTIES
    ReleaseExact
