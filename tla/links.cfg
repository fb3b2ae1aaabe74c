SPECIFICATION Spec
CONSTANTS
    Names = {a, b, c}
    Depth = 1
    Contents = {x, y}
    Target = target
    Metas = {0}
    Seeds <- FreshOnly
    EditBound = 4
    SweepBound = 0
CHECK_DEADLOCK FALSE
PROPERTIES
    WritesAreRead
