SPECIFICATION Spec
CONSTANTS
    Names = {n1, n2}
    Depth = 2
    Contents = {x, y}
    Target = target
    Metas = {0, 1}
    Seeds <- FreshOrLinked
    EditBound = 3
    SweepBound = 1
SYMMETRY Interchangeable
CHECK_DEADLOCK FALSE
INVARIANTS
    NodesComplete
    NothingUnread
    LinkGroupsAgree
    DiffExact
    ChangesAreLogged
PROPERTIES
    ImplementsPathMap
