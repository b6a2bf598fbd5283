CONSTANTS
    Ops = {o1, o2}
    Aliases = {a1}
    Requests = {r1, r2}
    Sessions = {s1}
    Controllers = {c1, c2}
    None = None
    writer = writer
    KEY_ROLES <- MCRoles
    MaxIssues = 2
    MaxRevision = 2
    MaxLife = 3
SPECIFICATION Spec
SYMMETRY Interchangeable
INVARIANTS
    ClosedIsOver
    OneKeyPerRole
    CutoverInOrder
    AppsMatchEpoch
PROPERTIES
    OnlyOpenMoves
\* A cutover that was cut off stays where it is.
CHECK_DEADLOCK FALSE
