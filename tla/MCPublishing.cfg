CONSTANTS
    p1 = p1
    p2 = p2
    s1 = s1
    s2 = s2
    r1 = r1
    r2 = r2
    c1 = c1
    c2 = c2
    None = None
    Calls = {p1, p2}
    Slugs = {s1, s2}
    RequestIds = {r1, r2}
    Contents = {c1, c2}
    MaxRevision = 2
    MaxRevised = 1
SYMMETRY Symmetry
SPECIFICATION Spec
PROPERTY
    ImplementsPublishedStudy
\* Once every request id is used and applied, nothing is left to do.
CHECK_DEADLOCK FALSE
