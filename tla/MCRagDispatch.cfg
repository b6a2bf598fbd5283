CONSTANTS
    j1 = j1
    j2 = j2
    d1 = d1
    d2 = d2
    Jobs = {j1, j2}
    Dispatchers = {d1, d2}
    BatchSize = 1
    Fenceable = {j1, j2}
    MaxFaults = 1
SPECIFICATION Spec
INVARIANTS
    CurrentClaimKept
PROPERTIES
    HealthyRowsDispatched
\* Once every row is sent or cancelled nothing is left to do.
CHECK_DEADLOCK FALSE
