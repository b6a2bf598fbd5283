CONSTANTS
    j1 = j1
    j2 = j2
    d1 = d1
    d2 = d2
    Jobs = {j1, j2}
    Dispatchers = {d1, d2}
    BatchSize = 1
    Fenceable = {}
    MaxFaults = 1
SPECIFICATION Spec
PROPERTIES
    EveryRowDispatched
\* Once every row is sent or cancelled nothing is left to do.
CHECK_DEADLOCK FALSE
