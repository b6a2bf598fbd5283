CONSTANTS
    w1 = w1
    w2 = w2
    p1 = p1
    p2 = p2
    Jobs = {1}
    Workers = {w1, w2}
    Dispatchers = {p1, p2}
    MaxRetries = 1
    MaxFaults = 2
SPECIFICATION Spec
INVARIANTS
    CurrentClaimNotQueued
PROPERTIES
    JobsSettle
    
\* Once every job has ended and every message is gone nothing is left to do.
CHECK_DEADLOCK FALSE
