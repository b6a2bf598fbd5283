CONSTANTS
    Nobody = Nobody
    Null = Null
    NumCandidates = 2
    Cases = {k1}
    Workers = {w1, w2}
    Dispatchers = {d1}
    Runtimes = {e1, e2}
    MaxQueue = 1
    MaxEvalFaults = 1
    Slots = {s1, s2}
    GenWorkers = {w1, w2}
    MaxRetries = 1
    MaxGenQueue = 1
    MaxGenFaults = 2
SPECIFICATION Spec
INVARIANTS
    CompletedRunIsWhole
    NoAutomaticReplay
    EndedRunIsSettled
PROPERTIES
    EndedRunIsFrozen
    UnconfirmedIsFenced
    EvaluationEnds
    GenerativeEnds
\* Once the run has ended and every message is gone nothing is left to do.
CHECK_DEADLOCK FALSE
