CONSTANTS
    Convs = {c1, c2}
    Requests = {q1, q2}
    Handlers = {h1, h2}
    MaxCalls = 2
    MaxTurnFaults = 1
    Attachments = {a1}
    MaxLosses = 1
    FirstConv = c1
    FirstRequest = q1
SPECIFICATION MCSpec
INVARIANTS
    OneInference
    AnswerOnlyWhenSettled
    DraftBoundOnce
    CandidateIsUnused
PROPERTIES
    BoundRowsAreFrozen
    TurnsSettle
CHECK_DEADLOCK FALSE
