CONSTANTS
    c1 = c1
    c2 = c2
    r1 = r1
    k1 = k1
    k2 = k2
    a1 = a1
    a2 = a2
    q1 = q1
    q2 = q2
    v1 = v1
    v2 = v2
    public = public
    synthetic = synthetic
    None = None
    Calls = {c1, c2}
    Revisions = {r1}
    Evidence <- MCEvidence
    Configs = {k1, k2}
    MaxConcurrent <- MCMaxConcurrent
    FirstConfig = k1
    Disturbed = {c1}
    Actors = {a1, a2}
    RequestIds = {q1, q2}
    Classes = {public, synthetic}
    Reviews = {v1, v2}
    MaxGeneration = 3
    MaxFaults = 1
SPECIFICATION MCSpec
INVARIANTS
    EvidenceHistory
    ProcessesAreBounded
    RunningIsAuthorized
PROPERTIES
    ApprovedReviewsHaveGrants
    SlotsReturn
\* Once every call has ended and every request_id is used nothing is left to do.
CHECK_DEADLOCK FALSE
