CONSTANTS
    w1 = w1
    w2 = w2
    Workers = {w1, w2}
    MaxRetries = 1
    MaxDeliveries = 2
    MaxFaults = 1
    SourceChanges = TRUE
SPECIFICATION MCSpec
INVARIANTS
    StatusesAgree
    ArtifactsAgree
    OneWriter
    ReadyIsSearchable
PROPERTIES
    InactiveStopsWriters
    IngestionSettles
\* Once the ingestion has ended and every message is gone nothing is left to do.
CHECK_DEADLOCK FALSE
