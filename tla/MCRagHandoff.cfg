CONSTANTS
    Versions = {1, 2}
    Runs = {r1, r2}
    BatchSize = 1
    MaxAttempts = 2
    Broken = {1}
    Fenceable = {1}
    MaxFaults = 2
SPECIFICATION MCSpec
PROPERTIES
    HealthyHandoffs
    InactiveSettles
\* Once every hand-over has ended the idle runs leave nothing to change.
CHECK_DEADLOCK FALSE
