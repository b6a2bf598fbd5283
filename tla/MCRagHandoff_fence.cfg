CONSTANTS
    Versions = {1, 2}
    Runs = {r1}
    BatchSize = 1
    MaxAttempts = 2
    Broken = {}
    Fenceable = {1}
    MaxFaults = 0
SPECIFICATION Spec
PROPERTIES
    InactiveConverges
\* Once every hand-over has ended the idle run leaves nothing to change.
CHECK_DEADLOCK FALSE
