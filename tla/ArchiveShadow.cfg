SPECIFICATION Spec
CONSTANTS
    MaxCommits = 5
    MaxAttempts = 3
    MaxCrashes = 4
    MaxFaults = 2
CHECK_DEADLOCK FALSE
INVARIANTS
    NothingLost
    EndsWholeOrStops
