CONSTANTS
    MaxRuns = 1
    Worktrees = {w1}
    MaxActive = 1
    MaxPending = 1
    MaxQueued = 2
    MaxCrashes = 1
    MaxFaults = 2
SPECIFICATION FairSpec
PROPERTIES
    OwedOutcomesCommit
    ImplementsLedger
