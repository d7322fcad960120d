CONSTANTS
    MaxRuns = 2
    Worktrees = {w1}
    MaxActive = 1
    MaxPending = 2
    MaxQueued = 2
    MaxCrashes = 1
    MaxFaults = 1
SPECIFICATION Spec
INVARIANTS
    LiveTreesApart
    NothingStranded
PROPERTIES
    StopPreventsLaunch
