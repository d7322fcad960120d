SPECIFICATION Spec
CONSTANTS
    MaxRuntimes = 3
    MaxOutput = 3
    HighWater = 2
    RingLimit = 2
    Window = 1
    Grace = 1
CHECK_DEADLOCK FALSE
INVARIANTS
    HeldShellKept
PROPERTIES
    NothingLostSilently
