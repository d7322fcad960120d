SPECIFICATION Spec
CONSTANTS
    Terminals = {t1, t2}
    Limits = {1, 2}
    MaxRuntimes = 3
    MaxFaults = 1
SYMMETRY Symmetry
CHECK_DEADLOCK FALSE
INVARIANTS
    OutcomeMeansGone
    ShellsWithinLimit
    HandBackAndQuitKept
PROPERTIES
    QuitTriesEveryShell
