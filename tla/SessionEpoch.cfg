\* Three runs, one edit and one death of the runtime.
SPECIFICATION Spec
CONSTANTS
    codex = codex
    claude = claude
    s1 = s1
    s2 = s2
    t1 = t1
    NoSession = NoSession
    Providers <- MCProviders
    Sessions <- MCSessions
    Maker <- MCMaker
    MaxRuns = 3
    MaxEdits = 1
    MaxCrashes = 1
SYMMETRY SessionSymmetry
CHECK_DEADLOCK FALSE
INVARIANTS
    SendsResumeThread
PROPERTIES
    ImplementsChat
