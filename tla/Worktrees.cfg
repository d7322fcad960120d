SPECIFICATION MCSpec
CONSTANTS
  Configs = {c1}
  NStep = 2
  MaxAttempts = 2
  MaxClaims = 3
  MaxEdits = 1
  MaxFaults = 1
  MaxCrashes = 1
  MaxRuns = 1
  MaxIds = 3
  MaxRestores = 2
  MaxWrites = 1
  Retained = 1
CHECK_DEADLOCK FALSE
INVARIANTS
    WritersApart
    SafetyKept
    NoStrandedRun
    StepsInOrder
PROPERTIES
    LostProcessesHold
    RemovalAfterTeardown
