CONSTANTS
  Platforms = {"linux", "darwin", "win32"}
  Kinds = {"utility", "terminal", "agent"}
  MaxFaults = 4
SPECIFICATION Spec
CHECK_DEADLOCK FALSE
INVARIANTS
    RunningIsRecorded
    StrangersSpared
    ReportsTrue
PROPERTIES
    KeepsPromise
