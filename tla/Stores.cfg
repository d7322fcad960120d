SPECIFICATION Spec
CONSTANTS
  Targets = {"t"}
  Limit = 2
  PageSize = 3
  Pages = 1
  ScanPage = 2
  Batch = 1
  MaxPending = 1
  MaxRows = 6
  MaxRuns = 2
  MaxFaults = 1
  Ids = {a, b}
  a = a
  b = b
  SegmentLimit = 3
  TotalLimit = 8
  MaxUnits = 4
  MaxHistoryRuns = 2
  TablePage = 2
  MaxItems = 1
  Headroom = 2
  MaxTableRows = 4
  MaxWrites = 2
  Tasks = {1, 2}
  Threads = {1, 2}
  Window = 1
  CallLimit = 1
  SweepSize = 3
  Calls = {p, q}
  p = p
  q = q
  MaxClock = 3
  MaxEdits = 4
INVARIANTS
    TrailKept
    HistoryTrue
    UpgradeTrue
    RetentionTrue
PROPERTIES
    ScanSettles
    EndedIsWhole
    NeverListedEmpty
SYMMETRY NameSymmetry
CHECK_DEADLOCK FALSE
