SPECIFICATION Spec
CONSTANTS
  Default = Default
  Added = {a}
  Dirs = {h1, h2}
  Runs = {r1}
  Requests = {q1}
  Old = Old
  Unrecorded = Unrecorded
  None = None
  Changed = Changed
  MaxMoves = 2
SYMMETRY DirSymmetry
CHECK_DEADLOCK FALSE
INVARIANTS
    EvidenceIsItsLogins
PROPERTIES
    ChecksStillHold
