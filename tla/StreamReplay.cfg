CONSTANTS
    MaxUnits = 3
    Window = 2
    MaxBuffer = 3
    MaxOpens = 1
    MaxNotices = 1
    MaxFaults = 1
SPECIFICATION Spec
CHECK_DEADLOCK FALSE
INVARIANTS
    ShownInOrder
    CompleteAtRest
PROPERTIES
    NeverShrinks
