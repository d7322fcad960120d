CONSTANTS
    o1 = o1
    o2 = o2
    Owners = {o1, o2}
    Limit = 2
    MaxBoot = 2
    MaxEditors = 1
SPECIFICATION Spec
SYMMETRY OwnerSymmetry
INVARIANTS
    LiveTreesCounted
    RecordsUsable
PROPERTIES
    ImplementsPool
