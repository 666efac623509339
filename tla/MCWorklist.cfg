SPECIFICATION Spec
CONSTANTS
    MaxAssigned = 3
    MaxCandidate = 2
    MaxOthers = 1
    PageSizes = {1, 2, 3}
    DefaultSize = 2
    Memory = FALSE
CHECK_DEADLOCK FALSE
INVARIANT
    WorklistIsExact
