SPECIFICATION Spec
CONSTANTS
    Calls = {c1, c2, c3}
    Cancellable = TRUE
    UsesTTL = FALSE
CHECK_DEADLOCK FALSE
INVARIANTS
    MutualExclusion
PROPERTY
    ImplementsLocker
