SPECIFICATION Spec
CONSTANTS
    Calls = {c1, c2, c3}
    Cancellable = FALSE
    UsesTTL = TRUE
CHECK_DEADLOCK FALSE
INVARIANT MutualExclusion
