SPECIFICATION Spec
CONSTANTS
    Calls = {c1, c2}
    Cancellable = TRUE
    UsesTTL = FALSE
CHECK_DEADLOCK FALSE
INVARIANT LockIsOwned
