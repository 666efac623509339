SPECIFICATION FairSpec
CONSTANTS
    Calls = {c1, c2}
    Cancellable = FALSE
    UsesTTL = TRUE
CHECK_DEADLOCK FALSE
INVARIANTS
    LockIsOwned
    UnlockIsSafe
PROPERTY
    LockAcquired
