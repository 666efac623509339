SPECIFICATION Spec
CONSTANTS
    Claims = {a1, a2}
    Unclaims = {u1}
    Completions = {c1, c2}
    Shared = FALSE
    Locking = TRUE
    NoRequest = NoRequest
CHECK_DEADLOCK FALSE
INVARIANTS
    CompletedOnce
    LockSerializes
PROPERTY
    ImplementsTask
