SPECIFICATION Spec
CONSTANTS
    Workers = {u1, u2}
    NoWorker = NoWorker
    Counts = {0, 1, 2, 3}
    Setups <- SafeSetups
CHECK_DEADLOCK FALSE
INVARIANTS
    LoopPassesOnce
    OneAfterTheOther
    CountersAgree
    EndsWithNothingOpen
PROPERTIES
    LoopsPass
    ImplementsCountdown
