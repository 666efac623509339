SPECIFICATION Spec
CONSTANTS
    Workers = {u1, u2}
    NoWorker = NoWorker
    Counts = {0, 1, 2, 3}
    Setups <- UnlockedSetups
CHECK_DEADLOCK FALSE
PROPERTY
    LoopsPass
