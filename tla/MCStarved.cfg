SPECIFICATION Spec
CONSTANTS
    Instances <- PairInstances
    Elements <- PairElements
    NoElement = NoElement
    ElementType <- PairTypes
    SequenceFlows <- PairFlows
    StartEventID <- PairStart
    Broken = {"task2"}
    JumpTargets = {}
    Usages <- Timeouts
    Workers = {u1, u2}
    MaxRequests = 2
    MaxFaults = 0
    MaxRejection = 1
    MaxSigners = 2
    MaxActivities = 12
CHECK_DEADLOCK FALSE
PROPERTY
    OverdueHandled
