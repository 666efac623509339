SPECIFICATION Spec
CONSTANTS
    Instances = {i1}
    Elements <- ApprovalElements
    NoElement = NoElement
    ElementType <- ApprovalTypes
    SequenceFlows <- ApprovalFlows
    StartEventID <- ApprovalStart
    Broken = {}
    JumpTargets <- ApprovalJumps
    Usages <- RejectWithSigns
    Workers = {u1, u2}
    MaxRequests = 2
    MaxFaults = 0
    MaxRejection = 1
    MaxSigners = 2
    MaxActivities = 12
CHECK_DEADLOCK FALSE
INVARIANT
    OnePlaceAtATime
