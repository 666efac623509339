SPECIFICATION Spec
CONSTANTS
    Instances = {i1}
    Elements <- ApprovalElements
    NoElement = NoElement
    ElementType <- ApprovalTypes
    SequenceFlows <- ApprovalFlows
    StartEventID <- ApprovalStart
    Broken = {}
    JumpTargets <- ApprovalJumps
    Usages <- JumpWithSigns
    Workers = {u1, u2}
    MaxRequests = 3
    MaxFaults = 0
    MaxRejection = 1
    MaxSigners = 3
    MaxActivities = 12
CHECK_DEADLOCK FALSE
INVARIANT
    NoTokenLeftBehind
