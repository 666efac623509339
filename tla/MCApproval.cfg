SPECIFICATION Spec
CONSTANTS
    Instances = {i1}
    Elements <- ApprovalElements
    NoElement = NoElement
    ElementType <- ApprovalTypes
    SequenceFlows <- ApprovalFlows
    StartEventID <- ApprovalStart
    Broken = {}
    JumpTargets <- ApprovalJumps
    Usages <- SafeUsages
    Workers = {u1, u2}
    MaxRequests = 2
    MaxFaults = 1
    MaxRejection = 1
    MaxSigners = 2
    MaxActivities = 12
CHECK_DEADLOCK FALSE
INVARIANTS
    OpenTasksHaveTokens
    NoTokenLeftBehind
    OnePlaceAtATime
PROPERTIES
    DelegateReturns
    OverdueHandled
    InstancesEnd
