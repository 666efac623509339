SPECIFICATION AttendedSpec
CONSTANTS
    Definitions = {"order", "shipping"}
    Instances = {p1, p2, p3, p4}
    Roots = {p1, p2}
    Requests = {"start", "complete"}
    Transactional = TRUE
    MaxFaults = 2
    Values = {"unset"}
    SubscriptionIDs = {1, 2}
    NoDefinition = NoDefinition
    NoElement = NoElement
    NoFlow = NoFlow
    NoSignal = NoSignal
    NoVariables = "unset"
    NoInstance = NoInstance
    NoSnapshot = NoSnapshot
    Elements <- MCElements
    Flows <- MCFlows
    Signals <- MCSignals
    ElementType <- MCElementType
    StartEventID <- MCStartEventID
    SourceRef <- MCSourceRef
    TargetRef <- MCTargetRef
    Condition <- MCCondition
    DefaultFlowID <- MCDefaultFlowID
    SignalRef <- MCSignalRef
    AttachedToRef <- MCAttachedToRef
    CancelActivity <- MCCancelActivity
    CalledElement <- MCCalledElement
    InheritVariables <- MCInheritVariables
    CandidateTasks <- MCCandidateTasks
CHECK_DEADLOCK FALSE
INVARIANTS
    TypeOK
    TasksHoldTokens
    RunningHasToken
    JoinCountsTokens
    JoinNeverFull
    CallersAwaitChildren
PROPERTIES
    JoinWaitsForAll
    InstancesEnd
