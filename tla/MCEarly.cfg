SPECIFICATION Spec
CONSTANTS
    Definitions = {"early"}
    Instances = {p1}
    Roots = {p1}
    Requests = {"start", "complete"}
    Transactional = TRUE
    MaxFaults = 0
    Values = {"unset"}
    SubscriptionIDs = {1, 2}
    NoDefinition = NoDefinition
    NoElement = NoElement
    NoFlow = NoFlow
    NoSignal = NoSignal
    NoVariables = "unset"
    NoInstance = NoInstance
    NoSnapshot = NoSnapshot
    Elements <- MCElements
    Flows <- MCFlows
    Signals <- MCSignals
    ElementType <- MCElementType
    StartEventID <- MCStartEventID
    SourceRef <- MCSourceRef
    TargetRef <- MCTargetRef
    Condition <- MCCondition
    DefaultFlowID <- MCDefaultFlowID
    SignalRef <- MCSignalRef
    AttachedToRef <- MCAttachedToRef
    CancelActivity <- MCCancelActivity
    CalledElement <- MCCalledElement
    InheritVariables <- MCInheritVariables
    CandidateTasks <- MCCandidateTasks
CHECK_DEADLOCK FALSE
INVARIANT EndedIsDrained
