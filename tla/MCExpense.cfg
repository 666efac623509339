SPECIFICATION Spec
CONSTANTS
    Definitions = {"expense", "broken"}
    Instances = {p1, p2}
    Roots = {p1, p2}
    Requests = {"start", "complete", "claim", "unclaim"}
    Transactional = TRUE
    MaxFaults = 1
    Values = {"unset", "approve", "reject", "rework", "large"}
    SubscriptionIDs = {1, 2}
    NoDefinition = NoDefinition
    NoElement = NoElement
    NoFlow = NoFlow
    NoSignal = NoSignal
    NoVariables = "unset"
    NoInstance = NoInstance
    NoSnapshot = NoSnapshot
    Elements <- MCElements
    Flows <- MCFlows
    Signals <- MCSignals
    ElementType <- MCElementType
    StartEventID <- MCStartEventID
    SourceRef <- MCSourceRef
    TargetRef <- MCTargetRef
    Condition <- MCCondition
    DefaultFlowID <- MCDefaultFlowID
    SignalRef <- MCSignalRef
    AttachedToRef <- MCAttachedToRef
    CancelActivity <- MCCancelActivity
    CalledElement <- MCCalledElement
    InheritVariables <- MCInheritVariables
    CandidateTasks <- MCCandidateTasks
CHECK_DEADLOCK FALSE
INVARIANTS
    NoTokenStranded
