SPECIFICATION FairSpec
CONSTANTS
    Definitions = {"alert"}
    Instances = {p1, p2}
    Roots = {p1, p2}
    Requests = {"start", "complete", "signal"}
    Transactional = TRUE
    MaxFaults = 2
    Values = {"unset"}
    SubscriptionIDs = {1, 2, 3, 4}
    NoDefinition = NoDefinition
    NoElement = NoElement
    NoFlow = NoFlow
    NoSignal = NoSignal
    NoVariables = "unset"
    NoInstance = NoInstance
    NoSnapshot = NoSnapshot
    Elements <- MCElements
    Flows <- MCFlows
    Signals <- MCSignals
    ElementType <- MCElementType
    StartEventID <- MCStartEventID
    SourceRef <- MCSourceRef
    TargetRef <- MCTargetRef
    Condition <- MCCondition
    DefaultFlowID <- MCDefaultFlowID
    SignalRef <- MCSignalRef
    AttachedToRef <- MCAttachedToRef
    CancelActivity <- MCCancelActivity
    CalledElement <- MCCalledElement
    InheritVariables <- MCInheritVariables
    CandidateTasks <- MCCandidateTasks
CHECK_DEADLOCK FALSE
INVARIANTS
    WaitersSubscribed
    BoundariesArmed
    RunningCanGoOn
PROPERTY
    RequestReturns
