-------------------------- MODULE WorkflowDefinition --------------------------
(***************************************************************************)
(* Process definitions, as package spec holds them: flow elements joined by *)
(* an ordered list of sequence flows.  The engine only reads definitions,   *)
(* so they are constants.  Element IDs are unique over all definitions.     *)
(*                                                                          *)
(* A sequence flow is its position in def.SequenceFlows, so that < is the   *)
(* order in which the engine visits flows.  Names, forms and assignees are  *)
(* abstracted away; a condition is known by its outcome for each value of   *)
(* the process variables.                                                   *)
(***************************************************************************)
EXTENDS Naturals, FiniteSets

CONSTANTS
    Definitions,      \* the deployed process definitions
    Elements,         \* the IDs of their flow elements
    Flows,            \* the sequence flows, numbered in definition order
    Signals,          \* the signal names
    Values,           \* the valuations of the process variables
    NoDefinition, NoElement, NoFlow, NoSignal, NoVariables

CONSTANTS
    ElementType,      \* element -> its type
    StartEventID,     \* definition -> its start event
    SourceRef,        \* flow -> element it leaves
    TargetRef,        \* flow -> element it enters
    Condition,        \* flow -> [Values -> outcome]; "none" if unconditional
    DefaultFlowID,    \* element -> default flow of an XOR or OR gateway
    SignalRef,        \* element -> signal of an event element
    AttachedToRef,    \* element -> activity a boundary event is attached to
    CancelActivity,   \* the interrupting boundary events
    CalledElement,    \* element -> definition a call activity calls
    InheritVariables, \* the call activities that copy the caller's variables
    CandidateTasks    \* user tasks whose candidates resolve to some user

TaskTypes    == {"userTask", "serviceTask"}
GatewayTypes == {"exclusiveGateway", "parallelGateway", "inclusiveGateway"}
EventTypes   == {"startEvent", "endEvent", "boundaryEvent",
                 "intermediateCatchEvent", "intermediateThrowEvent"}
ElementTypes == TaskTypes \cup GatewayTypes \cup EventTypes \cup {"callActivity"}

\* What evaluateCondition returns; "none" stands for no condition at all.
Outcomes == {"none", "true", "false", "error"}

(***************************************************************************)
(* What ProcessDefinition.Validate and the JSON decoder guarantee.          *)
(***************************************************************************)
ASSUME ElementsAssumption ==
    /\ ElementType \in [Elements -> ElementTypes]
    /\ DefaultFlowID \in [Elements -> Flows \cup {NoFlow}]
    /\ SignalRef \in [Elements -> Signals \cup {NoSignal}]
    /\ AttachedToRef \in [Elements -> Elements \cup {NoElement}]
    /\ CalledElement \in [Elements -> Definitions \cup {NoDefinition}]
    /\ CancelActivity \subseteq Elements
    /\ InheritVariables \subseteq Elements
    /\ CandidateTasks \subseteq {e \in Elements : ElementType[e] = "userTask"}

ASSUME FlowsAssumption ==
    /\ Flows \subseteq Nat
    /\ IsFiniteSet(Flows)
    /\ SourceRef \in [Flows -> Elements]
    /\ TargetRef \in [Flows -> Elements]
    /\ Condition \in [Flows -> [Values -> Outcomes]]

ASSUME DefinitionsAssumption ==
    /\ StartEventID \in [Definitions -> Elements]
    /\ \A d \in Definitions : ElementType[StartEventID[d]] = "startEvent"

ASSUME NullsAssumption ==
    /\ NoElement \notin Elements
    /\ NoDefinition \notin Definitions
    /\ NoFlow \notin Flows
    /\ NoSignal \notin Signals
    /\ NoVariables \in Values

-----------------------------------------------------------------------------
(* Topology helpers. *)

FindOutgoingFlows(e) == {f \in Flows : SourceRef[f] = e}

FindIncomingFlows(e) == {f \in Flows : TargetRef[f] = e}

HasCondition(f) == \E v \in Values : Condition[f][v] # "none"

\* f comes before every other flow of fs in the definition's order.
IsFirst(f, fs) == f \in fs /\ \A g \in fs : f <= g

\* The incoming flows an AND-join waits for: flows out of service tasks are
\* taken for loopbacks and not counted.
EffectiveFlows(g) ==
    {f \in FindIncomingFlows(g) : ElementType[SourceRef[f]] # "serviceTask"}

\* Mutants: the join waits for one flow too few, or one too many.
countEffectiveIncoming_Fewer(g) ==
    IF Cardinality(EffectiveFlows(g)) < 2 THEN 1 ELSE Cardinality(EffectiveFlows(g)) - 1
countEffectiveIncoming_More(g) ==
    IF EffectiveFlows(g) = {} THEN 1 ELSE Cardinality(FindIncomingFlows(g)) + 1

countEffectiveIncoming(g) ==
    IF EffectiveFlows(g) = {} THEN 1 ELSE Cardinality(EffectiveFlows(g))

\* The signal boundary events attached to an activity.
BoundarySignals(e) ==
    {b \in Elements : /\ ElementType[b] = "boundaryEvent"
                      /\ AttachedToRef[b] = e
                      /\ SignalRef[b] # NoSignal}
=============================================================================
