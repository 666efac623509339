------------------------------ MODULE Navigator ------------------------------
(***************************************************************************)
(* engine/navigator.go with gateway.go, event.go and call_activity.go: how  *)
(* tokens move through a definition.                                        *)
(*                                                                          *)
(* The handlers call one another recursively.  Here the Go call stack is    *)
(* the variable stack, a sequence of frames with the running call at its    *)
(* head, and every handler is an action: it pops its frame, makes its store *)
(* calls and pushes the calls it makes, in the order it makes them.         *)
(*                                                                          *)
(* Assumed: user tasks without LoopCharacteristics.                         *)
(***************************************************************************)
EXTENDS Store, Sequences

CONSTANT NoSnapshot

VARIABLES
    db,      \* the tables
    stack,   \* the calls in progress, innermost first; <<>> between requests
    saved    \* the tables an open transaction rolls back to, or NoSnapshot

vars == <<db, stack, saved>>

\* A frame: the function called and its arguments, or what is left of its loop.
Frame ==
    [ call     : {"navigateFrom", "triggerEventElement"},
      instance : Instances, element : Elements, flows : {{}}, subs : {{}} ]
    \cup
    [ call     : {"takeSequenceFlow", "checkComplete"},
      instance : Instances, element : {NoElement}, flows : SUBSET Flows, subs : {{}} ]
    \cup
    [ call     : {"fireSignal", "deleteSubscription", "commit"},
      instance : {NoInstance}, element : {NoElement}, flows : {{}}, subs : SUBSET Subscription ]

Call(c, p, e, fs, xs) ==
    [call |-> c, instance |-> p, element |-> e, flows |-> fs, subs |-> xs]

navigateFrom(p, e)     == << Call("navigateFrom", p, e, {}, {}) >>
checkComplete(p)       == << Call("checkComplete", p, NoElement, {}, {}) >>
triggerElement(x)      == << Call("triggerEventElement", x.instance, x.element, {}, {}) >>
deleteSubscription(x)  == << Call("deleteSubscription", NoInstance, NoElement, {}, {x}) >>
commit                 == << Call("commit", NoInstance, NoElement, {}, {}) >>

\* The loops over outgoing flows and over subscriptions; empty ones are over.
takeFlows(p, fs) ==
    IF fs = {} THEN <<>> ELSE << Call("takeSequenceFlow", p, NoElement, fs, {}) >>
fireSignals(xs) ==
    IF xs = {} THEN <<>> ELSE << Call("fireSignal", NoInstance, NoElement, {}, xs) >>

Quiescent == stack = <<>>
Top       == Head(stack)
Rest      == Tail(stack)
Running(c) == stack # <<>> /\ Top.call = c

\* The running call turns the tables into d and makes the given calls.
Do(d, calls) ==
    /\ db' = d
    /\ stack' = calls \o Rest
    /\ UNCHANGED saved

\* Mutant: an error leaves what was written so far.
Fail_Partial(d) ==
    /\ db' = d
    /\ stack' = <<>>
    /\ saved' = NoSnapshot

\* The running call returns an error after turning the tables into d: every
\* caller returns it too, and an open transaction is rolled back.
Fail(d) ==
    /\ db' = IF saved = NoSnapshot THEN d ELSE saved
    /\ stack' = <<>>
    /\ saved' = NoSnapshot

-----------------------------------------------------------------------------
(* navigateFrom *)

At(types) ==
    /\ Running("navigateFrom")
    /\ db.state[Top.instance] = "running"
    /\ ElementType[Top.element] \in types

NavigateStopped ==
    /\ Running("navigateFrom")
    /\ db.state[Top.instance] # "running"
    /\ Do(db, <<>>)

\* handleOutgoingFlows consumes a token at the source and takes every flow.
handleOutgoingFlows ==
    LET p == Top.instance
        out == FindOutgoingFlows(Top.element)
    IN  /\ At({"startEvent", "userTask", "serviceTask", "callActivity", "boundaryEvent",
               "intermediateCatchEvent", "intermediateThrowEvent"})
        /\ IF out = {}
           THEN Do(db, checkComplete(p))
           ELSE Do(ConsumeOne(db, p, Top.element), takeFlows(p, out))

handleEndEvent ==
    /\ At({"endEvent"})
    /\ Do(ConsumeAt(db, Top.instance, Top.element), checkComplete(Top.instance))

-----------------------------------------------------------------------------
(* Gateways *)

Evaluate(p, f) == Condition[f][db.variables[p]]

\* The XOR scan stops at the first conditional flow that is true or fails.
Decisive(p, out) ==
    {f \in out : HasCondition(f) /\ Evaluate(p, f) \in {"true", "error"}}

DefaultOf(g, out) == out \cap {DefaultFlowID[g]}

handleExclusiveGateway ==
    LET p == Top.instance
        g == Top.element
        out == FindOutgoingFlows(g)
        decisive == Decisive(p, out)
    IN  /\ At({"exclusiveGateway"})
        /\ \/ \E f \in decisive :
                 /\ IsFirst(f, decisive)
                 /\ IF Evaluate(p, f) = "error"
                    THEN Fail(db)
                    ELSE Do(ConsumeAt(db, p, g), takeFlows(p, {f}))
           \/ /\ decisive = {}
              /\ IF DefaultOf(g, out) = {}
                 THEN Fail(db)
                 ELSE Do(ConsumeAt(db, p, g), takeFlows(p, DefaultOf(g, out)))

\* The AND-split behind a gateway that has been passed.
Split(p, g) ==
    IF FindOutgoingFlows(g) = {} THEN checkComplete(p)
    ELSE takeFlows(p, FindOutgoingFlows(g))

\* Mutant: the counter is not deleted when the join passes.
handleParallelGateway_Kept ==
    LET p == Top.instance
        g == Top.element
        arrived == db.arrived[p][g] + 1
    IN  /\ At({"parallelGateway"})
        /\ Do(SetArrived(IF arrived < countEffectiveIncoming(g) THEN db ELSE ConsumeAt(db, p, g),
                         p, g, IF countEffectiveIncoming(g) > 1 THEN arrived ELSE 0),
              IF arrived < countEffectiveIncoming(g) THEN <<>> ELSE Split(p, g))

handleParallelGateway ==
    LET p == Top.instance
        g == Top.element
        arrived == db.arrived[p][g] + 1
    IN  /\ At({"parallelGateway"})
        /\ \/ /\ countEffectiveIncoming(g) > 1
              /\ arrived < countEffectiveIncoming(g)
              /\ Do(SetArrived(db, p, g, arrived), <<>>)
           \/ /\ countEffectiveIncoming(g) > 1
              /\ arrived >= countEffectiveIncoming(g)
              /\ Do(SetArrived(ConsumeAt(db, p, g), p, g, 0), Split(p, g))
           \/ /\ countEffectiveIncoming(g) = 1
              /\ Do(ConsumeAt(db, p, g), Split(p, g))

\* A pure OR-split: the token goes before the conditions are evaluated.
handleInclusiveGateway ==
    LET p == Top.instance
        g == Top.element
        out == FindOutgoingFlows(g)
        matched == {f \in out : Evaluate(p, f) \in {"none", "true"}}
        activated == IF matched = {} THEN DefaultOf(g, out) ELSE matched
        failed == (\E f \in out : Evaluate(p, f) = "error") \/ activated = {}
        consumed == ConsumeAt(db, p, g)
    IN  /\ At({"inclusiveGateway"})
        /\ IF failed THEN Fail(consumed) ELSE Do(consumed, takeFlows(p, activated))

-----------------------------------------------------------------------------
(* takeSequenceFlow: the loop takes its flows in definition order. *)

\* f is the flow the loop takes next, into an element of one of the types.
Taking(f, types) ==
    /\ Running("takeSequenceFlow")
    /\ IsFirst(f, Top.flows)
    /\ ElementType[TargetRef[f]] \in types

MoreFlows(f) == takeFlows(Top.instance, Top.flows \ {f})

\* i numbers the subscriptions made now, unlike any other one still known.
KnownSubscriptions == db.subscriptions \cup UNION {stack[k].subs : k \in DOMAIN stack}
FreshID(p, es, i) ==
    LET Free == {j \in SubscriptionIDs : NewSubscriptions(p, es, j) \cap KnownSubscriptions = {}}
    IN  i \in Free /\ \A j \in Free : i <= j

CreateTask(p, e) ==
    IF e \in CandidateTasks THEN CreateUnclaimed(CreateToken(db, p, e), p, e)
    ELSE CreateActive(CreateToken(db, p, e), p, e)

\* A user task waits for CompleteTask, its boundary events for their signals.
TakeToUserTask ==
    \E f \in Flows, i \in SubscriptionIDs :
        LET p == Top.instance
            e == TargetRef[f]
        IN  /\ Taking(f, {"userTask"})
            /\ FreshID(p, BoundarySignals(e), i)
            /\ Do(CreateSubscriptions(CreateTask(p, e), p, BoundarySignals(e), i),
                  MoreFlows(f))

\* Service tasks and end events complete on arrival; their token, if they get
\* one at all, is consumed before navigation goes on.
TakeThrough ==
    \E f \in Flows :
        /\ Taking(f, {"serviceTask", "endEvent"})
        /\ Do(db, navigateFrom(Top.instance, TargetRef[f]) \o MoreFlows(f))

TakeToGateway ==
    \E f \in Flows :
        LET p == Top.instance
            g == TargetRef[f]
        IN  /\ Taking(f, GatewayTypes)
            /\ Do(CreateToken(db, p, g), navigateFrom(p, g) \o MoreFlows(f))

handleIntermediateCatchEvent ==
    \E f \in Flows, i \in SubscriptionIDs :
        LET p == Top.instance
            e == TargetRef[f]
            waited == IF SignalRef[e] = NoSignal THEN {} ELSE {e}
        IN  /\ Taking(f, {"intermediateCatchEvent"})
            /\ FreshID(p, waited, i)
            /\ Do(CreateSubscriptions(CreateToken(db, p, e), p, waited, i), MoreFlows(f))

\* Fires the signal first, then takes the outgoing flows; no token is made.
handleIntermediateThrowEvent ==
    \E f \in Flows :
        LET p == Top.instance
            e == TargetRef[f]
            out == FindOutgoingFlows(e)
            subs == IF SignalRef[e] = NoSignal THEN {}
                    ELSE ListSignalSubscriptions(db, SignalRef[e])
            onward == IF out = {} THEN checkComplete(p) ELSE takeFlows(p, out)
        IN  /\ Taking(f, {"intermediateThrowEvent"})
            /\ Do(db, fireSignals(subs) \o onward \o MoreFlows(f))

CreateChild(c, p, e) ==
    LET inherits == e \in InheritVariables
    IN  CreateProcessInstance(db, c, CalledElement[e], [instance |-> p, element |-> e],
            IF inherits THEN db.variables[p] ELSE NoVariables,
            IF inherits THEN db.arrived[p] ELSE Zeros)

\* f calls a known definition; c is the next free instance.
Calling(f, c) ==
    /\ Taking(f, {"callActivity"})
    /\ CalledElement[TargetRef[f]] # NoDefinition
    /\ db.state[c] = "none"
    /\ c = CHOOSE q \in Instances \ Roots : db.state[q] = "none"

\* The caller waits with a token and an activity; the child starts at once.
handleCallActivity ==
    \E f \in Flows, c \in Instances \ Roots :
        LET p == Top.instance
            e == TargetRef[f]
        IN  /\ Calling(f, c)
            /\ Do(CreateToken(CreateActive(CreateChild(c, p, e), p, e), p, e),
                  navigateFrom(c, StartEventID[CalledElement[e]]) \o MoreFlows(f))

\* Boundary and start events cannot be targets, an unknown definition cannot
\* be called.
TakeFails ==
    \E f \in Flows :
        /\ \/ Taking(f, {"boundaryEvent", "startEvent"})
           \/ Taking(f, {"callActivity"}) /\ CalledElement[TargetRef[f]] = NoDefinition
        /\ Fail(db)

-----------------------------------------------------------------------------
(* Completion *)

\* Mutant: the parent is not told.
CheckComplete_Orphaned ==
    /\ Running("checkComplete")
    /\ Do(IF NoActiveTokens(db, Top.instance)
          THEN SetState(db, Top.instance, "completed") ELSE db, <<>>)

\* Without an active token the instance completes, and with it the call
\* activity of its parent, if that still waits.
CheckComplete ==
    LET p == Top.instance
        completed == SetState(db, p, "completed")
        by == db.caller[p]
    IN  /\ Running("checkComplete")
        /\ \/ ~NoActiveTokens(db, p) /\ Do(db, <<>>)
           \/ /\ NoActiveTokens(db, p)
              /\ by = NoInstance
              /\ Do(completed, <<>>)
           \/ /\ NoActiveTokens(db, p)
              /\ by # NoInstance
              /\ IF db.tokens[by.instance][by.element] = 0
                 THEN Do(completed, <<>>)
                 ELSE Do(CompleteAt(ConsumeOne(completed, by.instance, by.element),
                                    by.instance, by.element),
                         navigateFrom(by.instance, by.element))

-----------------------------------------------------------------------------
(* Signals *)

\* Mutants: the loop never advances; the subscription goes first.
FireSignal_Stuck ==
    /\ Running("fireSignal")
    /\ \E x \in Top.subs :
           Do(db, triggerElement(x) \o deleteSubscription(x) \o fireSignals(Top.subs))
FireSignal_DeleteFirst ==
    /\ Running("fireSignal")
    /\ \E x \in Top.subs :
           Do(db, deleteSubscription(x) \o triggerElement(x) \o fireSignals(Top.subs \ {x}))

\* fireSignal triggers and then deletes each subscription it has listed.
FireSignal ==
    /\ Running("fireSignal")
    /\ \E x \in Top.subs :
           Do(db, triggerElement(x) \o deleteSubscription(x) \o fireSignals(Top.subs \ {x}))

DeleteSubscription ==
    /\ Running("deleteSubscription")
    /\ \E x \in Top.subs :
           Do(DeleteSignalSubscription(db, x), <<>>)

\* An interrupting boundary event first takes the tokens of its activity and
\* completes the active ones.
Interrupts(e) ==
    ElementType[e] = "boundaryEvent" /\ e \in CancelActivity /\ AttachedToRef[e] # NoElement

Interrupt(p, e) ==
    IF Interrupts(e)
    THEN CompleteAt(ConsumeAt(db, p, AttachedToRef[e]), p, AttachedToRef[e])
    ELSE db

triggerEventElement ==
    LET p == Top.instance
        e == Top.element
    IN  /\ Running("triggerEventElement")
        /\ IF db.state[p] = "running"
           THEN Do(ConsumeAt(Interrupt(p, e), p, e), navigateFrom(p, e))
           ELSE Do(db, <<>>)

-----------------------------------------------------------------------------
\* The function passed to RunInTransaction has returned without an error.
Commit ==
    /\ Running("commit")
    /\ stack' = Rest
    /\ saved' = NoSnapshot
    /\ UNCHANGED db

Navigate ==
    \/ NavigateStopped
    \/ handleOutgoingFlows
    \/ handleEndEvent
    \/ handleExclusiveGateway
    \/ handleParallelGateway
    \/ handleInclusiveGateway
    \/ TakeToUserTask
    \/ TakeThrough
    \/ TakeToGateway
    \/ handleIntermediateCatchEvent
    \/ handleIntermediateThrowEvent
    \/ handleCallActivity
    \/ TakeFails
    \/ CheckComplete
    \/ FireSignal
    \/ DeleteSubscription
    \/ triggerEventElement
    \/ Commit
-----------------------------------------------------------------------------
(***************************************************************************)
(* A handler that is cut off: a store call of it fails, or the process dies, *)
(* after some of its writes.  (Nothing else has been written between two     *)
(* handlers; see RequestFails.)                                              *)
(***************************************************************************)

\* The loops that update the tokens, or the active activities, of an element
\* one by one may stop after any of them.
SomeConsumed(d, p, e)  == {SetTokens(d, p, e, n) : n \in 0..d.tokens[p][e]}
SomeCompleted(d, p, e) == {SetActive(d, p, e, n) : n \in 0..d.active[p][e]}

\* The XOR gateway has chosen a flow.
Chosen(p, g) ==
    LET out == FindOutgoingFlows(g)
        decisive == Decisive(p, out)
    IN  IF decisive = {} THEN DefaultOf(g, out) # {}
        ELSE \E f \in decisive : IsFirst(f, decisive) /\ Evaluate(p, f) = "true"

\* A join that has all its tokens counts first, consumes then and deletes its
\* counter last.
Joined(p, g) ==
    LET arrived == db.arrived[p][g] + 1
    IN  IF countEffectiveIncoming(g) = 1 THEN {db}
        ELSE IF arrived < countEffectiveIncoming(g) THEN {}
        ELSE {SetArrived(db, p, g, arrived)}

NavigateCut ==
    LET p == Top.instance
        e == Top.element
    IN  \/ /\ At({"endEvent", "inclusiveGateway"})
           /\ \E d \in SomeConsumed(db, p, e) : Fail(d)
        \/ /\ At({"exclusiveGateway"})
           /\ Chosen(p, e)
           /\ \E d \in SomeConsumed(db, p, e) : Fail(d)
        \/ /\ At({"parallelGateway"})
           /\ \E counted \in Joined(p, e) : \E d \in SomeConsumed(counted, p, e) : Fail(d)

\* Where a token waits it is made first, and what it waits for after it.
\* Service tasks too have a token for a moment.
TakeCut ==
    \E f \in Flows :
        /\ Taking(f, {"userTask", "serviceTask", "intermediateCatchEvent"})
        /\ Fail(CreateToken(db, Top.instance, TargetRef[f]))

\* A user task's boundary events subscribe one by one.
AttachCut ==
    \E f \in Flows, i \in SubscriptionIDs :
        LET p == Top.instance
            e == TargetRef[f]
        IN  /\ Taking(f, {"userTask"})
            /\ FreshID(p, BoundarySignals(e), i)
            /\ \E es \in SUBSET BoundarySignals(e) :
                   Fail(CreateSubscriptions(CreateTask(p, e), p, es, i))

\* A call activity's token comes last.  The child it has created never runs;
\* which of its variables are set nobody reads.
CallCut ==
    \E f \in Flows, c \in Instances \ Roots :
        LET p == Top.instance
            e == TargetRef[f]
        IN  /\ Calling(f, c)
            /\ \/ Fail(CreateChild(c, p, e))
               \/ Fail(CreateActive(CreateChild(c, p, e), p, e))

\* The completed instance's row is written before its caller's token and
\* activities.
CompletionCut ==
    LET p == Top.instance
        completed == SetState(db, p, "completed")
        by == db.caller[p]
    IN  /\ Running("checkComplete")
        /\ NoActiveTokens(db, p)
        /\ by # NoInstance
        /\ db.tokens[by.instance][by.element] > 0
        /\ \/ Fail(completed)
           \/ \E d \in SomeCompleted(ConsumeOne(completed, by.instance, by.element),
                                     by.instance, by.element) : Fail(d)

\* An interruption takes the activity's tokens, then completes it; the event's
\* own tokens come last.
TriggerCut ==
    LET p == Top.instance
        e == Top.element
        at == AttachedToRef[e]
    IN  /\ Running("triggerEventElement")
        /\ db.state[p] = "running"
        /\ \/ /\ Interrupts(e)
              /\ \/ \E d \in SomeConsumed(db, p, at) : Fail(d)
                 \/ \E d \in SomeCompleted(ConsumeAt(db, p, at), p, at) : Fail(d)
           \/ \E d \in SomeConsumed(Interrupt(p, e), p, e) : Fail(d)

HandlerCut ==
    \/ NavigateCut
    \/ TakeCut
    \/ AttachCut
    \/ CallCut
    \/ CompletionCut
    \/ TriggerCut
=============================================================================
