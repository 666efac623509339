----------------------------- MODULE EngineProofs -----------------------------
(***************************************************************************)
(* Theorems about Engine, for every set of definitions, instances and       *)
(* requests.  The store calls are taken first, one lemma per call; the      *)
(* navigator's actions then only have to cite them.                         *)
(***************************************************************************)
EXTENDS Engine, FiniteSetTheorems, TLAPS

USE DEF PerElement, LiveStates, EndedStates, InstanceStates

-----------------------------------------------------------------------------
(* The store calls take tables to tables. *)

\* An empty store is a store.
LEMMA EmptyDBType == EmptyDB \in DB
BY NullsAssumption DEF EmptyDB, DB, Zeros

\* Creating an instance: a new row, linked to its caller if it has one.
LEMMA CreateProcessInstanceType ==
    ASSUME NEW d \in DB, NEW p \in Instances, NEW def \in Definitions,
           NEW by \in Caller \cup {NoInstance},
           NEW vals \in Values, NEW counts \in PerElement
    PROVE  CreateProcessInstance(d, p, def, by, vals, counts) \in DB
BY DEF CreateProcessInstance, DB

\* Updates of an instance's row and variables.
LEMMA InstanceUpdateTypes ==
    ASSUME NEW d \in DB, NEW p \in Instances
    PROVE  /\ \A s \in InstanceStates : SetState(d, p, s) \in DB
           /\ \A v \in Values : SetVariables(d, p, v) \in DB
           /\ \A g \in Elements, n \in Nat : SetArrived(d, p, g, n) \in DB
BY DEF SetState, SetVariables, SetArrived, DB

\* Setting one number of a table of tokens or activities.
LEMMA CountTypes ==
    ASSUME NEW d \in DB, NEW p \in Instances, NEW e \in Elements, NEW n \in Nat
    PROVE  /\ SetTokens(d, p, e, n) \in DB
           /\ SetActive(d, p, e, n) \in DB
           /\ SetUnclaimed(d, p, e, n) \in DB
<1>1. SetTokens(d, p, e, n) \in DB
  BY DEF SetTokens, DB
<1>2. SetActive(d, p, e, n) \in DB
  BY DEF SetActive, DB
<1>3. SetUnclaimed(d, p, e, n) \in DB
  BY DEF SetUnclaimed, DB
<1> QED BY <1>1, <1>2, <1>3

\* What the tables hold before such an update.
LEMMA CountValues ==
    ASSUME NEW d \in DB, NEW p \in Instances, NEW e \in Elements
    PROVE  /\ d.tokens[p][e] \in Nat
           /\ d.active[p][e] \in Nat
           /\ d.unclaimed[p][e] \in Nat
           /\ d.arrived[p][e] \in Nat
BY DEF DB

\* One less, but never below zero.
LEMMA OneLessType == ASSUME NEW n \in Nat PROVE OneLess(n) \in Nat
BY DEF OneLess

\* Creating and consuming tokens.
LEMMA TokenTypes ==
    ASSUME NEW d \in DB, NEW p \in Instances, NEW e \in Elements
    PROVE  /\ CreateToken(d, p, e) \in DB
           /\ ConsumeOne(d, p, e) \in DB
           /\ ConsumeAt(d, p, e) \in DB
           /\ ConsumeAll(d, p) \in DB
<1>1. d.tokens[p][e] + 1 \in Nat /\ OneLess(d.tokens[p][e]) \in Nat
  <2>1. d.tokens[p][e] \in Nat
    BY CountValues
  <2> QED BY <2>1, OneLessType
<1>2. CreateToken(d, p, e) \in DB
  BY <1>1, CountTypes DEF CreateToken
<1>3. ConsumeOne(d, p, e) \in DB
  BY <1>1, CountTypes DEF ConsumeOne
<1>4. ConsumeAt(d, p, e) \in DB
  BY CountTypes DEF ConsumeAt
<1>5. ConsumeAll(d, p) \in DB
  BY DEF ConsumeAll, DB, Zeros
<1> QED BY <1>2, <1>3, <1>4, <1>5

\* Creating, completing, claiming and unclaiming activities.
LEMMA ActivityTypes ==
    ASSUME NEW d \in DB, NEW p \in Instances, NEW e \in Elements
    PROVE  /\ CreateActive(d, p, e) \in DB
           /\ CreateUnclaimed(d, p, e) \in DB
           /\ CompleteOne(d, p, e) \in DB
           /\ CompleteAt(d, p, e) \in DB
           /\ CompleteAll(d, p) \in DB
           /\ Claim(d, p, e) \in DB
           /\ Unclaim(d, p, e) \in DB
<1>1. ASSUME NEW f \in DB
      PROVE  CreateActive(f, p, e) \in DB /\ CreateUnclaimed(f, p, e) \in DB
  <2>1. f.active[p][e] + 1 \in Nat /\ f.unclaimed[p][e] + 1 \in Nat
    BY CountValues
  <2> QED BY <2>1, CountTypes DEF CreateActive, CreateUnclaimed
<1>2. CompleteOne(d, p, e) \in DB /\ CompleteAt(d, p, e) \in DB
  <2>1. OneLess(d.active[p][e]) \in Nat
    BY CountValues, OneLessType
  <2>2. CompleteOne(d, p, e) \in DB
    BY <2>1, CountTypes DEF CompleteOne
  <2>3. CompleteAt(d, p, e) \in DB
    BY CountTypes DEF CompleteAt
  <2> QED BY <2>2, <2>3
<1>3. CompleteAll(d, p) \in DB
  BY DEF CompleteAll, DB, Zeros
<1>4. SetUnclaimed(d, p, e, OneLess(d.unclaimed[p][e])) \in DB
  <2>1. OneLess(d.unclaimed[p][e]) \in Nat
    BY CountValues, OneLessType
  <2> QED BY <2>1, CountTypes
<1>5. Claim(d, p, e) \in DB /\ Unclaim(d, p, e) \in DB
  BY <1>1, <1>2, <1>4 DEF Claim, Unclaim
<1> QED BY <1>1, <1>2, <1>3, <1>5

\* Creating and deleting subscriptions.
LEMMA SubscriptionTypes ==
    ASSUME NEW d \in DB, NEW p \in Instances
    PROVE  /\ \A es \in SUBSET Elements, i \in SubscriptionIDs :
                  CreateSubscriptions(d, p, es, i) \in DB
           /\ \A x : DeleteSignalSubscription(d, x) \in DB
           /\ DeleteSubscriptionsByInstance(d, p) \in DB
           /\ \A s : ListSignalSubscriptions(d, s) \in SUBSET Subscription
<1>0. d.subscriptions \in SUBSET Subscription
  BY DEF DB
<1>1. ASSUME NEW es \in SUBSET Elements, NEW i \in SubscriptionIDs
      PROVE  CreateSubscriptions(d, p, es, i) \in DB
  <2>1. NewSubscriptions(p, es, i) \in SUBSET Subscription
    BY DEF NewSubscriptions, Subscription
  <2> QED BY <1>0, <2>1 DEF CreateSubscriptions, DB
<1>2. ASSUME NEW x PROVE DeleteSignalSubscription(d, x) \in DB
  BY <1>0 DEF DeleteSignalSubscription, DB
<1>3. DeleteSubscriptionsByInstance(d, p) \in DB
  BY <1>0 DEF DeleteSubscriptionsByInstance, DB
<1>4. ASSUME NEW s PROVE ListSignalSubscriptions(d, s) \in SUBSET Subscription
  BY <1>0 DEF ListSignalSubscriptions
<1> QED BY <1>1, <1>2, <1>3, <1>4

-----------------------------------------------------------------------------
(* The call stack. *)

\* Every call the navigator makes is a well-formed stack of frames.
LEMMA CallTypes ==
    ASSUME NEW p \in Instances
    PROVE  /\ \A e \in Elements : navigateFrom(p, e) \in Seq(Frame)
           /\ checkComplete(p) \in Seq(Frame)
           /\ \A fs \in SUBSET Flows : takeFlows(p, fs) \in Seq(Frame)
<1>1. ASSUME NEW e \in Elements PROVE navigateFrom(p, e) \in Seq(Frame)
  BY DEF navigateFrom, Call, Frame
<1>2. checkComplete(p) \in Seq(Frame)
  BY DEF checkComplete, Call, Frame
<1>3. ASSUME NEW fs \in SUBSET Flows PROVE takeFlows(p, fs) \in Seq(Frame)
  <2>1. Call("takeSequenceFlow", p, NoElement, fs, {}) \in Frame
    BY DEF Call, Frame
  <2> QED BY <2>1 DEF takeFlows
<1> QED BY <1>1, <1>2, <1>3

\* And so are the calls of a signal's delivery and of a transaction's end.
LEMMA SignalCallTypes ==
    /\ commit \in Seq(Frame)
    /\ \A x \in Subscription : triggerElement(x) \in Seq(Frame)
    /\ \A x \in Subscription : deleteSubscription(x) \in Seq(Frame)
    /\ \A xs \in SUBSET Subscription : fireSignals(xs) \in Seq(Frame)
<1>1. commit \in Seq(Frame)
  BY DEF commit, Call, Frame
<1>2. ASSUME NEW x \in Subscription PROVE triggerElement(x) \in Seq(Frame)
  <2>1. x.instance \in Instances /\ x.element \in Elements
    BY DEF Subscription
  <2> QED BY <2>1 DEF triggerElement, Call, Frame
<1>3. ASSUME NEW x \in Subscription PROVE deleteSubscription(x) \in Seq(Frame)
  <2>1. {x} \in SUBSET Subscription
    OBVIOUS
  <2> QED BY <2>1 DEF deleteSubscription, Call, Frame
<1>4. ASSUME NEW xs \in SUBSET Subscription PROVE fireSignals(xs) \in Seq(Frame)
  <2>1. Call("fireSignal", NoInstance, NoElement, {}, xs) \in Frame
    BY DEF Call, Frame
  <2> QED BY <2>1 DEF fireSignals
<1> QED BY <1>1, <1>2, <1>3, <1>4

\* What the running frame holds.
LEMMA TopType ==
    ASSUME TypeOK, stack # <<>>
    PROVE  /\ Top \in Frame
           /\ Rest \in Seq(Frame)
           /\ Top.flows \in SUBSET Flows
           /\ Top.subs \in SUBSET Subscription
           /\ Top.call \in {"navigateFrom", "triggerEventElement"} =>
                  Top.instance \in Instances /\ Top.element \in Elements
           /\ Top.call \in {"takeSequenceFlow", "checkComplete"} =>
                  Top.instance \in Instances
<1>1. Top \in Frame /\ Rest \in Seq(Frame)
  BY DEF TypeOK, Top, Rest
<1> QED BY <1>1 DEF Frame

\* A handler that does well keeps the types.
LEMMA DoType ==
    ASSUME TypeOK, stack # <<>>, NEW d \in DB, NEW calls \in Seq(Frame), Do(d, calls)
    PROVE  db' \in DB /\ stack' \in Seq(Frame) /\ saved' \in DB \cup {NoSnapshot}
BY TopType DEF Do, TypeOK

\* And so does one that fails.
LEMMA FailType ==
    ASSUME TypeOK, NEW d \in DB, Fail(d)
    PROVE  db' \in DB /\ stack' \in Seq(Frame) /\ saved' \in DB \cup {NoSnapshot}
BY DEF Fail, TypeOK
-----------------------------------------------------------------------------
(* Type correctness: one lemma per group of handlers. *)

TypesKept == db' \in DB /\ stack' \in Seq(Frame) /\ saved' \in DB \cup {NoSnapshot}

\* Calls made one after the other.
LEMMA CallsType ==
    ASSUME NEW s \in Seq(Frame), NEW t \in Seq(Frame) PROVE s \o t \in Seq(Frame)
OBVIOUS

\* navigateFrom at activities and events.
LEMMA OutgoingTypes ==
    ASSUME TypeOK, NavigateStopped \/ handleOutgoingFlows \/ handleEndEvent
    PROVE  TypesKept
<1>0. db \in DB
  BY DEF TypeOK
<1>1. /\ stack # <<>>
      /\ Top.instance \in Instances
      /\ Top.element \in Elements
  <2>1. Running("navigateFrom")
    BY DEF NavigateStopped, handleOutgoingFlows, handleEndEvent, At
  <2> QED BY <2>1, TopType DEF Running
<1>2. CASE NavigateStopped
  <2>1. Do(db, <<>>) /\ <<>> \in Seq(Frame)
    BY <1>2 DEF NavigateStopped
  <2> QED BY <2>1, <1>0, <1>1, DoType DEF TypesKept
<1>3. CASE handleOutgoingFlows
  <2>1. FindOutgoingFlows(Top.element) \in SUBSET Flows
    BY DEF FindOutgoingFlows
  <2>2. \/ Do(db, checkComplete(Top.instance))
        \/ Do(ConsumeOne(db, Top.instance, Top.element),
              takeFlows(Top.instance, FindOutgoingFlows(Top.element)))
    BY <1>3 DEF handleOutgoingFlows
  <2>3. ConsumeOne(db, Top.instance, Top.element) \in DB
    BY <1>0, <1>1, TokenTypes
  <2>4. /\ checkComplete(Top.instance) \in Seq(Frame)
        /\ takeFlows(Top.instance, FindOutgoingFlows(Top.element)) \in Seq(Frame)
    BY <1>1, <2>1, CallTypes
  <2> QED BY <2>2, <2>3, <2>4, <1>0, <1>1, DoType DEF TypesKept
<1>4. CASE handleEndEvent
  <2>1. Do(ConsumeAt(db, Top.instance, Top.element), checkComplete(Top.instance))
    BY <1>4 DEF handleEndEvent
  <2>2. ConsumeAt(db, Top.instance, Top.element) \in DB
    BY <1>0, <1>1, TokenTypes
  <2>3. checkComplete(Top.instance) \in Seq(Frame)
    BY <1>1, CallTypes
  <2> QED BY <2>1, <2>2, <2>3, <1>1, DoType DEF TypesKept
<1> QED BY <1>2, <1>3, <1>4

\* navigateFrom at gateways.
LEMMA GatewayTypesKept ==
    ASSUME TypeOK,
           handleExclusiveGateway \/ handleParallelGateway \/ handleInclusiveGateway
    PROVE  TypesKept
<1> DEFINE p == Top.instance
           g == Top.element
<1>0. db \in DB
  BY DEF TypeOK
<1>1. stack # <<>> /\ p \in Instances /\ g \in Elements
  <2>1. Running("navigateFrom")
    BY DEF handleExclusiveGateway, handleParallelGateway, handleInclusiveGateway, At
  <2> QED BY <2>1, TopType DEF Running
<1>2. ConsumeAt(db, p, g) \in DB
  BY <1>0, <1>1, TokenTypes
<1>3. FindOutgoingFlows(g) \in SUBSET Flows
  BY DEF FindOutgoingFlows
<1>4. ASSUME NEW d \in DB, NEW fs \in SUBSET Flows, Do(d, takeFlows(p, fs))
      PROVE  TypesKept
  <2>1. takeFlows(p, fs) \in Seq(Frame)
    BY <1>1, CallTypes
  <2> QED BY <2>1, <1>1, <1>4, DoType DEF TypesKept
<1>5. CASE handleExclusiveGateway
  <2>1. CASE Fail(db)
    BY <2>1, <1>0, FailType DEF TypesKept
  <2>2. ASSUME NEW f \in Flows, Do(ConsumeAt(db, p, g), takeFlows(p, {f}))
        PROVE  TypesKept
    BY <2>2, <1>2, <1>4
  <2>3. CASE Do(ConsumeAt(db, p, g), takeFlows(p, DefaultOf(g, FindOutgoingFlows(g))))
    <3>1. DefaultOf(g, FindOutgoingFlows(g)) \in SUBSET Flows
      BY <1>3 DEF DefaultOf
    <3> QED BY <3>1, <2>3, <1>2, <1>4
  <2>4. \/ Fail(db)
        \/ \E f \in Flows : Do(ConsumeAt(db, p, g), takeFlows(p, {f}))
        \/ Do(ConsumeAt(db, p, g), takeFlows(p, DefaultOf(g, FindOutgoingFlows(g))))
    BY <1>5, <1>3 DEF handleExclusiveGateway, Decisive
  <2> QED BY <2>1, <2>2, <2>3, <2>4
<1>6. CASE handleParallelGateway
  <2>1. db.arrived[p][g] + 1 \in Nat
    BY <1>0, <1>1, CountValues
  <2>2. /\ SetArrived(db, p, g, db.arrived[p][g] + 1) \in DB
        /\ SetArrived(ConsumeAt(db, p, g), p, g, 0) \in DB
    BY <2>1, <1>0, <1>1, <1>2, InstanceUpdateTypes
  <2>3. Split(p, g) \in Seq(Frame) /\ <<>> \in Seq(Frame)
    BY <1>1, <1>3, CallTypes DEF Split
  <2>4. \/ Do(SetArrived(db, p, g, db.arrived[p][g] + 1), <<>>)
        \/ Do(SetArrived(ConsumeAt(db, p, g), p, g, 0), Split(p, g))
        \/ Do(ConsumeAt(db, p, g), Split(p, g))
    BY <1>6 DEF handleParallelGateway
  <2> QED BY <2>2, <2>3, <2>4, <1>1, <1>2, DoType DEF TypesKept
<1>7. CASE handleInclusiveGateway
  <2>1. \/ Fail(ConsumeAt(db, p, g))
        \/ \E fs \in SUBSET Flows : Do(ConsumeAt(db, p, g), takeFlows(p, fs))
    BY <1>7, <1>3 DEF handleInclusiveGateway, DefaultOf
  <2> QED BY <2>1, <1>2, <1>4, FailType DEF TypesKept
<1> QED BY <1>5, <1>6, <1>7
\* The loop of takeSequenceFlow goes on with well-formed frames.
LEMMA TakingType ==
    ASSUME TypeOK, NEW f \in Flows, NEW types, Taking(f, types)
    PROVE  /\ stack # <<>>
           /\ Top.instance \in Instances
           /\ TargetRef[f] \in Elements
           /\ MoreFlows(f) \in Seq(Frame)
<1>1. stack # <<>> /\ Top.call = "takeSequenceFlow"
  BY DEF Taking, Running
<1>2. Top.instance \in Instances /\ Top.flows \in SUBSET Flows
  BY <1>1, TopType
<1>3. Top.flows \ {f} \in SUBSET Flows
  BY <1>2
<1>4. MoreFlows(f) \in Seq(Frame)
  BY <1>2, <1>3, CallTypes DEF MoreFlows
<1>5. TargetRef[f] \in Elements
  BY FlowsAssumption
<1> QED BY <1>1, <1>2, <1>4, <1>5

\* takeSequenceFlow into tasks, gateways and end events.
LEMMA TakeTypes ==
    ASSUME TypeOK, TakeToUserTask \/ TakeThrough \/ TakeToGateway \/ TakeFails
    PROVE  TypesKept
<1>0. db \in DB
  BY DEF TypeOK
<1>1. CASE TakeToUserTask
  <2>1. PICK f \in Flows, i \in SubscriptionIDs :
          LET p == Top.instance
              e == TargetRef[f]
              created == IF e \in CandidateTasks
                         THEN CreateUnclaimed(CreateToken(db, p, e), p, e)
                         ELSE CreateActive(CreateToken(db, p, e), p, e)
          IN  /\ Taking(f, {"userTask"})
              /\ Do(CreateSubscriptions(created, p, BoundarySignals(e), i), MoreFlows(f))
    BY <1>1 DEF TakeToUserTask, CreateTask
  <2> DEFINE p == Top.instance
             e == TargetRef[f]
             created == IF e \in CandidateTasks
                        THEN CreateUnclaimed(CreateToken(db, p, e), p, e)
                        ELSE CreateActive(CreateToken(db, p, e), p, e)
  <2>2. stack # <<>> /\ p \in Instances /\ e \in Elements /\ MoreFlows(f) \in Seq(Frame)
    BY <2>1, TakingType
  <2>3. CreateToken(db, p, e) \in DB
    BY <1>0, <2>2, TokenTypes
  <2>4. created \in DB
    BY <2>2, <2>3, ActivityTypes
  <2>5. BoundarySignals(e) \in SUBSET Elements
    BY DEF BoundarySignals
  <2>6. CreateSubscriptions(created, p, BoundarySignals(e), i) \in DB
    BY <2>2, <2>4, <2>5, SubscriptionTypes
  <2>7. Do(CreateSubscriptions(created, p, BoundarySignals(e), i), MoreFlows(f))
    BY <2>1
  <2> QED BY <2>2, <2>6, <2>7, DoType DEF TypesKept
<1>2. CASE TakeThrough
  <2>1. PICK f \in Flows :
          /\ Taking(f, {"serviceTask", "endEvent"})
          /\ Do(db, navigateFrom(Top.instance, TargetRef[f]) \o MoreFlows(f))
    BY <1>2 DEF TakeThrough
  <2>2. /\ stack # <<>> /\ Top.instance \in Instances
        /\ TargetRef[f] \in Elements /\ MoreFlows(f) \in Seq(Frame)
    BY <2>1, TakingType
  <2>3. navigateFrom(Top.instance, TargetRef[f]) \o MoreFlows(f) \in Seq(Frame)
    BY <2>2, CallTypes, CallsType
  <2> QED BY <1>0, <2>1, <2>2, <2>3, DoType DEF TypesKept
<1>3. CASE TakeToGateway
  <2>1. PICK f \in Flows :
          /\ Taking(f, GatewayTypes)
          /\ Do(CreateToken(db, Top.instance, TargetRef[f]),
                navigateFrom(Top.instance, TargetRef[f]) \o MoreFlows(f))
    BY <1>3 DEF TakeToGateway
  <2>2. /\ stack # <<>> /\ Top.instance \in Instances
        /\ TargetRef[f] \in Elements /\ MoreFlows(f) \in Seq(Frame)
    BY <2>1, TakingType
  <2>3. navigateFrom(Top.instance, TargetRef[f]) \o MoreFlows(f) \in Seq(Frame)
    BY <2>2, CallTypes, CallsType
  <2>4. CreateToken(db, Top.instance, TargetRef[f]) \in DB
    BY <1>0, <2>2, TokenTypes
  <2> QED BY <2>1, <2>2, <2>3, <2>4, DoType DEF TypesKept
<1>4. CASE TakeFails
  BY <1>0, <1>4, FailType DEF TakeFails, TypesKept
<1> QED BY <1>1, <1>2, <1>3, <1>4

\* takeSequenceFlow into intermediate events.
LEMMA EventTypesKept ==
    ASSUME TypeOK, handleIntermediateCatchEvent \/ handleIntermediateThrowEvent
    PROVE  TypesKept
<1>0. db \in DB
  BY DEF TypeOK
<1>1. CASE handleIntermediateCatchEvent
  <2>1. PICK f \in Flows, i \in SubscriptionIDs :
          LET p == Top.instance
              e == TargetRef[f]
              waited == IF SignalRef[e] = NoSignal THEN {} ELSE {e}
          IN  /\ Taking(f, {"intermediateCatchEvent"})
              /\ Do(CreateSubscriptions(CreateToken(db, p, e), p, waited, i), MoreFlows(f))
    BY <1>1 DEF handleIntermediateCatchEvent
  <2> DEFINE p == Top.instance
             e == TargetRef[f]
             waited == IF SignalRef[e] = NoSignal THEN {} ELSE {e}
  <2>2. stack # <<>> /\ p \in Instances /\ e \in Elements /\ MoreFlows(f) \in Seq(Frame)
    BY <2>1, TakingType
  <2>3. CreateToken(db, p, e) \in DB
    BY <1>0, <2>2, TokenTypes
  <2>4. waited \in SUBSET Elements
    BY <2>2
  <2>5. CreateSubscriptions(CreateToken(db, p, e), p, waited, i) \in DB
    BY <2>2, <2>3, <2>4, SubscriptionTypes
  <2>6. Do(CreateSubscriptions(CreateToken(db, p, e), p, waited, i), MoreFlows(f))
    BY <2>1
  <2> QED BY <2>2, <2>5, <2>6, DoType DEF TypesKept
<1>2. CASE handleIntermediateThrowEvent
  <2>1. PICK f \in Flows :
          LET p == Top.instance
              e == TargetRef[f]
              out == FindOutgoingFlows(e)
              subs == IF SignalRef[e] = NoSignal THEN {}
                      ELSE ListSignalSubscriptions(db, SignalRef[e])
              onward == IF out = {} THEN checkComplete(p) ELSE takeFlows(p, out)
          IN  /\ Taking(f, {"intermediateThrowEvent"})
              /\ Do(db, fireSignals(subs) \o onward \o MoreFlows(f))
    BY <1>2 DEF handleIntermediateThrowEvent
  <2> DEFINE p == Top.instance
             e == TargetRef[f]
             out == FindOutgoingFlows(e)
             subs == IF SignalRef[e] = NoSignal THEN {}
                     ELSE ListSignalSubscriptions(db, SignalRef[e])
             onward == IF out = {} THEN checkComplete(p) ELSE takeFlows(p, out)
  <2>2. stack # <<>> /\ p \in Instances /\ e \in Elements /\ MoreFlows(f) \in Seq(Frame)
    BY <2>1, TakingType
  <2>3. subs \in SUBSET Subscription
    BY <1>0, <2>2, SubscriptionTypes
  <2>4. fireSignals(subs) \in Seq(Frame)
    BY <2>3, SignalCallTypes
  <2>5. out \in SUBSET Flows
    BY DEF FindOutgoingFlows
  <2>6. onward \in Seq(Frame)
    BY <2>2, <2>5, CallTypes
  <2> HIDE DEF subs, onward
  <2>7. fireSignals(subs) \o onward \o MoreFlows(f) \in Seq(Frame)
    BY <2>2, <2>4, <2>6, CallsType
  <2>8. Do(db, fireSignals(subs) \o onward \o MoreFlows(f))
    BY <2>1 DEF subs, onward
  <2> QED BY <1>0, <2>2, <2>7, <2>8, DoType DEF TypesKept
<1> QED BY <1>1, <1>2

\* A call activity's child.
LEMMA ChildType ==
    ASSUME TypeOK, NEW p \in Instances, NEW e \in Elements, NEW c \in Instances,
           CalledElement[e] # NoDefinition
    PROVE  CreateChild(c, p, e) \in DB
<1> DEFINE def == CalledElement[e]
           by == [instance |-> p, element |-> e]
           vals == IF e \in InheritVariables THEN db.variables[p] ELSE NoVariables
           counts == IF e \in InheritVariables THEN db.arrived[p] ELSE Zeros
<1>1. def \in Definitions
  BY ElementsAssumption
<1>2. by \in Caller
  BY DEF Caller
<1>3. db \in DB /\ db.variables \in [Instances -> Values] /\ db.arrived \in [Instances -> PerElement]
  BY DEF TypeOK, DB
<1>4. vals \in Values /\ counts \in PerElement
  BY <1>3, NullsAssumption DEF Zeros
<1>5. CreateChild(c, p, e) = CreateProcessInstance(db, c, def, by, vals, counts)
  BY DEF CreateChild
<1> HIDE DEF def, by, vals, counts
<1> QED BY <1>1, <1>2, <1>3, <1>4, <1>5, CreateProcessInstanceType

\* takeSequenceFlow into a call activity.
LEMMA CallActivityTypes ==
    ASSUME TypeOK, handleCallActivity
    PROVE  TypesKept
<1>1. PICK f \in Flows, c \in Instances \ Roots :
        LET p == Top.instance
            e == TargetRef[f]
        IN  /\ Calling(f, c)
            /\ Do(CreateToken(CreateActive(CreateChild(c, p, e), p, e), p, e),
                  navigateFrom(c, StartEventID[CalledElement[e]]) \o MoreFlows(f))
  BY DEF handleCallActivity
<1> DEFINE p == Top.instance
           e == TargetRef[f]
<1>2. /\ stack # <<>> /\ p \in Instances /\ e \in Elements /\ MoreFlows(f) \in Seq(Frame)
      /\ CalledElement[e] # NoDefinition
  BY <1>1, TakingType DEF Calling
<1>3. CreateChild(c, p, e) \in DB
  BY <1>2, ChildType
<1>4. CreateToken(CreateActive(CreateChild(c, p, e), p, e), p, e) \in DB
  BY <1>2, <1>3, ActivityTypes, TokenTypes
<1>5. navigateFrom(c, StartEventID[CalledElement[e]]) \o MoreFlows(f) \in Seq(Frame)
  <2>1. StartEventID[CalledElement[e]] \in Elements
    BY <1>2, ElementsAssumption, DefinitionsAssumption
  <2>2. navigateFrom(c, StartEventID[CalledElement[e]]) \in Seq(Frame)
    BY <2>1, CallTypes
  <2> QED BY <2>2, <1>2, CallsType
<1> QED BY <1>1, <1>2, <1>4, <1>5, DoType DEF TypesKept

\* checkComplete, which may reach into the calling instance.
LEMMA CheckCompleteTypes ==
    ASSUME TypeOK, CheckComplete
    PROVE  TypesKept
<1> DEFINE p == Top.instance
           completed == SetState(db, p, "completed")
           by == db.caller[p]
           told == CompleteAt(ConsumeOne(completed, by.instance, by.element),
                              by.instance, by.element)
<1>1. stack # <<>> /\ p \in Instances
  <2>1. Running("checkComplete")
    BY DEF CheckComplete
  <2> QED BY <2>1, TopType DEF Running
<1>2. db \in DB /\ <<>> \in Seq(Frame)
  BY DEF TypeOK
<1>3. completed \in DB
  BY <1>1, <1>2, InstanceUpdateTypes
<1>4. CASE Do(db, <<>>) \/ Do(completed, <<>>)
  BY <1>1, <1>2, <1>3, <1>4, DoType DEF TypesKept
<1>5. CASE by # NoInstance /\ Do(told, navigateFrom(by.instance, by.element))
  <2>1. by \in Caller
    BY <1>1, <1>2, <1>5 DEF DB
  <2>2. by.instance \in Instances /\ by.element \in Elements
    BY <2>1 DEF Caller
  <2> HIDE DEF completed, by
  <2>3. ConsumeOne(completed, by.instance, by.element) \in DB
    BY <1>3, <2>2, TokenTypes
  <2>4. told \in DB
    BY <2>2, <2>3, ActivityTypes
  <2>5. navigateFrom(by.instance, by.element) \in Seq(Frame)
    BY <2>2, CallTypes
  <2> QED BY <1>1, <1>5, <2>4, <2>5, DoType DEF TypesKept
<1> QED BY <1>4, <1>5 DEF CheckComplete

\* Delivering a signal.
LEMMA SignalTypes ==
    ASSUME TypeOK, FireSignal \/ DeleteSubscription \/ triggerEventElement
    PROVE  TypesKept
<1>0. db \in DB /\ <<>> \in Seq(Frame)
  BY DEF TypeOK
<1>1. stack # <<>> /\ Top.subs \in SUBSET Subscription
  <2>1. stack # <<>>
    BY DEF FireSignal, DeleteSubscription, triggerEventElement, Running
  <2> QED BY <2>1, TopType
<1>2. CASE FireSignal
  <2>1. PICK x \in Top.subs :
          Do(db, triggerElement(x) \o deleteSubscription(x) \o fireSignals(Top.subs \ {x}))
    BY <1>2 DEF FireSignal
  <2>2. /\ triggerElement(x) \in Seq(Frame)
        /\ deleteSubscription(x) \in Seq(Frame)
        /\ fireSignals(Top.subs \ {x}) \in Seq(Frame)
    BY <1>1, SignalCallTypes
  <2>3. triggerElement(x) \o deleteSubscription(x) \o fireSignals(Top.subs \ {x}) \in Seq(Frame)
    BY <2>2, CallsType
  <2> QED BY <1>0, <1>1, <2>1, <2>3, DoType DEF TypesKept
<1>3. CASE DeleteSubscription
  <2>1. PICK x \in Top.subs : Do(DeleteSignalSubscription(db, x), <<>>)
    BY <1>3 DEF DeleteSubscription
  <2>2. DeleteSignalSubscription(db, x) \in DB
    <3>1. x.instance \in Instances
      BY <1>1, <2>1 DEF Subscription
    <3> QED BY <1>0, <3>1, SubscriptionTypes
  <2> QED BY <1>0, <1>1, <2>1, <2>2, DoType DEF TypesKept
<1>4. CASE triggerEventElement
  <2> DEFINE p == Top.instance
             e == Top.element
  <2>1. p \in Instances /\ e \in Elements
    <3>1. Top.call = "triggerEventElement"
      BY <1>4 DEF triggerEventElement, Running
    <3> QED BY <1>1, <3>1, TopType
  <2>2. Interrupt(p, e) \in DB
    <3>1. AttachedToRef[e] # NoElement => AttachedToRef[e] \in Elements
      BY <2>1, ElementsAssumption
    <3>2. AttachedToRef[e] # NoElement =>
            CompleteAt(ConsumeAt(db, p, AttachedToRef[e]), p, AttachedToRef[e]) \in DB
      BY <1>0, <2>1, <3>1, TokenTypes, ActivityTypes
    <3> QED BY <1>0, <3>2 DEF Interrupt, Interrupts
  <2>3. ConsumeAt(Interrupt(p, e), p, e) \in DB
    BY <2>1, <2>2, TokenTypes
  <2>4. navigateFrom(p, e) \in Seq(Frame)
    BY <2>1, CallTypes
  <2>5. \/ Do(ConsumeAt(Interrupt(p, e), p, e), navigateFrom(p, e))
        \/ Do(db, <<>>)
    BY <1>4 DEF triggerEventElement
  <2> QED BY <1>0, <1>1, <2>3, <2>4, <2>5, DoType DEF TypesKept
<1> QED BY <1>2, <1>3, <1>4

\* Every step of the navigator.
LEMMA NavigateTypes ==
    ASSUME TypeOK, Navigate
    PROVE  TypesKept
<1>1. CASE Commit
  <2>1. stack # <<>>
    BY <1>1 DEF Commit, Running
  <2> QED BY <1>1, <2>1, TopType DEF Commit, TypeOK, TypesKept
<1> QED BY <1>1, OutgoingTypes, GatewayTypesKept, TakeTypes, EventTypesKept,
           CallActivityTypes, CheckCompleteTypes, SignalTypes DEF Navigate

-----------------------------------------------------------------------------
(* The requests. *)

\* A request that opens a transaction.
LEMMA TransactionTypes ==
    ASSUME TypeOK, NEW d \in DB, NEW calls \in Seq(Frame), RunInTransaction(d, calls)
    PROVE  TypesKept
BY SignalCallTypes, CallsType DEF RunInTransaction, TypesKept, TypeOK

\* A request that only writes to the store.
LEMMA WriteTypes ==
    ASSUME TypeOK, NEW d \in DB, Write(d)
    PROVE  TypesKept
BY DEF Write, TypesKept, TypeOK

\* The two requests that navigate in a transaction.
LEMMA StartTypes ==
    ASSUME TypeOK, StartProcessInstance
    PROVE  TypesKept
<1>1. PICK def \in Definitions, vals \in Values, p \in Roots :
        RunInTransaction(CreateProcessInstance(db, p, def, NoInstance, vals, Zeros),
                         navigateFrom(p, StartEventID[def]))
  BY DEF StartProcessInstance
<1>2. p \in Instances /\ StartEventID[def] \in Elements /\ Zeros \in PerElement
  BY StoreAssumption, DefinitionsAssumption DEF Zeros
<1>3. CreateProcessInstance(db, p, def, NoInstance, vals, Zeros) \in DB
  BY <1>2, CreateProcessInstanceType DEF TypeOK
<1>4. navigateFrom(p, StartEventID[def]) \in Seq(Frame)
  BY <1>2, CallTypes
<1> QED BY <1>1, <1>3, <1>4, TransactionTypes

\* Completing a task.
LEMMA CompleteTaskTypes ==
    ASSUME TypeOK, NEW p \in Instances, NEW e \in Elements, CompleteTask(p, e)
    PROVE  TypesKept
<1>0. db \in DB
  BY DEF TypeOK
<1>1. PICK vals \in Values :
        RunInTransaction(
            DeleteSubscriptionsByInstance(
                ConsumeOne(SetVariables(CompleteOne(db, p, e), p, vals), p, e), p),
            navigateFrom(p, e))
  BY DEF CompleteTask, Completable
<1> DEFINE completed == SetVariables(CompleteOne(db, p, e), p, vals)
<1>2. completed \in DB
  BY <1>0, ActivityTypes, InstanceUpdateTypes
<1> HIDE DEF completed
<1>3. DeleteSubscriptionsByInstance(ConsumeOne(completed, p, e), p) \in DB
  BY <1>2, TokenTypes, SubscriptionTypes
<1>4. navigateFrom(p, e) \in Seq(Frame)
  BY CallTypes
<1>5. RunInTransaction(DeleteSubscriptionsByInstance(ConsumeOne(completed, p, e), p),
                       navigateFrom(p, e))
  BY <1>1 DEF completed
<1> QED BY <1>3, <1>4, <1>5, TransactionTypes

\* The requests that only write.
LEMMA WriteRequestTypes ==
    ASSUME TypeOK,
           \/ ClaimTask \/ UnclaimTask
           \/ SuspendProcessInstance \/ ResumeProcessInstance \/ TerminateProcessInstance
    PROVE  TypesKept
<1>0. db \in DB
  BY DEF TypeOK
<1>1. CASE ClaimTask
  <2>1. PICK p \in Instances, e \in Elements : Write(Claim(db, p, e))
    BY <1>1 DEF ClaimTask
  <2> QED BY <1>0, <2>1, ActivityTypes, WriteTypes
<1>2. CASE UnclaimTask
  <2>1. PICK p \in Instances, e \in Elements : Write(Unclaim(db, p, e))
    BY <1>2, ElementsAssumption DEF UnclaimTask
  <2> QED BY <1>0, <2>1, ActivityTypes, WriteTypes
<1>3. CASE SuspendProcessInstance \/ ResumeProcessInstance
  <2>1. PICK p \in Instances, s \in InstanceStates : Write(SetState(db, p, s))
    BY <1>3 DEF SuspendProcessInstance, ResumeProcessInstance
  <2> QED BY <1>0, <2>1, InstanceUpdateTypes, WriteTypes
<1>4. CASE TerminateProcessInstance
  <2>1. PICK p \in Instances :
          Write(SetState(CompleteAll(ConsumeAll(db, p), p), p, "terminated"))
    BY <1>4 DEF TerminateProcessInstance
  <2>2. ConsumeAll(db, p) \in DB
    BY <1>0 DEF ConsumeAll, DB, Zeros
  <2>3. CompleteAll(ConsumeAll(db, p), p) \in DB
    BY <2>2 DEF CompleteAll, DB, Zeros
  <2>4. SetState(CompleteAll(ConsumeAll(db, p), p), p, "terminated") \in DB
    BY <2>3, InstanceUpdateTypes
  <2> QED BY <2>1, <2>4, WriteTypes
<1> QED BY <1>1, <1>2, <1>3, <1>4

\* A signal from outside.
LEMMA ReceiveTypes ==
    ASSUME TypeOK, ReceiveSignal
    PROVE  TypesKept
<1>1. PICK s \in Signals : /\ stack' = fireSignals(ListSignalSubscriptions(db, s))
                           /\ UNCHANGED <<db, saved>>
  BY DEF ReceiveSignal
<1>2. ListSignalSubscriptions(db, s) \in SUBSET Subscription
  BY DEF ListSignalSubscriptions, DB, TypeOK
<1> QED BY <1>1, <1>2, SignalCallTypes DEF TypesKept, TypeOK

-----------------------------------------------------------------------------
(* Handlers and requests that are cut off. *)

\* A handler has turned the tables into d and fails; or a request does that has
\* not called any handler yet.
CutAt(d) == Fail(d) \/ (Quiescent /\ Write(d))

\* Loops that stop half-way leave tables behind.
LEMMA SomeTypes ==
    ASSUME NEW d \in DB, NEW p \in Instances, NEW e \in Elements
    PROVE  SomeConsumed(d, p, e) \subseteq DB /\ SomeCompleted(d, p, e) \subseteq DB
<1>1. d.tokens[p][e] \in Nat /\ d.active[p][e] \in Nat
  BY CountValues
<1>2. /\ \A n \in 0..d.tokens[p][e] : n \in Nat
      /\ \A n \in 0..d.active[p][e] : n \in Nat
  BY <1>1
<1> QED BY <1>2, CountTypes DEF SomeConsumed, SomeCompleted

\* navigateFrom.
LEMMA NavigateCutTypes ==
    ASSUME TypeOK, NavigateCut
    PROVE  \E d \in DB : CutAt(d)
<1> DEFINE p == Top.instance
           e == Top.element
<1>0. db \in DB
  BY DEF TypeOK
<1>1. p \in Instances /\ e \in Elements
  BY TopType DEF NavigateCut, At, Running
<1>2. Joined(p, e) \subseteq DB
  <2>1. db.arrived[p][e] + 1 \in Nat
    BY <1>0, <1>1, CountValues
  <2>2. SetArrived(db, p, e, db.arrived[p][e] + 1) \in DB
    BY <1>0, <1>1, <2>1, InstanceUpdateTypes
  <2> QED BY <1>0, <2>2 DEF Joined
<1>3. \E c \in {db} \cup Joined(p, e) : \E d \in SomeConsumed(c, p, e) : Fail(d)
  BY DEF NavigateCut
<1> QED BY <1>0, <1>1, <1>2, <1>3, SomeTypes DEF CutAt

\* takeSequenceFlow.
LEMMA TakeCutTypes ==
    ASSUME TypeOK, TakeCut \/ AttachCut \/ CallCut
    PROVE  \E d \in DB : CutAt(d)
<1>0. db \in DB
  BY DEF TypeOK
<1>1. CASE TakeCut
  <2>1. PICK f \in Flows :
          /\ Taking(f, {"userTask", "serviceTask", "intermediateCatchEvent"})
          /\ Fail(CreateToken(db, Top.instance, TargetRef[f]))
    BY <1>1 DEF TakeCut
  <2> QED BY <1>0, <2>1, TakingType, TokenTypes DEF CutAt
<1>2. CASE AttachCut
  <2>1. PICK f \in Flows, i \in SubscriptionIDs, es \in SUBSET Elements :
          /\ Taking(f, {"userTask"})
          /\ Fail(CreateSubscriptions(CreateTask(Top.instance, TargetRef[f]),
                                      Top.instance, es, i))
    BY <1>2 DEF AttachCut, BoundarySignals
  <2>2. Top.instance \in Instances /\ TargetRef[f] \in Elements
    BY <2>1, TakingType
  <2>3. CreateTask(Top.instance, TargetRef[f]) \in DB
    BY <1>0, <2>2, TokenTypes, ActivityTypes DEF CreateTask
  <2> QED BY <2>1, <2>2, <2>3, SubscriptionTypes DEF CutAt
<1>3. CASE CallCut
  <2>1. PICK f \in Flows, c \in Instances \ Roots :
          /\ Calling(f, c)
          /\ \/ Fail(CreateChild(c, Top.instance, TargetRef[f]))
             \/ Fail(CreateActive(CreateChild(c, Top.instance, TargetRef[f]),
                                  Top.instance, TargetRef[f]))
    BY <1>3 DEF CallCut
  <2>2. Top.instance \in Instances /\ TargetRef[f] \in Elements
    BY <2>1, TakingType DEF Calling
  <2>3. CreateChild(c, Top.instance, TargetRef[f]) \in DB
    BY <2>1, <2>2, ChildType DEF Calling
  <2> QED BY <2>1, <2>2, <2>3, ActivityTypes DEF CutAt
<1> QED BY <1>1, <1>2, <1>3

\* checkComplete and triggerEventElement.
LEMMA CompletionCutTypes ==
    ASSUME TypeOK, CompletionCut
    PROVE  \E d \in DB : CutAt(d)
<1> DEFINE p == Top.instance
           completed == SetState(db, p, "completed")
           by == db.caller[p]
<1>1. db \in DB /\ p \in Instances
  BY TopType DEF CompletionCut, Running, TypeOK
<1>2. completed \in DB
  BY <1>1, InstanceUpdateTypes
<1>3. by.instance \in Instances /\ by.element \in Elements
  BY <1>1 DEF CompletionCut, DB, Caller
<1>4. \/ Fail(completed)
      \/ \E d \in SomeCompleted(ConsumeOne(completed, by.instance, by.element),
                                by.instance, by.element) : Fail(d)
  BY DEF CompletionCut
<1> HIDE DEF completed, by
<1>5. ConsumeOne(completed, by.instance, by.element) \in DB
  BY <1>2, <1>3, TokenTypes
<1> QED BY <1>2, <1>3, <1>4, <1>5, SomeTypes DEF CutAt

\* An interruption.
LEMMA TriggerCutTypes ==
    ASSUME TypeOK, TriggerCut
    PROVE  \E d \in DB : CutAt(d)
<1> DEFINE p == Top.instance
           e == Top.element
           a == AttachedToRef[e]
<1>1. db \in DB /\ p \in Instances /\ e \in Elements
  BY TopType DEF TriggerCut, Running, TypeOK
<1>2. Interrupts(e) => a \in Elements
  BY <1>1, ElementsAssumption DEF Interrupts
<1>3. Interrupts(e) => ConsumeAt(db, p, a) \in DB
  BY <1>1, <1>2, TokenTypes
<1>4. Interrupt(p, e) \in DB
  BY <1>1, <1>2, <1>3, ActivityTypes DEF Interrupt
<1>5. \/ Interrupts(e) /\ \E d \in SomeConsumed(db, p, a) : Fail(d)
      \/ Interrupts(e) /\ \E d \in SomeCompleted(ConsumeAt(db, p, a), p, a) : Fail(d)
      \/ \E d \in SomeConsumed(Interrupt(p, e), p, e) : Fail(d)
  BY DEF TriggerCut
<1> HIDE DEF a
<1> QED BY <1>1, <1>2, <1>3, <1>4, <1>5, SomeTypes DEF CutAt

\* What is left of a row of counts is one.
LEMMA RemainingType ==
    ASSUME NEW counts \in PerElement
    PROVE  \A left \in Remaining(counts) :
               left \in PerElement /\ \A e \in Elements : left[e] <= counts[e]
<1> SUFFICES ASSUME NEW left \in Remaining(counts)
             PROVE  left \in PerElement /\ \A e \in Elements : left[e] <= counts[e]
  OBVIOUS
<1> DEFINE held == {e \in Elements : counts[e] > 0}
<1>1. PICK k \in [held -> UNION {0..counts[e] : e \in held}] :
        /\ \A e \in held : k[e] <= counts[e]
        /\ left = [e \in Elements |-> IF e \in held THEN k[e] ELSE 0]
  BY DEF Remaining
<1>2. ASSUME NEW e \in held PROVE k[e] \in Nat
  <2>1. PICK x \in held : k[e] \in 0..counts[x]
    OBVIOUS
  <2> QED BY <2>1
<1>3. ASSUME NEW e \in Elements PROVE left[e] \in Nat /\ left[e] <= counts[e]
  <2>1. counts[e] \in Nat
    OBVIOUS
  <2> QED BY <1>1, <1>2, <2>1
<1>4. left = [e \in Elements |-> left[e]]
  BY <1>1
<1> HIDE DEF held
<1> QED BY <1>3, <1>4

\* Requests that are cut off before the navigator runs.
LEMMA RequestCutTypes ==
    ASSUME TypeOK, CompleteTaskCut \/ TerminateCut
    PROVE  \E d \in DB : CutAt(d)
<1>0. db \in DB
  BY DEF TypeOK
<1>1. CASE CompleteTaskCut
  <2>1. PICK p \in Instances, e \in Elements, vals \in Values :
          LET merged == SetVariables(CompleteOne(db, p, e), p, vals)
          IN  Quiescent /\ \E d \in {CompleteOne(db, p, e), merged, ConsumeOne(merged, p, e)} :
                  Write(IF Transactional THEN db ELSE d)
    BY <1>1 DEF CompleteTaskCut, Receive
  <2>2. CompleteOne(db, p, e) \in DB
    BY <1>0, ActivityTypes
  <2>3. SetVariables(CompleteOne(db, p, e), p, vals) \in DB
    BY <2>2, InstanceUpdateTypes
  <2>4. ConsumeOne(SetVariables(CompleteOne(db, p, e), p, vals), p, e) \in DB
    BY <2>3, TokenTypes
  <2> QED BY <1>0, <2>1, <2>2, <2>3, <2>4 DEF CutAt
<1>2. CASE TerminateCut
  <2>1. Quiescent
    BY <1>2 DEF TerminateCut, Receive
  <2>2. PICK p \in Instances :
          \/ \E left \in Remaining(db.tokens[p]) : Write([db EXCEPT !.tokens[p] = left])
          \/ \E left \in Remaining(db.active[p]) :
                 Write([ConsumeAll(db, p) EXCEPT !.active[p] = left])
    BY <1>2 DEF TerminateCut
  <2>3. db.tokens[p] \in PerElement /\ db.active[p] \in PerElement
    BY <1>0 DEF DB
  <2>4. \A left \in PerElement : [db EXCEPT !.tokens[p] = left] \in DB
    BY <1>0 DEF DB
  <2>5. ConsumeAll(db, p) \in DB
    BY <1>0 DEF ConsumeAll, DB, Zeros
  <2>6. \A left \in PerElement : [ConsumeAll(db, p) EXCEPT !.active[p] = left] \in DB
    BY <2>5 DEF DB
  <2> QED BY <2>1, <2>2, <2>3, <2>4, <2>6, RemainingType DEF CutAt
<1> QED BY <1>1, <1>2

\* A request that fails has written tables.
LEMMA FailTypes ==
    ASSUME TypeOK, RequestFails
    PROVE  TypesKept
<1>1. \E d \in DB : CutAt(d)
  <2>1. CASE Fail(db)
    BY <2>1 DEF CutAt, TypeOK
  <2> QED BY <2>1, NavigateCutTypes, TakeCutTypes, CompletionCutTypes, TriggerCutTypes,
             RequestCutTypes DEF RequestFails, HandlerCut
<1> QED BY <1>1, FailType, WriteTypes DEF CutAt, TypesKept

\* The state variables keep their types whatever requests are made, in
\* whatever order, and wherever they fail, within a handler or between two.
THEOREM TypeCorrect == Spec => []TypeOK
<1>1. Init => TypeOK
  BY EmptyDBType DEF Init, TypeOK
<1>2. TypeOK /\ [Next]_allVars => TypeOK'
  <2> SUFFICES ASSUME TypeOK, [Next]_allVars PROVE TypeOK'
    OBVIOUS
  <2>1. CASE UNCHANGED allVars
    BY <2>1 DEF TypeOK, allVars
  <2>2. CASE Serve /\ UNCHANGED faults
    <3>1. TypesKept
      BY <2>2, StartTypes, CompleteTaskTypes, WriteRequestTypes, ReceiveTypes DEF Serve
    <3> QED BY <2>2, <3>1 DEF TypesKept, TypeOK
  <2>3. CASE Navigate /\ UNCHANGED faults
    BY <2>3, NavigateTypes DEF TypesKept, TypeOK
  <2>4. CASE RequestFails
    <3>1. TypesKept
      BY <2>4, FailTypes
    <3>2. faults' \in Nat
      BY <2>4 DEF RequestFails, TypeOK
    <3> QED BY <3>1, <3>2 DEF TypesKept, TypeOK
  <2> QED BY <2>1, <2>2, <2>3, <2>4 DEF Next
<1> QED BY <1>1, <1>2, PTL DEF Spec
-----------------------------------------------------------------------------
(***************************************************************************)
(* No join is ever full.  The counter of a join is a process variable, so   *)
(* the invariant has to hold of every table an instance's variables can come *)
(* from: the current ones, the snapshot of an open transaction (which a      *)
(* failure brings back) and the caller's, which a called instance copies.    *)
(***************************************************************************)
Bounded(d) ==
    \A p \in Instances, g \in Elements : d.arrived[p][g] < countEffectiveIncoming(g)

JoinInv ==
    /\ TypeOK
    /\ Bounded(db)
    /\ saved # NoSnapshot => Bounded(saved)

\* Every gateway waits for one token at least.
LEMMA CountIsPositive ==
    ASSUME NEW g \in Elements
    PROVE  countEffectiveIncoming(g) \in Nat /\ countEffectiveIncoming(g) > 0
<1>1. EffectiveFlows(g) \subseteq Flows /\ IsFiniteSet(EffectiveFlows(g))
  <2>1. EffectiveFlows(g) \subseteq Flows
    BY DEF EffectiveFlows, FindIncomingFlows
  <2> QED BY <2>1, FlowsAssumption, FS_Subset
<1>2. Cardinality(EffectiveFlows(g)) \in Nat
  BY <1>1, FS_CardinalityType
<1>3. EffectiveFlows(g) # {} => Cardinality(EffectiveFlows(g)) # 0
  BY <1>1, FS_EmptySet
<1> QED BY <1>2, <1>3 DEF countEffectiveIncoming

\* A store call that is not about the counters leaves them alone.
LEMMA CountersKept ==
    ASSUME NEW d \in DB, NEW p \in Instances, NEW e \in Elements
    PROVE  /\ \A s : SetState(d, p, s).arrived = d.arrived
           /\ \A v : SetVariables(d, p, v).arrived = d.arrived
           /\ \A n : SetTokens(d, p, e, n).arrived = d.arrived
           /\ \A n : SetActive(d, p, e, n).arrived = d.arrived
           /\ \A n : SetUnclaimed(d, p, e, n).arrived = d.arrived
           /\ ConsumeAll(d, p).arrived = d.arrived
           /\ CompleteAll(d, p).arrived = d.arrived
           /\ \A es, i : CreateSubscriptions(d, p, es, i).arrived = d.arrived
           /\ \A x : DeleteSignalSubscription(d, x).arrived = d.arrived
           /\ DeleteSubscriptionsByInstance(d, p).arrived = d.arrived
BY DEF DB, SetState, SetVariables, SetTokens, SetActive, SetUnclaimed, ConsumeAll,
       CompleteAll, CreateSubscriptions, DeleteSignalSubscription,
       DeleteSubscriptionsByInstance

\* Nor do the calls made of them.
LEMMA TokenCountersKept ==
    ASSUME NEW d \in DB, NEW p \in Instances, NEW e \in Elements
    PROVE  /\ CreateToken(d, p, e).arrived = d.arrived
           /\ ConsumeOne(d, p, e).arrived = d.arrived
           /\ ConsumeAt(d, p, e).arrived = d.arrived
           /\ CreateActive(d, p, e).arrived = d.arrived
           /\ CreateUnclaimed(d, p, e).arrived = d.arrived
           /\ CompleteOne(d, p, e).arrived = d.arrived
           /\ CompleteAt(d, p, e).arrived = d.arrived
BY CountersKept
   DEF CreateToken, ConsumeOne, ConsumeAt, CreateActive, CreateUnclaimed, CompleteOne, CompleteAt

\* Counters that were bounded and are left alone stay bounded.
LEMMA BoundedKept ==
    ASSUME NEW d, NEW f, Bounded(d), f.arrived = d.arrived
    PROVE  Bounded(f)
BY DEF Bounded

\* So do counters that these calls leave alone.
LEMMA CallsBounded ==
    ASSUME NEW d \in DB, Bounded(d), NEW p \in Instances, NEW e \in Elements
    PROVE  /\ Bounded(CreateToken(d, p, e))
           /\ Bounded(ConsumeOne(d, p, e))
           /\ Bounded(ConsumeAt(d, p, e))
           /\ Bounded(CreateActive(d, p, e))
           /\ Bounded(CreateUnclaimed(d, p, e))
           /\ Bounded(CompleteOne(d, p, e))
           /\ Bounded(CompleteAt(d, p, e))
BY TokenCountersKept DEF Bounded

\* Storing a count below the bound.
LEMMA SetArrivedBounded ==
    ASSUME NEW d \in DB, Bounded(d), NEW p \in Instances, NEW g \in Elements,
           NEW n \in Nat, n < countEffectiveIncoming(g)
    PROVE  Bounded(SetArrived(d, p, g, n))
BY DEF SetArrived, DB, Bounded

\* A new instance starts with counts below the bounds.
LEMMA CreateBounded ==
    ASSUME NEW d \in DB, Bounded(d), NEW p \in Instances, NEW def, NEW by, NEW vals,
           NEW counts \in PerElement,
           \A g \in Elements : counts[g] < countEffectiveIncoming(g)
    PROVE  Bounded(CreateProcessInstance(d, p, def, by, vals, counts))
BY DEF CreateProcessInstance, DB, Bounded
BoundsKept == Bounded(db') /\ (saved' # NoSnapshot => Bounded(saved'))

\* Handlers that succeed, fail, open a transaction or only write.
LEMMA StepBounded ==
    ASSUME JoinInv, NEW d \in DB, Bounded(d),
           \/ \E calls : Do(d, calls) \/ RunInTransaction(d, calls)
           \/ Fail(d)
           \/ Write(d)
    PROVE  BoundsKept
BY DEF JoinInv, Do, RunInTransaction, Fail, Write, BoundsKept

\* The one handler that counts.
LEMMA ParallelGatewayBounded ==
    ASSUME JoinInv, handleParallelGateway
    PROVE  BoundsKept
<1> DEFINE p == Top.instance
           g == Top.element
           arrived == db.arrived[p][g] + 1
<1>1. TypeOK /\ db \in DB /\ Bounded(db)
  BY DEF JoinInv, TypeOK
<1>2. p \in Instances /\ g \in Elements
  <2>1. Running("navigateFrom")
    BY DEF handleParallelGateway, At
  <2> QED BY <1>1, <2>1, TopType DEF Running
<1>3. arrived \in Nat
  BY <1>1, <1>2, CountValues
<1>4. ConsumeAt(db, p, g) \in DB /\ Bounded(ConsumeAt(db, p, g))
  BY <1>1, <1>2, TokenTypes, CallsBounded
<1>5. CASE arrived < countEffectiveIncoming(g) /\ Do(SetArrived(db, p, g, arrived), <<>>)
  <2>1. SetArrived(db, p, g, arrived) \in DB
    BY <1>1, <1>2, <1>3, InstanceUpdateTypes
  <2>2. Bounded(SetArrived(db, p, g, arrived))
    BY <1>1, <1>2, <1>3, <1>5, SetArrivedBounded
  <2> QED BY <1>5, <2>1, <2>2, StepBounded
<1>6. CASE Do(SetArrived(ConsumeAt(db, p, g), p, g, 0), Split(p, g))
  <2>1. SetArrived(ConsumeAt(db, p, g), p, g, 0) \in DB
    BY <1>2, <1>4, InstanceUpdateTypes
  <2>2. Bounded(SetArrived(ConsumeAt(db, p, g), p, g, 0))
    BY <1>2, <1>4, CountIsPositive, SetArrivedBounded
  <2> QED BY <1>6, <2>1, <2>2, StepBounded
<1>7. CASE Do(ConsumeAt(db, p, g), Split(p, g))
  BY <1>4, <1>7, StepBounded
<1> QED BY <1>5, <1>6, <1>7 DEF handleParallelGateway

\* navigateFrom everywhere else.
LEMMA NavigateFromBounded ==
    ASSUME JoinInv,
           \/ NavigateStopped \/ handleOutgoingFlows \/ handleEndEvent
           \/ handleExclusiveGateway \/ handleInclusiveGateway
    PROVE  BoundsKept
<1> DEFINE p == Top.instance
           e == Top.element
<1>1. TypeOK /\ db \in DB /\ Bounded(db)
  BY DEF JoinInv, TypeOK
<1>2. p \in Instances /\ e \in Elements
  <2>1. Running("navigateFrom")
    BY DEF NavigateStopped, handleOutgoingFlows, handleEndEvent,
           handleExclusiveGateway, handleInclusiveGateway, At
  <2> QED BY <1>1, <2>1, TopType DEF Running
<1>3. PICK d \in {db, ConsumeOne(db, p, e), ConsumeAt(db, p, e)} :
        Fail(d) \/ \E calls : Do(d, calls)
  BY DEF NavigateStopped, handleOutgoingFlows, handleEndEvent,
         handleExclusiveGateway, handleInclusiveGateway
<1>4. d \in DB /\ Bounded(d)
  BY <1>1, <1>2, TokenTypes, CallsBounded
<1> QED BY <1>3, <1>4, StepBounded

\* takeSequenceFlow, except into a call activity.
LEMMA TakeBounded ==
    ASSUME JoinInv,
           \/ TakeToUserTask \/ TakeThrough \/ TakeToGateway \/ TakeFails
           \/ handleIntermediateCatchEvent \/ handleIntermediateThrowEvent
    PROVE  BoundsKept
<1>1. TypeOK /\ db \in DB /\ Bounded(db)
  BY DEF JoinInv, TypeOK
<1>2. ASSUME NEW p \in Instances, NEW e \in Elements
      PROVE  CreateToken(db, p, e) \in DB /\ Bounded(CreateToken(db, p, e))
  BY <1>1, TokenTypes, CallsBounded
<1>3. ASSUME NEW d \in DB, Bounded(d), NEW p \in Instances,
             NEW es \in SUBSET Elements, NEW i \in SubscriptionIDs,
             NEW calls, Do(CreateSubscriptions(d, p, es, i), calls)
      PROVE  BoundsKept
  <2>1. CreateSubscriptions(d, p, es, i) \in DB
    BY <1>3, SubscriptionTypes
  <2>2. CreateSubscriptions(d, p, es, i).arrived = d.arrived
    BY DEF CreateSubscriptions, DB
  <2> QED BY <1>3, <2>1, <2>2, BoundedKept, StepBounded
<1>4. CASE TakeToUserTask
  <2> DEFINE created(p, e) ==
               IF e \in CandidateTasks
               THEN CreateUnclaimed(CreateToken(db, p, e), p, e)
               ELSE CreateActive(CreateToken(db, p, e), p, e)
  <2>1. PICK f \in Flows, i \in SubscriptionIDs :
          /\ Taking(f, {"userTask"})
          /\ Do(CreateSubscriptions(created(Top.instance, TargetRef[f]), Top.instance,
                                    BoundarySignals(TargetRef[f]), i),
                MoreFlows(f))
    BY <1>4 DEF TakeToUserTask, CreateTask
  <2>2. Top.instance \in Instances /\ TargetRef[f] \in Elements
    BY <1>1, <2>1, TakingType
  <2>3. /\ created(Top.instance, TargetRef[f]) \in DB
        /\ Bounded(created(Top.instance, TargetRef[f]))
    BY <1>2, <2>2, ActivityTypes, CallsBounded
  <2>4. BoundarySignals(TargetRef[f]) \in SUBSET Elements
    BY DEF BoundarySignals
  <2> HIDE DEF created
  <2> QED BY <1>3, <2>1, <2>2, <2>3, <2>4
<1>5. CASE handleIntermediateCatchEvent
  <2> DEFINE waited(e) == IF SignalRef[e] = NoSignal THEN {} ELSE {e}
  <2>1. PICK f \in Flows, i \in SubscriptionIDs :
          /\ Taking(f, {"intermediateCatchEvent"})
          /\ Do(CreateSubscriptions(CreateToken(db, Top.instance, TargetRef[f]),
                                    Top.instance, waited(TargetRef[f]), i),
                MoreFlows(f))
    BY <1>5 DEF handleIntermediateCatchEvent
  <2>2. Top.instance \in Instances /\ TargetRef[f] \in Elements
    BY <1>1, <2>1, TakingType
  <2>3. waited(TargetRef[f]) \in SUBSET Elements
    BY <2>2
  <2> HIDE DEF waited
  <2> QED BY <1>2, <1>3, <2>1, <2>2, <2>3
<1>6. CASE TakeToGateway
  <2>1. PICK f \in Flows :
          /\ Taking(f, GatewayTypes)
          /\ \E calls : Do(CreateToken(db, Top.instance, TargetRef[f]), calls)
    BY <1>6 DEF TakeToGateway
  <2>2. Top.instance \in Instances /\ TargetRef[f] \in Elements
    BY <1>1, <2>1, TakingType
  <2> QED BY <1>2, <2>1, <2>2, StepBounded
<1>7. CASE TakeThrough \/ handleIntermediateThrowEvent \/ TakeFails
  <2>1. Fail(db) \/ \E calls : Do(db, calls)
    BY <1>7 DEF TakeThrough, handleIntermediateThrowEvent, TakeFails
  <2> QED BY <1>1, <2>1, StepBounded
<1> QED BY <1>4, <1>5, <1>6, <1>7

\* A call activity: the child may start with the caller's counters.
LEMMA CallActivityBounded ==
    ASSUME JoinInv, handleCallActivity
    PROVE  BoundsKept
<1>1. TypeOK /\ db \in DB /\ Bounded(db)
  BY DEF JoinInv, TypeOK
<1> DEFINE by(f) == [instance |-> Top.instance, element |-> TargetRef[f]]
           vals(f) == IF TargetRef[f] \in InheritVariables
                      THEN db.variables[Top.instance] ELSE NoVariables
           counts(f) == IF TargetRef[f] \in InheritVariables
                        THEN db.arrived[Top.instance] ELSE Zeros
           child(f, c) == CreateProcessInstance(db, c, CalledElement[TargetRef[f]],
                                                by(f), vals(f), counts(f))
           waiting(f, c) ==
               CreateToken(CreateActive(child(f, c), Top.instance, TargetRef[f]),
                           Top.instance, TargetRef[f])
<1>2. PICK f \in Flows, c \in Instances \ Roots :
        /\ Taking(f, {"callActivity"})
        /\ CalledElement[TargetRef[f]] # NoDefinition
        /\ \E calls : Do(waiting(f, c), calls)
  BY DEF handleCallActivity, Calling, CreateChild
<1>3. Top.instance \in Instances /\ TargetRef[f] \in Elements
  BY <1>1, <1>2, TakingType
<1>4. by(f) \in Caller /\ CalledElement[TargetRef[f]] \in Definitions
  BY <1>2, <1>3, ElementsAssumption DEF Caller
<1>5. db.variables \in [Instances -> Values] /\ db.arrived \in [Instances -> PerElement]
  BY <1>1 DEF DB
<1>6. vals(f) \in Values /\ counts(f) \in PerElement
  BY <1>3, <1>5, NullsAssumption DEF Zeros
<1>7. \A g \in Elements : counts(f)[g] < countEffectiveIncoming(g)
  BY <1>1, <1>3, CountIsPositive DEF Bounded, Zeros
<1> HIDE DEF by, vals, counts
<1>8. child(f, c) \in DB /\ Bounded(child(f, c))
  BY <1>1, <1>4, <1>6, <1>7, CreateProcessInstanceType, CreateBounded
<1> HIDE DEF child
<1>9. /\ CreateActive(child(f, c), Top.instance, TargetRef[f]) \in DB
      /\ Bounded(CreateActive(child(f, c), Top.instance, TargetRef[f]))
  BY <1>3, <1>8, ActivityTypes, CallsBounded
<1>10. waiting(f, c) \in DB /\ Bounded(waiting(f, c))
  BY <1>3, <1>9, TokenTypes, CallsBounded
<1> HIDE DEF waiting
<1> QED BY <1>2, <1>10, StepBounded
\* Completion reaches into the caller, but not into its counters.
LEMMA CompletionBounded ==
    ASSUME JoinInv, CheckComplete
    PROVE  BoundsKept
<1> DEFINE p == Top.instance
           completed == SetState(db, p, "completed")
           by == db.caller[p]
           told == CompleteAt(ConsumeOne(completed, by.instance, by.element),
                              by.instance, by.element)
<1>1. TypeOK /\ db \in DB /\ Bounded(db)
  BY DEF JoinInv, TypeOK
<1>2. p \in Instances
  <2>1. Running("checkComplete")
    BY DEF CheckComplete
  <2> QED BY <1>1, <2>1, TopType DEF Running
<1>3. completed \in DB /\ Bounded(completed)
  <2>1. completed.arrived = db.arrived
    BY <1>1 DEF SetState, DB
  <2> QED BY <1>1, <1>2, <2>1, InstanceUpdateTypes, BoundedKept
<1>4. CASE Do(db, <<>>) \/ Do(completed, <<>>)
  BY <1>1, <1>3, <1>4, StepBounded
<1>5. CASE by # NoInstance /\ \E calls : Do(told, calls)
  <2>1. by.instance \in Instances /\ by.element \in Elements
    BY <1>1, <1>2, <1>5 DEF DB, Caller
  <2> HIDE DEF completed, by
  <2>2. /\ ConsumeOne(completed, by.instance, by.element) \in DB
        /\ Bounded(ConsumeOne(completed, by.instance, by.element))
    BY <1>3, <2>1, TokenTypes, CallsBounded
  <2>3. told \in DB /\ Bounded(told)
    BY <2>1, <2>2, ActivityTypes, CallsBounded
  <2> QED BY <1>5, <2>3, StepBounded
<1> QED BY <1>4, <1>5 DEF CheckComplete

\* Delivering a signal and committing.
LEMMA SignalBounded ==
    ASSUME JoinInv,
           FireSignal \/ DeleteSubscription \/ triggerEventElement \/ Commit
    PROVE  BoundsKept
<1>1. TypeOK /\ db \in DB /\ Bounded(db)
  BY DEF JoinInv, TypeOK
<1>2. CASE FireSignal
  BY <1>1, <1>2, StepBounded DEF FireSignal
<1>3. CASE DeleteSubscription
  <2>1. PICK x \in Top.subs : Do(DeleteSignalSubscription(db, x), <<>>)
    BY <1>3 DEF DeleteSubscription
  <2>2. stack # <<>>
    BY <1>3 DEF DeleteSubscription, Running
  <2>3. x.instance \in Instances
    BY <1>1, <2>1, <2>2, TopType DEF Subscription
  <2>4. DeleteSignalSubscription(db, x) \in DB
    BY <1>1, <2>3, SubscriptionTypes
  <2>5. Bounded(DeleteSignalSubscription(db, x))
    BY <1>1 DEF DeleteSignalSubscription, DB, Bounded
  <2> QED BY <2>1, <2>4, <2>5, StepBounded
<1>4. CASE triggerEventElement
  <2> DEFINE p == Top.instance
             e == Top.element
             a == AttachedToRef[e]
  <2>1. p \in Instances /\ e \in Elements
    BY <1>1, <1>4, TopType DEF triggerEventElement, Running
  <2>2. a # NoElement => a \in Elements
    BY <2>1, ElementsAssumption
  <2>3. a # NoElement => /\ ConsumeAt(db, p, a) \in DB
                         /\ Bounded(ConsumeAt(db, p, a))
    BY <1>1, <2>1, <2>2, TokenTypes, CallsBounded
  <2>4. a # NoElement => /\ CompleteAt(ConsumeAt(db, p, a), p, a) \in DB
                         /\ Bounded(CompleteAt(ConsumeAt(db, p, a), p, a))
    BY <2>1, <2>2, <2>3, ActivityTypes, CallsBounded
  <2>5. Interrupt(p, e) \in DB /\ Bounded(Interrupt(p, e))
    BY <1>1, <2>4 DEF Interrupt, Interrupts
  <2>6. /\ ConsumeAt(Interrupt(p, e), p, e) \in DB
        /\ Bounded(ConsumeAt(Interrupt(p, e), p, e))
    BY <2>1, <2>5, TokenTypes, CallsBounded
  <2>7. \E calls : Do(ConsumeAt(Interrupt(p, e), p, e), calls) \/ Do(db, calls)
    BY <1>4 DEF triggerEventElement
  <2> QED BY <1>1, <2>6, <2>7, StepBounded
<1>5. CASE Commit
  BY <1>1, <1>5 DEF Commit, BoundsKept
<1> QED BY <1>2, <1>3, <1>4, <1>5

\* The requests.
LEMMA ServeBounded ==
    ASSUME JoinInv, Serve
    PROVE  BoundsKept
<1>1. TypeOK /\ db \in DB /\ Bounded(db)
  BY DEF JoinInv, TypeOK
<1>2. CASE StartProcessInstance
  <2>1. PICK def \in Definitions, vals \in Values, p \in Roots :
          \E calls : RunInTransaction(
              CreateProcessInstance(db, p, def, NoInstance, vals, Zeros), calls)
    BY <1>2 DEF StartProcessInstance
  <2>2. p \in Instances /\ Zeros \in PerElement
    BY StoreAssumption DEF Zeros
  <2>3. \A g \in Elements : Zeros[g] < countEffectiveIncoming(g)
    BY CountIsPositive DEF Zeros
  <2>4. CreateProcessInstance(db, p, def, NoInstance, vals, Zeros) \in DB
    BY <1>1, <2>2, CreateProcessInstanceType
  <2>5. Bounded(CreateProcessInstance(db, p, def, NoInstance, vals, Zeros))
    BY <1>1, <2>2, <2>3, CreateBounded
  <2> QED BY <2>1, <2>4, <2>5, StepBounded
<1>3. ASSUME NEW p \in Instances, NEW e \in Elements, CompleteTask(p, e)
      PROVE  BoundsKept
  <2>1. PICK vals \in Values :
          \E calls : RunInTransaction(
              DeleteSubscriptionsByInstance(
                  ConsumeOne(SetVariables(CompleteOne(db, p, e), p, vals), p, e), p), calls)
    BY <1>3 DEF CompleteTask, Completable
  <2> DEFINE done == CompleteOne(db, p, e)
             completed == SetVariables(done, p, vals)
             consumed == ConsumeOne(completed, p, e)
  <2>2. done \in DB /\ Bounded(done)
    BY <1>1, ActivityTypes, CallsBounded
  <2> HIDE DEF done
  <2>3. completed \in DB /\ Bounded(completed)
    BY <2>2, InstanceUpdateTypes, CountersKept, BoundedKept
  <2> HIDE DEF completed
  <2>4. consumed \in DB /\ Bounded(consumed)
    BY <2>3, TokenTypes, CallsBounded
  <2> HIDE DEF consumed
  <2>5. DeleteSubscriptionsByInstance(consumed, p) \in DB
    BY <2>4, SubscriptionTypes
  <2>6. Bounded(DeleteSubscriptionsByInstance(consumed, p))
    BY <2>4, CountersKept, BoundedKept
  <2>7. \E calls : RunInTransaction(DeleteSubscriptionsByInstance(consumed, p), calls)
    BY <2>1 DEF consumed, completed, done
  <2> QED BY <2>5, <2>6, <2>7, StepBounded
<1>4. CASE ClaimTask
  <2>1. PICK p \in Instances, e \in Elements : Write(Claim(db, p, e))
    BY <1>4 DEF ClaimTask
  <2> DEFINE taken == SetUnclaimed(db, p, e, OneLess(db.unclaimed[p][e]))
  <2>2. OneLess(db.unclaimed[p][e]) \in Nat
    BY <1>1, CountValues, OneLessType
  <2>3. taken \in DB /\ Bounded(taken)
    BY <1>1, <2>2, CountTypes, CountersKept, BoundedKept
  <2> HIDE DEF taken
  <2>4. CreateActive(taken, p, e) \in DB /\ Bounded(CreateActive(taken, p, e))
    BY <2>3, ActivityTypes, CallsBounded
  <2>5. Write(CreateActive(taken, p, e))
    BY <2>1 DEF Claim, taken
  <2> QED BY <2>4, <2>5, StepBounded
<1>5. CASE UnclaimTask
  <2>1. PICK p \in Instances, e \in Elements : Write(Unclaim(db, p, e))
    BY <1>5, ElementsAssumption DEF UnclaimTask
  <2>2. CompleteOne(db, p, e) \in DB /\ Bounded(CompleteOne(db, p, e))
    BY <1>1, ActivityTypes, CallsBounded
  <2>3. Unclaim(db, p, e) \in DB /\ Bounded(Unclaim(db, p, e))
    BY <2>2, ActivityTypes, CallsBounded DEF Unclaim
  <2> QED BY <2>1, <2>3, StepBounded
<1>6. CASE SuspendProcessInstance \/ ResumeProcessInstance
  <2>1. PICK p \in Instances, s \in InstanceStates : Write(SetState(db, p, s))
    BY <1>6 DEF SuspendProcessInstance, ResumeProcessInstance
  <2>2. SetState(db, p, s).arrived = db.arrived
    BY <1>1 DEF SetState, DB
  <2> QED BY <1>1, <2>1, <2>2, InstanceUpdateTypes, BoundedKept, StepBounded
<1>7. CASE TerminateProcessInstance
  <2>1. PICK p \in Instances :
          Write(SetState(CompleteAll(ConsumeAll(db, p), p), p, "terminated"))
    BY <1>7 DEF TerminateProcessInstance
  <2> DEFINE consumed == ConsumeAll(db, p)
             closed == CompleteAll(consumed, p)
             terminated == SetState(closed, p, "terminated")
  <2>2. consumed \in DB /\ consumed.arrived = db.arrived
    BY <1>1 DEF ConsumeAll, DB, Zeros
  <2> HIDE DEF consumed
  <2>3. closed \in DB /\ closed.arrived = db.arrived
    BY <2>2 DEF CompleteAll, DB, Zeros
  <2> HIDE DEF closed
  <2>4. terminated \in DB /\ terminated.arrived = db.arrived
    BY <2>3, InstanceUpdateTypes DEF SetState, DB
  <2> HIDE DEF terminated
  <2>5. Write(terminated)
    BY <2>1 DEF terminated, closed, consumed
  <2> QED BY <1>1, <2>4, <2>5, BoundedKept, StepBounded
<1>8. CASE ReceiveSignal
  BY <1>8 DEF ReceiveSignal, JoinInv, BoundsKept
<1> QED BY <1>2, <1>3, <1>4, <1>5, <1>6, <1>7, <1>8 DEF Serve

\* A request that fails between two handlers, or whose failure is undone.
Undone == (stack # <<>> /\ Fail(db)) \/ UNCHANGED <<db, stack, saved>>

\* Every step keeps the bounds, but for an AND-join that is cut off for good.
LEMMA NextBounded ==
    ASSUME JoinInv, Next, RequestFails => Undone
    PROVE  BoundsKept
<1>1. CASE Serve
  BY <1>1, ServeBounded
<1>2. CASE Navigate
  BY <1>2, NavigateFromBounded, ParallelGatewayBounded, TakeBounded, CallActivityBounded,
     CompletionBounded, SignalBounded DEF Navigate
<1>3. CASE RequestFails
  BY <1>3, StepBounded DEF Undone, JoinInv, TypeOK, BoundsKept
<1> QED BY <1>1, <1>2, <1>3 DEF Next
=============================================================================
