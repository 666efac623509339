--------------------------- MODULE EngineTokenProofs ---------------------------
(***************************************************************************)
(* What happens to tokens and instances in ANY set of definitions.  Part 1  *)
(* reduces the navigator's handlers to a dozen effects on the tables and    *)
(* the call stack; the invariants are then proved effect by effect:         *)
(*                                                                          *)
(*   StackInv   what a call on the stack may rely on; ended rows are final  *)
(*   OpenInv    where requests are undone as a whole, every call but the    *)
(*              last one runs inside an open transaction                    *)
(*   AgreeInv   join counters and tokens agree                              *)
(*   MovingInv  a running instance has a token or a call that will make one *)
(*   PassedInv  XOR and OR gateways hold no token but the arriving one      *)
(*   LeftInv    navigateFrom leaves tasks and call activities without token *)
(*   TaskInv    tokens and open tasks agree                                 *)
(*   CheckInv   checkComplete is called last, and for running instances     *)
(*   CallerInv  tokens at call activities and children not completed agree  *)
(*   WaitInv    whoever waits for a signal has a subscription that stays    *)
(*   DryInv     an instance that has ended has no token                     *)
(*   ShutInv    nothing is open in it, nor at elements nobody works on      *)
(***************************************************************************)
EXTENDS EngineProofs

USE DEF PerElement, LiveStates, EndedStates, InstanceStates

-----------------------------------------------------------------------------
(* The tables, field by field. *)

\* f differs from d at most in activities, variables and definitions.
SameRows(d, f)   == f.state = d.state /\ f.caller = d.caller
SameEvents(d, f) == f.subscriptions = d.subscriptions
SameCounts(d, f) == f.arrived = d.arrived
SameTokens(d, f) == f.tokens = d.tokens
Same(d, f) == SameRows(d, f) /\ SameEvents(d, f) /\ SameCounts(d, f) /\ SameTokens(d, f)

\* In f there are n tokens at e in p; everything else is as in d.
TokensAt(d, f, p, e, n) ==
    \A q \in Instances, x \in Elements :
        f.tokens[q][x] = IF q = p /\ x = e THEN n ELSE d.tokens[q][x]
Moved(d, f, p, e, n) ==
    SameRows(d, f) /\ SameEvents(d, f) /\ SameCounts(d, f) /\ TokensAt(d, f, p, e, n)

\* Setting one number of a table.
LEMMA PointUpdate ==
    ASSUME NEW t \in [Instances -> PerElement], NEW p \in Instances, NEW e \in Elements,
           NEW n \in Nat, NEW q \in Instances, NEW x \in Elements
    PROVE  [t EXCEPT ![p][e] = n][q][x] = IF q = p /\ x = e THEN n ELSE t[q][x]
<1>1. CASE q = p
  <2>1. [t EXCEPT ![p][e] = n][q] = [t[p] EXCEPT ![e] = n]
    BY <1>1
  <2>2. t[p] \in PerElement
    OBVIOUS
  <2>3. [t[p] EXCEPT ![e] = n][x] = IF x = e THEN n ELSE t[p][x]
    BY <2>2
  <2> QED BY <1>1, <2>1, <2>3
<1>2. CASE q # p
  BY <1>2
<1> QED BY <1>1, <1>2

\* The calls on activities leave everything else alone.
LEMMA ActivityFields ==
    ASSUME NEW d \in DB, NEW p \in Instances, NEW e \in Elements
    PROVE  /\ Same(d, CreateActive(d, p, e))
           /\ Same(d, CreateUnclaimed(d, p, e))
           /\ Same(d, CompleteOne(d, p, e))
           /\ Same(d, CompleteAt(d, p, e))
           /\ Same(d, CompleteAll(d, p))
           /\ \A n : Same(d, SetUnclaimed(d, p, e, n))
           /\ \A v : Same(d, SetVariables(d, p, v))
BY DEF Same, SameRows, SameEvents, SameCounts, SameTokens, DB, CreateActive, CreateUnclaimed,
       CompleteOne, CompleteAt, CompleteAll, SetActive, SetUnclaimed, SetVariables

\* The calls on tokens change one number.
LEMMA TokenFields ==
    ASSUME NEW d \in DB, NEW p \in Instances, NEW e \in Elements
    PROVE  /\ Moved(d, CreateToken(d, p, e), p, e, d.tokens[p][e] + 1)
           /\ Moved(d, ConsumeOne(d, p, e), p, e, OneLess(d.tokens[p][e]))
           /\ Moved(d, ConsumeAt(d, p, e), p, e, 0)
<1>1. ASSUME NEW n \in Nat PROVE Moved(d, SetTokens(d, p, e, n), p, e, n)
  <2>1. d.tokens \in [Instances -> PerElement]
    BY DEF DB
  <2>2. SetTokens(d, p, e, n).tokens = [d.tokens EXCEPT ![p][e] = n]
    BY DEF SetTokens, DB
  <2>3. TokensAt(d, SetTokens(d, p, e, n), p, e, n)
    BY <2>1, <2>2, PointUpdate DEF TokensAt
  <2>4. /\ SameRows(d, SetTokens(d, p, e, n))
        /\ SameEvents(d, SetTokens(d, p, e, n))
        /\ SameCounts(d, SetTokens(d, p, e, n))
    BY DEF SameRows, SameEvents, SameCounts, DB, SetTokens
  <2> QED BY <2>3, <2>4 DEF Moved
<1>2. d.tokens[p][e] + 1 \in Nat /\ OneLess(d.tokens[p][e]) \in Nat
  BY CountValues, OneLessType
<1> QED BY <1>1, <1>2 DEF CreateToken, ConsumeOne, ConsumeAt

\* The calls on subscriptions only touch subscriptions.
LEMMA SubscriptionFields ==
    ASSUME NEW d \in DB, NEW p \in Instances
    PROVE  /\ \A es, i : LET f == CreateSubscriptions(d, p, es, i)
                         IN  /\ SameRows(d, f) /\ SameCounts(d, f) /\ SameTokens(d, f)
                             /\ f.subscriptions = d.subscriptions \cup NewSubscriptions(p, es, i)
           /\ \A x : LET f == DeleteSignalSubscription(d, x)
                     IN  /\ SameRows(d, f) /\ SameCounts(d, f) /\ SameTokens(d, f)
                         /\ f.subscriptions = d.subscriptions \ {x}
           /\ LET f == DeleteSubscriptionsByInstance(d, p)
              IN  /\ SameRows(d, f) /\ SameCounts(d, f) /\ SameTokens(d, f)
                  /\ f.subscriptions = {x \in d.subscriptions : x.instance # p}
BY DEF DB, SameRows, SameCounts, SameTokens, CreateSubscriptions, DeleteSignalSubscription,
       DeleteSubscriptionsByInstance

\* In f instance p has state s; everything else is as in d.
StateAt(d, f, p, s) ==
    \A q \in Instances : f.state[q] = IF q = p THEN s ELSE d.state[q]

\* Changing the row of an instance, or a counter.
LEMMA RowFields ==
    ASSUME NEW d \in DB, NEW p \in Instances, NEW s
    PROVE  /\ StateAt(d, SetState(d, p, s), p, s)
           /\ SetState(d, p, s).caller = d.caller
           /\ SameEvents(d, SetState(d, p, s))
           /\ SameCounts(d, SetState(d, p, s))
           /\ SameTokens(d, SetState(d, p, s))
BY DEF DB, SetState, StateAt, SameEvents, SameCounts, SameTokens

CountAt(d, f, p, g, n) ==
    \A q \in Instances, x \in Elements :
        f.arrived[q][x] = IF q = p /\ x = g THEN n ELSE d.arrived[q][x]

\* Setting a join counter changes that counter only.
LEMMA CounterFields ==
    ASSUME NEW d \in DB, NEW p \in Instances, NEW g \in Elements, NEW n \in Nat
    PROVE  /\ SameRows(d, SetArrived(d, p, g, n))
           /\ SameEvents(d, SetArrived(d, p, g, n))
           /\ SameTokens(d, SetArrived(d, p, g, n))
           /\ CountAt(d, SetArrived(d, p, g, n), p, g, n)
<1>1. d.arrived \in [Instances -> PerElement]
  BY DEF DB
<1>2. SetArrived(d, p, g, n).arrived = [d.arrived EXCEPT ![p][g] = n]
  BY DEF SetArrived, DB
<1>3. CountAt(d, SetArrived(d, p, g, n), p, g, n)
  BY <1>1, <1>2, PointUpdate DEF CountAt
<1>4. /\ SameRows(d, SetArrived(d, p, g, n))
      /\ SameEvents(d, SetArrived(d, p, g, n))
      /\ SameTokens(d, SetArrived(d, p, g, n))
  BY DEF DB, SetArrived, SameRows, SameEvents, SameTokens
<1> QED BY <1>3, <1>4

\* A new instance: its row, its caller, its counters.
Created(d, f, p, by, counts) ==
    /\ StateAt(d, f, p, "running")
    /\ \A q \in Instances : f.caller[q] = IF q = p THEN by ELSE d.caller[q]
    /\ \A q \in Instances : f.arrived[q] = IF q = p THEN counts ELSE d.arrived[q]
    /\ SameEvents(d, f)

\* CreateProcessInstance makes such an instance.
LEMMA CreateFields ==
    ASSUME NEW d \in DB, NEW p \in Instances, NEW def, NEW by, NEW vals, NEW counts
    PROVE  LET f == CreateProcessInstance(d, p, def, by, vals, counts)
           IN  Created(d, f, p, by, counts) /\ SameTokens(d, f)
BY DEF DB, CreateProcessInstance, Created, StateAt, SameEvents, SameTokens

-----------------------------------------------------------------------------
(* The calls. *)

Onwards == {"takeSequenceFlow", "checkComplete"}

\* The calls m go on with instance p: flows to take, or completion to check.
GoesOn(m, p) ==
    /\ m \in Seq(Frame)
    /\ \A k \in 1..Len(m) : m[k].call \in Onwards /\ m[k].instance = p

\* takeFlows and checkComplete are such calls,
LEMMA GoingOn ==
    ASSUME NEW p \in Instances
    PROVE  /\ GoesOn(<<>>, p)
           /\ GoesOn(checkComplete(p), p) /\ checkComplete(p) # <<>>
           /\ \A fs \in SUBSET Flows :
                  GoesOn(takeFlows(p, fs), p) /\ (fs # {} => takeFlows(p, fs) # <<>>)
<1>1. GoesOn(<<>>, p)
  BY DEF GoesOn
<1>2. GoesOn(checkComplete(p), p) /\ checkComplete(p) # <<>>
  BY CallTypes DEF GoesOn, checkComplete, Call, Onwards
<1>3. ASSUME NEW fs \in SUBSET Flows
      PROVE  GoesOn(takeFlows(p, fs), p) /\ (fs # {} => takeFlows(p, fs) # <<>>)
  <2>1. takeFlows(p, fs) \in Seq(Frame)
    BY CallTypes
  <2> QED BY <2>1 DEF GoesOn, takeFlows, Call, Onwards
<1> QED BY <1>1, <1>2, <1>3

\* and so are two of them in turn.
LEMMA GoingOnTwice ==
    ASSUME NEW p, NEW m, NEW n, GoesOn(m, p), GoesOn(n, p)
    PROVE  GoesOn(m \o n, p) /\ (m # <<>> => m \o n # <<>>)
BY DEF GoesOn

-----------------------------------------------------------------------------
(* Effects of the handlers: d are the tables they leave, calls the calls they *)
(* make.                                                                      *)

IsJoin(g) == ElementType[g] = "parallelGateway" /\ countEffectiveIncoming(g) > 1

\* The event elements a subscription can be made for.
IsListener(e) ==
    \/ ElementType[e] = "intermediateCatchEvent"
    \/ /\ ElementType[e] = "boundaryEvent"
       /\ AttachedToRef[e] \in Elements
       /\ ElementType[AttachedToRef[e]] = "userTask"

\* The catch events that wait for a signal.
IsWaiter(e) == ElementType[e] = "intermediateCatchEvent" /\ SignalRef[e] # NoSignal

\* Subscription x wakes instance p at e, and no call will delete it.
Doomed(s, x) == \E k \in 1..Len(s) : s[k].call = "deleteSubscription" /\ x \in s[k].subs
Awaits(x, p, e) == x.instance = p /\ x.element = e /\ ~Doomed(stack, x)

\* No arrivals at joins are copied: a call activity that inherits variables is
\* reached when no join of the caller waits.
NothingInherited ==
    Running("takeSequenceFlow") =>
        \A f \in Top.flows :
            (IsFirst(f, Top.flows) /\ TargetRef[f] \in InheritVariables) =>
                db.arrived[Top.instance] = Zeros

\* Nothing to do: the instance is not running, or not yet done.
Stops(d, calls) ==
    /\ d = db
    /\ calls = <<>>
    /\ \/ /\ Running("navigateFrom") \/ Running("triggerEventElement")
          /\ db.state[Top.instance] # "running"
       \/ Running("checkComplete") /\ ~NoActiveTokens(db, Top.instance)

\* navigateFrom leaves the element; gateways are left without a token, joins
\* not before the last arrival.
Passes(d, calls) ==
    LET p == Top.instance
        e == Top.element
    IN  /\ Running("navigateFrom")
        /\ db.state[p] = "running"
        /\ SameRows(db, d) /\ SameEvents(db, d)
        /\ \E n \in Nat : /\ TokensAt(db, d, p, e, n)
                          /\ n <= db.tokens[p][e]
                          /\ ElementType[e] \in GatewayTypes => n = 0
        /\ CountAt(db, d, p, e, IF IsJoin(e) THEN 0 ELSE db.arrived[p][e])
        /\ IsJoin(e) => db.arrived[p][e] + 1 >= countEffectiveIncoming(e)
        /\ GoesOn(calls, p) /\ calls # <<>>

\* navigateFrom counts an arrival at a join.
Waits(d, calls) ==
    LET p == Top.instance
        e == Top.element
    IN  /\ Running("navigateFrom")
        /\ db.state[p] = "running"
        /\ IsJoin(e)
        /\ SameRows(db, d) /\ SameEvents(db, d) /\ SameTokens(db, d)
        /\ CountAt(db, d, p, e, db.arrived[p][e] + 1)
        /\ calls = <<>>

\* takeSequenceFlow puts a token where it waits,
Rests(d, calls) ==
    LET p == Top.instance
    IN  /\ Running("takeSequenceFlow")
        /\ SameRows(db, d) /\ SameCounts(db, d)
        /\ \E e \in Elements : /\ ElementType[e] \in {"userTask", "intermediateCatchEvent"}
                               /\ TokensAt(db, d, p, e, db.tokens[p][e] + 1)
                               /\ IsWaiter(e) => \E x \in d.subscriptions : Awaits(x, p, e)
        /\ \A x \in d.subscriptions : x \in db.subscriptions \/ IsListener(x.element)
        /\ db.subscriptions \subseteq d.subscriptions
        /\ GoesOn(calls, p)

\* passes a service task or an end event at once,
Runs(d, calls) ==
    LET p == Top.instance
    IN  /\ Running("takeSequenceFlow")
        /\ d = db
        /\ \E e \in Elements, m \in Seq(Frame) :
               /\ ElementType[e] \in {"serviceTask", "endEvent"}
               /\ GoesOn(m, p)
               /\ calls = navigateFrom(p, e) \o m

\* reaches a gateway with a token,
Reaches(d, calls) ==
    LET p == Top.instance
    IN  /\ Running("takeSequenceFlow")
        /\ \E g \in Elements, m \in Seq(Frame) :
               /\ ElementType[g] \in GatewayTypes
               /\ Moved(db, d, p, g, db.tokens[p][g] + 1)
               /\ GoesOn(m, p)
               /\ calls = navigateFrom(p, g) \o m

\* throws a signal,
Throws(d, calls) ==
    LET p == Top.instance
    IN  /\ Running("takeSequenceFlow")
        /\ d = db
        /\ \E xs \in SUBSET db.subscriptions, m \in Seq(Frame) :
               /\ GoesOn(m, p) /\ m # <<>>
               /\ calls = fireSignals(xs) \o m

\* or starts a child.
Spawns(d, calls) ==
    LET p == Top.instance
    IN  /\ Running("takeSequenceFlow")
        /\ \E e \in Elements, s \in Elements, c \in Instances, m \in Seq(Frame),
              counts \in PerElement :
               /\ ElementType[e] = "callActivity"
               /\ ElementType[s] = "startEvent"
               /\ db.state[c] = "none"
               /\ Created(db, d, c, [instance |-> p, element |-> e], counts)
               /\ NothingInherited => counts = Zeros
               /\ TokensAt(db, d, p, e, db.tokens[p][e] + 1)
               /\ GoesOn(m, p)
               /\ calls = navigateFrom(c, s) \o m

\* checkComplete completes the instance and tells a caller that waits.
Ends(d, calls) ==
    LET p == Top.instance
        by == db.caller[p]
    IN  /\ Running("checkComplete")
        /\ NoActiveTokens(db, p)
        /\ StateAt(db, d, p, "completed")
        /\ d.caller = db.caller
        /\ SameEvents(db, d) /\ SameCounts(db, d)
        /\ \/ /\ by = NoInstance \/ db.tokens[by.instance][by.element] = 0
              /\ SameTokens(db, d) /\ calls = <<>>
           \/ /\ by # NoInstance
              /\ TokensAt(db, d, by.instance, by.element, OneLess(db.tokens[by.instance][by.element]))
              /\ calls = navigateFrom(by.instance, by.element)

\* Signals: one more subscriber, its subscription, its tokens.
Fires(d, calls) ==
    /\ Running("fireSignal")
    /\ d = db
    /\ \E x \in Top.subs :
           calls = triggerElement(x) \o deleteSubscription(x) \o fireSignals(Top.subs \ {x})

Unsubscribes(d, calls) ==
    /\ Running("deleteSubscription")
    /\ SameRows(db, d) /\ SameCounts(db, d) /\ SameTokens(db, d)
    /\ d.subscriptions \subseteq db.subscriptions
    /\ db.subscriptions \subseteq d.subscriptions \cup Top.subs
    /\ calls = <<>>

Triggers(d, calls) ==
    LET p == Top.instance
        e == Top.element
    IN  /\ Running("triggerEventElement")
        /\ db.state[p] = "running"
        /\ SameRows(db, d) /\ SameEvents(db, d) /\ SameCounts(db, d)
        /\ d.tokens[p][e] = 0
        /\ \A q \in Instances, x \in Elements :
               \/ d.tokens[q][x] = db.tokens[q][x]
               \/ /\ d.tokens[q][x] = 0
                  /\ q = p
                  /\ x = e \/ (ElementType[e] = "boundaryEvent" /\ x = AttachedToRef[e])
        /\ calls = navigateFrom(p, e)

Effect(d, calls) ==
    \/ Stops(d, calls) \/ Passes(d, calls) \/ Waits(d, calls)
    \/ Rests(d, calls) \/ Runs(d, calls) \/ Reaches(d, calls)
    \/ Throws(d, calls) \/ Spawns(d, calls) \/ Ends(d, calls)
    \/ Fires(d, calls) \/ Unsubscribes(d, calls) \/ Triggers(d, calls)

\* A handler that fails has at most emptied an OR gateway.
Loses(d) ==
    /\ SameRows(db, d) /\ SameEvents(db, d) /\ SameCounts(db, d)
    /\ Running("navigateFrom") => ~IsJoin(Top.element)
    /\ \A q \in Instances, x \in Elements :
           \/ d.tokens[q][x] = db.tokens[q][x]
           \/ d.tokens[q][x] = 0 /\ ElementType[x] = "inclusiveGateway"

\* A step of the navigator other than Commit.
Handled ==
    \/ \E calls \in Seq(Frame) :
           stack' = calls \o Rest /\ saved' = saved /\ Effect(db', calls)
    \/ \E d \in DB : Fail(d) /\ Loses(d)

\* Do is such a step.
LEMMA HandledBy ==
    ASSUME NEW d, NEW calls \in Seq(Frame), Do(d, calls), Effect(d, calls)
    PROVE  Handled
BY DEF Do, Handled

-----------------------------------------------------------------------------
(* Every handler has one of the effects. *)

\* navigateFrom at activities and events.
LEMMA OutgoingEffect ==
    ASSUME TypeOK, NavigateStopped \/ handleOutgoingFlows \/ handleEndEvent
    PROVE  Handled
<1> DEFINE p == Top.instance
           e == Top.element
           out == FindOutgoingFlows(e)
<1>1. db \in DB /\ Running("navigateFrom")
  BY DEF TypeOK, NavigateStopped, handleOutgoingFlows, handleEndEvent, At
<1>2. p \in Instances /\ e \in Elements
  BY <1>1, TopType DEF Running
<1>3. out \in SUBSET Flows
  BY DEF FindOutgoingFlows
<1>4. CASE NavigateStopped
  <2>1. Do(db, <<>>) /\ Stops(db, <<>>) /\ <<>> \in Seq(Frame)
    BY <1>4 DEF NavigateStopped, Stops
  <2> QED BY <2>1, HandledBy DEF Effect
<1>5. ASSUME NEW d, NEW n \in Nat, Moved(db, d, p, e, n), n <= db.tokens[p][e],
             NEW calls, GoesOn(calls, p), calls # <<>>, Do(d, calls), db.state[p] = "running",
             ElementType[e] \notin GatewayTypes
      PROVE  Handled
  <2>1. ~IsJoin(e)
    BY <1>5 DEF IsJoin, GatewayTypes
  <2>2. CountAt(db, d, p, e, IF IsJoin(e) THEN 0 ELSE db.arrived[p][e])
    BY <1>5, <2>1 DEF Moved, SameCounts, CountAt
  <2>3. Passes(d, calls)
    BY <1>1, <1>5, <2>1, <2>2 DEF Passes, Moved
  <2> QED BY <1>5, <2>3, HandledBy DEF Effect, GoesOn
<1>6. CASE handleOutgoingFlows
  <2>1. /\ db.state[p] = "running"
        /\ ElementType[e] \notin GatewayTypes
        /\ \/ Do(db, checkComplete(p))
           \/ out # {} /\ Do(ConsumeOne(db, p, e), takeFlows(p, out))
    BY <1>6 DEF handleOutgoingFlows, At, GatewayTypes
  <2>2. Moved(db, db, p, e, db.tokens[p][e]) /\ db.tokens[p][e] \in Nat
    BY <1>1, <1>2, CountValues DEF Moved, TokensAt, SameRows, SameEvents, SameCounts
  <2>3. Moved(db, ConsumeOne(db, p, e), p, e, OneLess(db.tokens[p][e]))
    BY <1>1, <1>2, TokenFields
  <2>4. OneLess(db.tokens[p][e]) \in Nat /\ OneLess(db.tokens[p][e]) <= db.tokens[p][e]
    BY <2>2, OneLessType DEF OneLess
  <2>5. /\ GoesOn(checkComplete(p), p) /\ checkComplete(p) # <<>>
        /\ out # {} => GoesOn(takeFlows(p, out), p) /\ takeFlows(p, out) # <<>>
    BY <1>2, <1>3, GoingOn
  <2> HIDE DEF p, e, out
  <2> QED BY <1>5, <2>1, <2>2, <2>3, <2>4, <2>5
<1>7. CASE handleEndEvent
  <2>1. /\ db.state[p] = "running"
        /\ ElementType[e] \notin GatewayTypes
        /\ Do(ConsumeAt(db, p, e), checkComplete(p))
    BY <1>7 DEF handleEndEvent, At, GatewayTypes
  <2>2. Moved(db, ConsumeAt(db, p, e), p, e, 0) /\ 0 <= db.tokens[p][e]
    BY <1>1, <1>2, TokenFields, CountValues
  <2>3. GoesOn(checkComplete(p), p) /\ checkComplete(p) # <<>>
    BY <1>2, GoingOn
  <2> HIDE DEF p, e, out
  <2> QED BY <1>5, <2>1, <2>2, <2>3
<1> QED BY <1>4, <1>6, <1>7

\* navigateFrom at XOR and OR gateways.
LEMMA ChoiceEffect ==
    ASSUME TypeOK, handleExclusiveGateway \/ handleInclusiveGateway
    PROVE  Handled
<1> DEFINE p == Top.instance
           g == Top.element
           out == FindOutgoingFlows(g)
<1>1. db \in DB /\ Running("navigateFrom") /\ db.state[p] = "running"
  BY DEF TypeOK, handleExclusiveGateway, handleInclusiveGateway, At
<1>2. p \in Instances /\ g \in Elements
  BY <1>1, TopType DEF Running
<1>3. ~IsJoin(g)
  BY DEF handleExclusiveGateway, handleInclusiveGateway, At, IsJoin
<1>4. /\ Moved(db, ConsumeAt(db, p, g), p, g, 0) /\ ConsumeAt(db, p, g) \in DB
      /\ 0 <= db.tokens[p][g]
  BY <1>1, <1>2, TokenFields, TokenTypes, CountValues
<1>5. ASSUME NEW fs \in SUBSET Flows, fs # {}, Do(ConsumeAt(db, p, g), takeFlows(p, fs))
      PROVE  Handled
  <2>1. GoesOn(takeFlows(p, fs), p) /\ takeFlows(p, fs) # <<>>
    BY <1>2, <1>5, GoingOn
  <2>2. CountAt(db, ConsumeAt(db, p, g), p, g, IF IsJoin(g) THEN 0 ELSE db.arrived[p][g])
    BY <1>3, <1>4 DEF Moved, SameCounts, CountAt
  <2>3. Passes(ConsumeAt(db, p, g), takeFlows(p, fs))
    BY <1>1, <1>3, <1>4, <2>1, <2>2 DEF Passes, Moved
  <2> QED BY <1>5, <2>1, <2>3, HandledBy DEF Effect, GoesOn
<1>6. CASE Fail(db)
  <2>1. Loses(db)
    BY <1>3 DEF Loses, SameRows, SameEvents, SameCounts
  <2> QED BY <1>1, <1>6, <2>1 DEF Handled
<1>7. CASE ElementType[g] = "inclusiveGateway" /\ Fail(ConsumeAt(db, p, g))
  <2>1. Loses(ConsumeAt(db, p, g))
    BY <1>3, <1>4, <1>7 DEF Loses, Moved, TokensAt
  <2> QED BY <1>4, <1>7, <2>1 DEF Handled
<1>8. \/ Fail(db)
      \/ ElementType[g] = "inclusiveGateway" /\ Fail(ConsumeAt(db, p, g))
      \/ \E fs \in SUBSET Flows : fs # {} /\ Do(ConsumeAt(db, p, g), takeFlows(p, fs))
  <2>1. out \in SUBSET Flows
    BY DEF FindOutgoingFlows
  <2>2. CASE handleExclusiveGateway
    <3>1. CASE \E f \in Decisive(p, out) : Do(ConsumeAt(db, p, g), takeFlows(p, {f}))
      BY <2>1, <3>1 DEF Decisive
    <3>2. CASE /\ DefaultOf(g, out) # {}
               /\ Do(ConsumeAt(db, p, g), takeFlows(p, DefaultOf(g, out)))
      BY <2>1, <3>2 DEF DefaultOf
    <3> QED BY <2>2, <3>1, <3>2 DEF handleExclusiveGateway
  <2>3. CASE handleInclusiveGateway
    BY <2>1, <2>3 DEF handleInclusiveGateway, DefaultOf, At
  <2> QED BY <2>2, <2>3
<1> QED BY <1>5, <1>6, <1>7, <1>8

\* navigateFrom at AND gateways.
LEMMA ParallelEffect ==
    ASSUME TypeOK, handleParallelGateway
    PROVE  Handled
<1> DEFINE p == Top.instance
           g == Top.element
           n == db.arrived[p][g] + 1
<1>1. /\ db \in DB /\ Running("navigateFrom") /\ db.state[p] = "running"
      /\ ElementType[g] = "parallelGateway"
  BY DEF TypeOK, handleParallelGateway, At
<1>2. p \in Instances /\ g \in Elements
  BY <1>1, TopType DEF Running
<1>3. n \in Nat
  BY <1>1, <1>2, CountValues
<1>4. /\ Moved(db, ConsumeAt(db, p, g), p, g, 0) /\ ConsumeAt(db, p, g) \in DB
      /\ 0 <= db.tokens[p][g]
  BY <1>1, <1>2, TokenFields, TokenTypes, CountValues
<1>5. GoesOn(Split(p, g), p) /\ Split(p, g) # <<>>
  <2>1. FindOutgoingFlows(g) \in SUBSET Flows
    BY DEF FindOutgoingFlows
  <2> QED BY <1>2, <2>1, GoingOn DEF Split
<1>6. CASE IsJoin(g) /\ Do(SetArrived(db, p, g, n), <<>>)
  <2>1. /\ SameRows(db, SetArrived(db, p, g, n))
        /\ SameEvents(db, SetArrived(db, p, g, n))
        /\ SameTokens(db, SetArrived(db, p, g, n))
        /\ CountAt(db, SetArrived(db, p, g, n), p, g, n)
    BY <1>1, <1>2, <1>3, CounterFields
  <2>2. Waits(SetArrived(db, p, g, n), <<>>) /\ <<>> \in Seq(Frame)
    BY <1>1, <1>6, <2>1 DEF Waits
  <2> QED BY <1>6, <2>2, HandledBy DEF Effect
<1>7. CASE /\ IsJoin(g) /\ n >= countEffectiveIncoming(g)
           /\ Do(SetArrived(ConsumeAt(db, p, g), p, g, 0), Split(p, g))
  <2> DEFINE d == ConsumeAt(db, p, g)
             f == SetArrived(d, p, g, 0)
  <2>1. SameRows(d, f) /\ SameEvents(d, f) /\ SameTokens(d, f) /\ CountAt(d, f, p, g, 0)
    BY <1>2, <1>4, CounterFields
  <2>2. SameRows(db, d) /\ SameEvents(db, d) /\ SameCounts(db, d) /\ TokensAt(db, d, p, g, 0)
    BY <1>4 DEF Moved
  <2>3. SameRows(db, f) /\ SameEvents(db, f)
    BY <2>1, <2>2 DEF SameRows, SameEvents
  <2>4. TokensAt(db, f, p, g, 0) /\ CountAt(db, f, p, g, 0)
    BY <2>1, <2>2 DEF SameTokens, SameCounts, TokensAt, CountAt
  <2>5. Passes(f, Split(p, g))
    BY <1>1, <1>4, <1>5, <1>7, <2>3, <2>4 DEF Passes
  <2> QED BY <1>5, <1>7, <2>5, HandledBy DEF Effect, GoesOn
<1>8. CASE ~IsJoin(g) /\ Do(ConsumeAt(db, p, g), Split(p, g))
  <2>1. CountAt(db, ConsumeAt(db, p, g), p, g, IF IsJoin(g) THEN 0 ELSE db.arrived[p][g])
    BY <1>4, <1>8 DEF Moved, SameCounts, CountAt
  <2>2. Passes(ConsumeAt(db, p, g), Split(p, g))
    BY <1>1, <1>4, <1>5, <1>8, <2>1 DEF Passes, Moved
  <2> QED BY <1>5, <1>8, <2>2, HandledBy DEF Effect, GoesOn
<1> QED BY <1>1, <1>6, <1>7, <1>8 DEF handleParallelGateway, IsJoin

\* The loop of takeSequenceFlow.
LEMMA TakingFacts ==
    ASSUME TypeOK, NEW f \in Flows, NEW types, Taking(f, types)
    PROVE  /\ db \in DB
           /\ Running("takeSequenceFlow")
           /\ Top.instance \in Instances
           /\ TargetRef[f] \in Elements
           /\ ElementType[TargetRef[f]] \in types
           /\ GoesOn(MoreFlows(f), Top.instance)
           /\ MoreFlows(f) \in Seq(Frame)
<1>1. db \in DB /\ Running("takeSequenceFlow") /\ ElementType[TargetRef[f]] \in types
  BY DEF TypeOK, Taking
<1>2. Top.instance \in Instances /\ Top.flows \ {f} \in SUBSET Flows
  BY <1>1, TopType DEF Running
<1>3. GoesOn(MoreFlows(f), Top.instance)
  BY <1>2, GoingOn DEF MoreFlows
<1>4. TargetRef[f] \in Elements
  BY FlowsAssumption
<1> QED BY <1>1, <1>2, <1>3, <1>4 DEF GoesOn

\* A token that waits, with the subscriptions made for it.
LEMMA RestEffect ==
    ASSUME TypeOK, Running("takeSequenceFlow"), Top.instance \in Instances,
           NEW e \in Elements, ElementType[e] \in {"userTask", "intermediateCatchEvent"},
           NEW d \in DB, Moved(db, d, Top.instance, e, db.tokens[Top.instance][e] + 1),
           NEW es \in SUBSET Elements, \A x \in es : IsListener(x), IsWaiter(e) => e \in es,
           NEW i \in SubscriptionIDs, FreshID(Top.instance, es, i),
           NEW calls, GoesOn(calls, Top.instance),
           Do(CreateSubscriptions(d, Top.instance, es, i), calls)
    PROVE  Handled
<1> DEFINE p == Top.instance
           f == CreateSubscriptions(d, p, es, i)
<1>1. /\ SameRows(d, f) /\ SameCounts(d, f) /\ SameTokens(d, f)
      /\ f.subscriptions = d.subscriptions \cup NewSubscriptions(p, es, i)
  BY SubscriptionFields
<1> HIDE DEF f
<1>2. \A x \in f.subscriptions : x \in db.subscriptions \/ IsListener(x.element)
  <2>1. \A x \in NewSubscriptions(p, es, i) : x.element \in es
    BY DEF NewSubscriptions
  <2> QED BY <1>1, <2>1 DEF Moved, SameEvents
<1>3. SameRows(db, f) /\ SameCounts(db, f) /\ db.subscriptions \subseteq f.subscriptions
  BY <1>1 DEF Moved, SameRows, SameCounts, SameEvents
<1>4. TokensAt(db, f, p, e, db.tokens[p][e] + 1)
  BY <1>1 DEF Moved, TokensAt, SameTokens
<1>7. IsWaiter(e) => \E x \in f.subscriptions : Awaits(x, p, e)
  <2> SUFFICES ASSUME IsWaiter(e) PROVE \E x \in f.subscriptions : Awaits(x, p, e)
    OBVIOUS
  <2> DEFINE x == [instance |-> p, element |-> e, id |-> i]
  <2>1. x \in NewSubscriptions(p, es, i)
    BY DEF NewSubscriptions
  <2>2. x \notin KnownSubscriptions
    BY <2>1 DEF FreshID
  <2>3. ~Doomed(stack, x)
    <3> SUFFICES ASSUME NEW k \in 1..Len(stack), x \in stack[k].subs PROVE FALSE
      BY DEF Doomed
    <3>1. k \in DOMAIN stack
      BY DEF TypeOK
    <3> HIDE DEF x
    <3> QED BY <2>2, <3>1 DEF KnownSubscriptions
  <2> QED BY <1>1, <2>1, <2>3 DEF Awaits
<1>5. Rests(f, calls)
  BY <1>2, <1>3, <1>4, <1>7 DEF Rests
<1>6. Do(f, calls)
  BY DEF f
<1> QED BY <1>5, <1>6, HandledBy DEF Effect, GoesOn

\* Calls on activities do not move tokens.
LEMMA MovedThenSame ==
    ASSUME NEW d, NEW f, NEW h, NEW p, NEW e, NEW n, Moved(d, f, p, e, n), Same(f, h)
    PROVE  Moved(d, h, p, e, n)
BY DEF Moved, Same, SameRows, SameEvents, SameCounts, SameTokens, TokensAt

\* takeSequenceFlow into user tasks and catch events.
LEMMA TakeAndRestEffect ==
    ASSUME TypeOK, TakeToUserTask \/ handleIntermediateCatchEvent
    PROVE  Handled
<1> DEFINE p == Top.instance
<1>1. CASE TakeToUserTask
  <2> DEFINE created(e) ==
               IF e \in CandidateTasks
               THEN CreateUnclaimed(CreateToken(db, p, e), p, e)
               ELSE CreateActive(CreateToken(db, p, e), p, e)
  <2>1. PICK f \in Flows, i \in SubscriptionIDs :
          /\ Taking(f, {"userTask"})
          /\ FreshID(p, BoundarySignals(TargetRef[f]), i)
          /\ Do(CreateSubscriptions(created(TargetRef[f]), p, BoundarySignals(TargetRef[f]), i),
                MoreFlows(f))
    BY <1>1 DEF TakeToUserTask, CreateTask
  <2> DEFINE e == TargetRef[f]
  <2>2. /\ db \in DB /\ Running("takeSequenceFlow") /\ p \in Instances /\ e \in Elements
        /\ ElementType[e] = "userTask" /\ GoesOn(MoreFlows(f), p)
    BY <2>1, TakingFacts
  <2>3. /\ CreateToken(db, p, e) \in DB
        /\ Moved(db, CreateToken(db, p, e), p, e, db.tokens[p][e] + 1)
    BY <2>2, TokenTypes, TokenFields
  <2>4. created(e) \in DB /\ Same(CreateToken(db, p, e), created(e))
    BY <2>2, <2>3, ActivityTypes, ActivityFields
  <2>5. /\ \A x \in BoundarySignals(e) : IsListener(x)
        /\ BoundarySignals(e) \in SUBSET Elements /\ ~IsWaiter(e)
        /\ FreshID(p, BoundarySignals(e), i)
    BY <2>1, <2>2 DEF BoundarySignals, IsListener, IsWaiter
  <2>6. Do(CreateSubscriptions(created(e), p, BoundarySignals(e), i), MoreFlows(f))
    BY <2>1
  <2> HIDE DEF created
  <2>7. Moved(db, created(e), p, e, db.tokens[p][e] + 1)
    BY <2>3, <2>4, MovedThenSame
  <2> QED BY <2>2, <2>4, <2>5, <2>6, <2>7, RestEffect
<1>2. CASE handleIntermediateCatchEvent
  <2> DEFINE waited(e) == IF SignalRef[e] = NoSignal THEN {} ELSE {e}
  <2>1. PICK f \in Flows, i \in SubscriptionIDs :
          /\ Taking(f, {"intermediateCatchEvent"})
          /\ FreshID(p, waited(TargetRef[f]), i)
          /\ Do(CreateSubscriptions(CreateToken(db, p, TargetRef[f]), p,
                                    waited(TargetRef[f]), i),
                MoreFlows(f))
    BY <1>2 DEF handleIntermediateCatchEvent
  <2> DEFINE e == TargetRef[f]
  <2>2. /\ db \in DB /\ Running("takeSequenceFlow") /\ p \in Instances /\ e \in Elements
        /\ ElementType[e] = "intermediateCatchEvent" /\ GoesOn(MoreFlows(f), p)
    BY <2>1, TakingFacts
  <2>3. /\ CreateToken(db, p, e) \in DB
        /\ Moved(db, CreateToken(db, p, e), p, e, db.tokens[p][e] + 1)
    BY <2>2, TokenTypes, TokenFields
  <2>4. /\ \A x \in waited(e) : IsListener(x)
        /\ waited(e) \in SUBSET Elements /\ (IsWaiter(e) => e \in waited(e))
        /\ FreshID(p, waited(e), i)
    BY <2>1, <2>2 DEF IsListener, IsWaiter
  <2>5. Do(CreateSubscriptions(CreateToken(db, p, e), p, waited(e), i), MoreFlows(f))
    BY <2>1
  <2> HIDE DEF waited
  <2> QED BY <2>2, <2>3, <2>4, <2>5, RestEffect
<1> QED BY <1>1, <1>2

\* takeSequenceFlow into what does not wait.
LEMMA TakeAndRunEffect ==
    ASSUME TypeOK, TakeThrough \/ TakeToGateway \/ TakeFails
    PROVE  Handled
<1> DEFINE p == Top.instance
<1>1. CASE TakeThrough
  <2>1. PICK f \in Flows : /\ Taking(f, {"serviceTask", "endEvent"})
                           /\ Do(db, navigateFrom(p, TargetRef[f]) \o MoreFlows(f))
    BY <1>1 DEF TakeThrough
  <2> DEFINE e == TargetRef[f]
  <2>2. /\ Running("takeSequenceFlow") /\ p \in Instances /\ e \in Elements
        /\ ElementType[e] \in {"serviceTask", "endEvent"}
        /\ GoesOn(MoreFlows(f), p) /\ MoreFlows(f) \in Seq(Frame)
    BY <2>1, TakingFacts
  <2>3. navigateFrom(p, e) \o MoreFlows(f) \in Seq(Frame)
    BY <2>2, CallTypes, CallsType
  <2>4. Runs(db, navigateFrom(p, e) \o MoreFlows(f))
    BY <2>2 DEF Runs
  <2> QED BY <2>1, <2>3, <2>4, HandledBy DEF Effect
<1>2. CASE TakeToGateway
  <2>1. PICK f \in Flows :
          /\ Taking(f, GatewayTypes)
          /\ Do(CreateToken(db, p, TargetRef[f]), navigateFrom(p, TargetRef[f]) \o MoreFlows(f))
    BY <1>2 DEF TakeToGateway
  <2> DEFINE g == TargetRef[f]
  <2>2. /\ db \in DB /\ Running("takeSequenceFlow") /\ p \in Instances /\ g \in Elements
        /\ ElementType[g] \in GatewayTypes
        /\ GoesOn(MoreFlows(f), p) /\ MoreFlows(f) \in Seq(Frame)
    BY <2>1, TakingFacts
  <2>3. navigateFrom(p, g) \o MoreFlows(f) \in Seq(Frame)
    BY <2>2, CallTypes, CallsType
  <2>4. Moved(db, CreateToken(db, p, g), p, g, db.tokens[p][g] + 1)
    BY <2>2, TokenFields
  <2>5. Reaches(CreateToken(db, p, g), navigateFrom(p, g) \o MoreFlows(f))
    BY <2>2, <2>4 DEF Reaches
  <2> QED BY <2>1, <2>3, <2>5, HandledBy DEF Effect
<1>3. CASE TakeFails
  <2>1. Fail(db) /\ ~Running("navigateFrom")
    BY <1>3 DEF TakeFails, Taking, Running
  <2>2. Loses(db)
    BY <2>1 DEF Loses, SameRows, SameEvents, SameCounts
  <2> QED BY <2>1, <2>2 DEF Handled, TypeOK
<1> QED BY <1>1, <1>2, <1>3

\* takeSequenceFlow into a throw event.
LEMMA ThrowEffect ==
    ASSUME TypeOK, handleIntermediateThrowEvent
    PROVE  Handled
<1> DEFINE p == Top.instance
           out(e) == FindOutgoingFlows(e)
           subs(e) == IF SignalRef[e] = NoSignal THEN {}
                      ELSE ListSignalSubscriptions(db, SignalRef[e])
           onward(e) == IF out(e) = {} THEN checkComplete(p) ELSE takeFlows(p, out(e))
<1>1. PICK f \in Flows :
        /\ Taking(f, {"intermediateThrowEvent"})
        /\ Do(db, fireSignals(subs(TargetRef[f])) \o onward(TargetRef[f]) \o MoreFlows(f))
  BY DEF handleIntermediateThrowEvent
<1> DEFINE e == TargetRef[f]
<1>2. /\ db \in DB /\ Running("takeSequenceFlow") /\ p \in Instances
      /\ GoesOn(MoreFlows(f), p)
  BY <1>1, TakingFacts
<1>3. subs(e) \in SUBSET db.subscriptions /\ subs(e) \in SUBSET Subscription
  BY <1>2 DEF ListSignalSubscriptions, DB
<1>4. GoesOn(onward(e), p) /\ onward(e) # <<>>
  <2>1. out(e) \in SUBSET Flows
    BY DEF FindOutgoingFlows
  <2> QED BY <1>2, <2>1, GoingOn
<1>5. Do(db, fireSignals(subs(e)) \o onward(e) \o MoreFlows(f))
  BY <1>1
<1> HIDE DEF subs, onward
<1>6. GoesOn(onward(e) \o MoreFlows(f), p) /\ onward(e) \o MoreFlows(f) # <<>>
  BY <1>2, <1>4, GoingOnTwice
<1>7. fireSignals(subs(e)) \in Seq(Frame)
  BY <1>3, SignalCallTypes
<1>8. fireSignals(subs(e)) \o onward(e) \o MoreFlows(f)
        = fireSignals(subs(e)) \o (onward(e) \o MoreFlows(f))
  BY <1>2, <1>4, <1>7 DEF GoesOn
<1>9. fireSignals(subs(e)) \o (onward(e) \o MoreFlows(f)) \in Seq(Frame)
  BY <1>6, <1>7, CallsType DEF GoesOn
<1>10. onward(e) \o MoreFlows(f) \in Seq(Frame)
  BY <1>6 DEF GoesOn
<1>11. Throws(db, fireSignals(subs(e)) \o (onward(e) \o MoreFlows(f)))
  BY <1>2, <1>3, <1>6, <1>10 DEF Throws
<1> QED BY <1>5, <1>8, <1>9, <1>11, HandledBy DEF Effect

\* takeSequenceFlow into a call activity.
LEMMA SpawnEffect ==
    ASSUME TypeOK, handleCallActivity
    PROVE  Handled
<1> DEFINE p == Top.instance
           by(f) == [instance |-> p, element |-> TargetRef[f]]
           vals(f) == IF TargetRef[f] \in InheritVariables THEN db.variables[p] ELSE NoVariables
           counts(f) == IF TargetRef[f] \in InheritVariables THEN db.arrived[p] ELSE Zeros
           child(f, c) == CreateProcessInstance(db, c, CalledElement[TargetRef[f]],
                                                by(f), vals(f), counts(f))
           opened(f, c) == CreateActive(child(f, c), p, TargetRef[f])
           waiting(f, c) == CreateToken(opened(f, c), p, TargetRef[f])
<1>1. PICK f \in Flows, c \in Instances \ Roots :
        /\ Taking(f, {"callActivity"})
        /\ CalledElement[TargetRef[f]] # NoDefinition
        /\ db.state[c] = "none"
        /\ Do(waiting(f, c),
              navigateFrom(c, StartEventID[CalledElement[TargetRef[f]]]) \o MoreFlows(f))
  BY DEF handleCallActivity, Calling, CreateChild
<1> DEFINE e == TargetRef[f]
           s == StartEventID[CalledElement[e]]
<1>2. /\ db \in DB /\ Running("takeSequenceFlow") /\ p \in Instances /\ e \in Elements
      /\ ElementType[e] = "callActivity"
      /\ GoesOn(MoreFlows(f), p) /\ MoreFlows(f) \in Seq(Frame)
  BY <1>1, TakingFacts
<1>3. /\ CalledElement[e] \in Definitions
      /\ s \in Elements /\ ElementType[s] = "startEvent"
      /\ by(f) \in Caller
  BY <1>1, <1>2, ElementsAssumption, DefinitionsAssumption DEF Caller
<1>4. vals(f) \in Values /\ counts(f) \in PerElement
  <2>1. db.variables \in [Instances -> Values] /\ db.arrived \in [Instances -> PerElement]
    BY <1>2 DEF DB
  <2> QED BY <1>2, <2>1, NullsAssumption DEF Zeros
<1>5. NothingInherited => counts(f) = Zeros
  BY <1>1 DEF NothingInherited, Taking, IsFirst
<1> HIDE DEF vals, counts
<1>6. child(f, c) \in DB
  BY <1>2, <1>3, <1>4, CreateProcessInstanceType
<1>7. Created(db, child(f, c), c, by(f), counts(f)) /\ SameTokens(db, child(f, c))
  BY <1>2, CreateFields
<1> HIDE DEF child
<1>8. opened(f, c) \in DB /\ Same(child(f, c), opened(f, c))
  BY <1>2, <1>6, ActivityTypes, ActivityFields
<1> HIDE DEF opened
<1>9. Moved(opened(f, c), waiting(f, c), p, e, opened(f, c).tokens[p][e] + 1)
  BY <1>2, <1>8, TokenFields
<1>10. Created(db, waiting(f, c), c, by(f), counts(f))
  BY <1>7, <1>8, <1>9
     DEF Created, Same, Moved, StateAt, SameRows, SameEvents, SameCounts
<1>11. TokensAt(db, waiting(f, c), p, e, db.tokens[p][e] + 1)
  BY <1>7, <1>8, <1>9 DEF TokensAt, Same, SameTokens, Moved
<1>12. Do(waiting(f, c), navigateFrom(c, s) \o MoreFlows(f))
  BY <1>1
<1> HIDE DEF waiting
<1>13. Spawns(waiting(f, c), navigateFrom(c, s) \o MoreFlows(f))
  BY <1>1, <1>2, <1>3, <1>4, <1>5, <1>10, <1>11 DEF Spawns
<1>14. navigateFrom(c, s) \o MoreFlows(f) \in Seq(Frame)
  BY <1>2, <1>3, CallTypes, CallsType
<1> QED BY <1>12, <1>13, <1>14, HandledBy DEF Effect

\* checkComplete.
LEMMA CompletionEffect ==
    ASSUME TypeOK, CheckComplete
    PROVE  Handled
<1> DEFINE p == Top.instance
           by == db.caller[p]
           completed == SetState(db, p, "completed")
           consumed == ConsumeOne(completed, by.instance, by.element)
           told == CompleteAt(consumed, by.instance, by.element)
<1>1. db \in DB /\ Running("checkComplete")
  BY DEF TypeOK, CheckComplete
<1>2. p \in Instances
  BY <1>1, TopType DEF Running
<1>3. /\ completed \in DB
      /\ StateAt(db, completed, p, "completed")
      /\ completed.caller = db.caller
      /\ SameEvents(db, completed) /\ SameCounts(db, completed) /\ SameTokens(db, completed)
  BY <1>1, <1>2, InstanceUpdateTypes, RowFields
<1>4. CASE ~NoActiveTokens(db, p) /\ Do(db, <<>>)
  <2>1. Stops(db, <<>>) /\ <<>> \in Seq(Frame)
    BY <1>1, <1>4 DEF Stops
  <2> QED BY <1>4, <2>1, HandledBy DEF Effect
<1>5. CASE /\ NoActiveTokens(db, p) /\ Do(completed, <<>>)
           /\ by = NoInstance \/ db.tokens[by.instance][by.element] = 0
  <2> HIDE DEF completed
  <2>1. Ends(completed, <<>>) /\ <<>> \in Seq(Frame)
    BY <1>1, <1>3, <1>5 DEF Ends
  <2> QED BY <1>5, <2>1, HandledBy DEF Effect
<1>6. CASE /\ NoActiveTokens(db, p) /\ by # NoInstance
           /\ Do(told, navigateFrom(by.instance, by.element))
  <2>1. by.instance \in Instances /\ by.element \in Elements
    BY <1>1, <1>2, <1>6 DEF DB, Caller
  <2> HIDE DEF completed, by
  <2>2. /\ consumed \in DB
        /\ Moved(completed, consumed, by.instance, by.element,
                 OneLess(completed.tokens[by.instance][by.element]))
    BY <1>3, <2>1, TokenTypes, TokenFields
  <2> HIDE DEF consumed
  <2>3. Same(consumed, told)
    BY <2>1, <2>2, ActivityFields
  <2>4. Do(told, navigateFrom(by.instance, by.element))
    BY <1>6
  <2> HIDE DEF told
  <2>5. Moved(completed, told, by.instance, by.element,
              OneLess(completed.tokens[by.instance][by.element]))
    BY <2>2, <2>3, MovedThenSame
  <2>6. /\ StateAt(db, told, p, "completed") /\ told.caller = db.caller
        /\ SameEvents(db, told) /\ SameCounts(db, told)
    BY <1>3, <2>5 DEF Moved, SameRows, SameEvents, SameCounts, StateAt
  <2>7. TokensAt(db, told, by.instance, by.element,
                 OneLess(db.tokens[by.instance][by.element]))
    BY <1>3, <2>5 DEF Moved, SameTokens, TokensAt
  <2>8. Ends(told, navigateFrom(by.instance, by.element))
    BY <1>1, <1>6, <2>6, <2>7 DEF Ends, by
  <2>9. navigateFrom(by.instance, by.element) \in Seq(Frame)
    BY <2>1, CallTypes
  <2> QED BY <2>4, <2>8, <2>9, HandledBy DEF Effect
<1> QED BY <1>4, <1>5, <1>6 DEF CheckComplete

\* Delivering a signal.
LEMMA SignalEffect ==
    ASSUME TypeOK, FireSignal \/ DeleteSubscription \/ triggerEventElement
    PROVE  Handled
<1>1. db \in DB /\ stack # <<>>
  BY DEF TypeOK, FireSignal, DeleteSubscription, triggerEventElement, Running
<1>2. Top.subs \in SUBSET Subscription
  BY <1>1, TopType
<1>3. CASE FireSignal
  <2>1. PICK x \in Top.subs :
          Do(db, triggerElement(x) \o deleteSubscription(x) \o fireSignals(Top.subs \ {x}))
    BY <1>3 DEF FireSignal
  <2>2. x \in Subscription /\ Top.subs \ {x} \in SUBSET Subscription
    BY <1>2
  <2>3. triggerElement(x) \o deleteSubscription(x) \o fireSignals(Top.subs \ {x}) \in Seq(Frame)
    BY <2>2, SignalCallTypes, CallsType
  <2>4. Fires(db, triggerElement(x) \o deleteSubscription(x) \o fireSignals(Top.subs \ {x}))
    BY <1>3 DEF FireSignal, Fires
  <2> QED BY <2>1, <2>3, <2>4, HandledBy DEF Effect
<1>4. CASE DeleteSubscription
  <2>1. PICK x \in Top.subs : Do(DeleteSignalSubscription(db, x), <<>>)
    BY <1>4 DEF DeleteSubscription
  <2> DEFINE d == DeleteSignalSubscription(db, x)
  <2>2. x.instance \in Instances
    BY <1>2 DEF Subscription
  <2>3. /\ SameRows(db, d) /\ SameCounts(db, d) /\ SameTokens(db, d)
        /\ d.subscriptions = db.subscriptions \ {x}
    BY <1>1, <2>2, SubscriptionFields
  <2>4. Unsubscribes(d, <<>>) /\ <<>> \in Seq(Frame)
    BY <1>4, <2>1, <2>3 DEF DeleteSubscription, Unsubscribes
  <2> QED BY <2>1, <2>4, HandledBy DEF Effect
<1>5. CASE triggerEventElement
  <2> DEFINE p == Top.instance
             e == Top.element
             a == AttachedToRef[e]
             d == ConsumeAt(Interrupt(p, e), p, e)
  <2>1. p \in Instances /\ e \in Elements /\ Running("triggerEventElement")
    BY <1>5, TopType DEF triggerEventElement, Running
  <2>2. CASE db.state[p] # "running"
    <3>1. Do(db, <<>>)
      BY <1>5, <2>2 DEF triggerEventElement
    <3>2. Stops(db, <<>>) /\ <<>> \in Seq(Frame)
      BY <2>1, <2>2 DEF Stops
    <3> QED BY <3>1, <3>2, HandledBy DEF Effect
  <2>3. CASE db.state[p] = "running"
    <3>1. Do(d, navigateFrom(p, e)) /\ navigateFrom(p, e) \in Seq(Frame)
      BY <1>5, <2>1, <2>3, CallTypes DEF triggerEventElement
    <3>2. CASE Interrupt(p, e) = db
      <4>1. Moved(db, d, p, e, 0)
        BY <1>1, <2>1, <3>2, TokenFields
      <4> HIDE DEF d
      <4>2. Triggers(d, navigateFrom(p, e))
        BY <2>1, <2>3, <4>1 DEF Triggers, Moved, TokensAt
      <4> QED BY <3>1, <4>2, HandledBy DEF Effect
    <3>3. CASE /\ ElementType[e] = "boundaryEvent" /\ a # NoElement
               /\ Interrupt(p, e) = CompleteAt(ConsumeAt(db, p, a), p, a)
      <4>1. a \in Elements
        BY <2>1, <3>3, ElementsAssumption
      <4>2. ConsumeAt(db, p, a) \in DB /\ Moved(db, ConsumeAt(db, p, a), p, a, 0)
        BY <1>1, <2>1, <4>1, TokenTypes, TokenFields
      <4>3. /\ Interrupt(p, e) \in DB
            /\ Same(ConsumeAt(db, p, a), Interrupt(p, e))
        BY <2>1, <3>3, <4>1, <4>2, ActivityTypes, ActivityFields
      <4>4. Moved(db, Interrupt(p, e), p, a, 0)
        BY <4>2, <4>3, MovedThenSame
      <4>5. Moved(Interrupt(p, e), d, p, e, 0)
        BY <2>1, <4>3, TokenFields
      <4> HIDE DEF d
      <4>6. SameRows(db, d) /\ SameEvents(db, d) /\ SameCounts(db, d)
        BY <4>4, <4>5 DEF Moved, SameRows, SameEvents, SameCounts
      <4>7. \A q \in Instances, x \in Elements :
               d.tokens[q][x] = IF q = p /\ (x = e \/ x = a) THEN 0 ELSE db.tokens[q][x]
        BY <4>4, <4>5 DEF Moved, TokensAt
      <4>8. Triggers(d, navigateFrom(p, e))
        BY <2>1, <2>3, <3>3, <4>6, <4>7 DEF Triggers
      <4> QED BY <3>1, <4>8, HandledBy DEF Effect
    <3> QED BY <3>2, <3>3 DEF Interrupt, Interrupts
  <2> QED BY <2>2, <2>3
<1> QED BY <1>3, <1>4, <1>5

\* So has every step of the navigator but the last one of a transaction.
LEMMA NavigateEffect ==
    ASSUME TypeOK, Navigate
    PROVE  Handled \/ Commit
BY OutgoingEffect, ChoiceEffect, ParallelEffect, TakeAndRestEffect, TakeAndRunEffect,
   ThrowEffect, SpawnEffect, CompletionEffect, SignalEffect DEF Navigate

-----------------------------------------------------------------------------
(* Effects of the requests; all of them find the stack empty. *)

SavedIfPossible == saved' = IF Transactional THEN db ELSE NoSnapshot

Starts ==
    \E p \in Instances, s \in Elements :
        /\ db.state[p] = "none"
        /\ Created(db, db', p, NoInstance, Zeros) /\ SameTokens(db, db')
        /\ ElementType[s] = "startEvent"
        /\ stack' = navigateFrom(p, s) \o commit
        /\ SavedIfPossible

Completes ==
    \E p \in Instances, e \in Elements :
        /\ ElementType[e] = "userTask" /\ db.active[p][e] > 0
        /\ SameRows(db, db') /\ SameCounts(db, db')
        /\ db'.subscriptions = {x \in db.subscriptions : x.instance # p}
        /\ TokensAt(db, db', p, e, OneLess(db.tokens[p][e]))
        /\ stack' = navigateFrom(p, e) \o commit
        /\ SavedIfPossible

Touches == Same(db, db') /\ UNCHANGED <<stack, saved>>

Holds ==
    \E p \in Instances, s \in LiveStates :
        /\ \/ "suspend" \in Requests /\ db.state[p] = "running" /\ s = "suspended"
           \/ db.state[p] = "suspended" /\ s = "running"
        /\ StateAt(db, db', p, s) /\ db'.caller = db.caller
        /\ SameEvents(db, db') /\ SameCounts(db, db') /\ SameTokens(db, db')
        /\ UNCHANGED <<stack, saved>>

Terminates ==
    \E p \in Instances :
        /\ db.state[p] \in LiveStates
        /\ StateAt(db, db', p, "terminated") /\ db'.caller = db.caller
        /\ SameEvents(db, db') /\ SameCounts(db, db')
        /\ \A q \in Instances, x \in Elements :
               db'.tokens[q][x] = IF q = p THEN 0 ELSE db.tokens[q][x]
        /\ UNCHANGED <<stack, saved>>

Alerts ==
    /\ "signal" \in Requests
    /\ \E xs \in SUBSET db.subscriptions : stack' = fireSignals(xs)
    /\ UNCHANGED <<db, saved>>

Served ==
    /\ stack = <<>>
    /\ Starts \/ Completes \/ Touches \/ Holds \/ Terminates \/ Alerts

\* Starting an instance and completing a task.
LEMMA TransactionEffect ==
    ASSUME TypeOK,
           StartProcessInstance \/ \E p \in Instances, e \in Elements : CompleteTask(p, e)
    PROVE  Served
<1>0. db \in DB /\ stack = <<>>
  BY DEF TypeOK, StartProcessInstance, CompleteTask, Receive, Quiescent
<1>1. CASE StartProcessInstance
  <2>1. PICK def \in Definitions, vals \in Values, p \in Roots :
          /\ db.state[p] = "none"
          /\ RunInTransaction(CreateProcessInstance(db, p, def, NoInstance, vals, Zeros),
                              navigateFrom(p, StartEventID[def]))
    BY <1>1 DEF StartProcessInstance
  <2> DEFINE d == CreateProcessInstance(db, p, def, NoInstance, vals, Zeros)
  <2>2. p \in Instances /\ StartEventID[def] \in Elements
        /\ ElementType[StartEventID[def]] = "startEvent"
    BY StoreAssumption, DefinitionsAssumption
  <2>3. Created(db, d, p, NoInstance, Zeros) /\ SameTokens(db, d)
    BY <1>0, <2>2, CreateFields
  <2>4. /\ db' = d /\ SavedIfPossible
        /\ stack' = navigateFrom(p, StartEventID[def]) \o commit
    BY <2>1 DEF RunInTransaction, SavedIfPossible
  <2> HIDE DEF d
  <2>5. Starts
    BY <2>1, <2>2, <2>3, <2>4 DEF Starts
  <2> QED BY <1>0, <2>5 DEF Served
<1>2. ASSUME NEW p \in Instances, NEW e \in Elements, CompleteTask(p, e)
      PROVE  Served
  <2>1. PICK vals \in Values :
          /\ ElementType[e] = "userTask" /\ db.active[p][e] > 0
          /\ RunInTransaction(
                 DeleteSubscriptionsByInstance(
                     ConsumeOne(SetVariables(CompleteOne(db, p, e), p, vals), p, e), p),
                 navigateFrom(p, e))
    BY <1>2 DEF CompleteTask, Completable
  <2> DEFINE done == CompleteOne(db, p, e)
             completed == SetVariables(done, p, vals)
             consumed == ConsumeOne(completed, p, e)
             d == DeleteSubscriptionsByInstance(consumed, p)
  <2>2. done \in DB /\ Same(db, done)
    BY <1>0, ActivityTypes, ActivityFields
  <2> HIDE DEF done
  <2>3. completed \in DB /\ Same(done, completed)
    BY <2>2, InstanceUpdateTypes, ActivityFields
  <2> HIDE DEF completed
  <2>4. consumed \in DB /\ Moved(completed, consumed, p, e, OneLess(completed.tokens[p][e]))
    BY <2>3, TokenTypes, TokenFields
  <2> HIDE DEF consumed
  <2>5. /\ SameRows(consumed, d) /\ SameCounts(consumed, d) /\ SameTokens(consumed, d)
        /\ d.subscriptions = {x \in consumed.subscriptions : x.instance # p}
    BY <2>4, SubscriptionFields
  <2>6. db' = d /\ SavedIfPossible /\ stack' = navigateFrom(p, e) \o commit
    BY <2>1 DEF RunInTransaction, SavedIfPossible, consumed, completed, done
  <2> HIDE DEF d
  <2>7. Same(db, completed)
    BY <2>2, <2>3 DEF Same, SameRows, SameEvents, SameCounts, SameTokens
  <2>8. /\ SameRows(db, d) /\ SameCounts(db, d)
        /\ d.subscriptions = {x \in db.subscriptions : x.instance # p}
    BY <2>4, <2>5, <2>7 DEF Same, Moved, SameRows, SameEvents, SameCounts
  <2>9. TokensAt(db, d, p, e, OneLess(db.tokens[p][e]))
    BY <2>4, <2>5, <2>7 DEF Same, Moved, SameTokens, TokensAt
  <2>10. Completes
    BY <2>1, <2>6, <2>8, <2>9 DEF Completes
  <2> QED BY <1>0, <2>10 DEF Served
<1> QED BY <1>1, <1>2

\* The other requests.
LEMMA WriteEffect ==
    ASSUME TypeOK,
           \/ ClaimTask \/ UnclaimTask \/ SuspendProcessInstance \/ ResumeProcessInstance
           \/ TerminateProcessInstance \/ ReceiveSignal
    PROVE  Served
<1>0. db \in DB /\ stack = <<>>
  BY DEF TypeOK, ClaimTask, UnclaimTask, SuspendProcessInstance, ResumeProcessInstance,
         TerminateProcessInstance, ReceiveSignal, Receive, Quiescent
<1>1. CASE ClaimTask
  <2>1. PICK p \in Instances, e \in Elements : Write(Claim(db, p, e))
    BY <1>1 DEF ClaimTask
  <2> DEFINE taken == SetUnclaimed(db, p, e, OneLess(db.unclaimed[p][e]))
  <2>2. OneLess(db.unclaimed[p][e]) \in Nat
    BY <1>0, CountValues, OneLessType
  <2>3. taken \in DB /\ Same(db, taken)
    BY <1>0, <2>2, CountTypes, ActivityFields
  <2> HIDE DEF taken
  <2>4. Same(taken, CreateActive(taken, p, e))
    BY <2>3, ActivityFields
  <2>5. db' = CreateActive(taken, p, e) /\ UNCHANGED <<stack, saved>>
    BY <2>1 DEF Write, Claim, taken
  <2>6. Touches
    BY <2>3, <2>4, <2>5 DEF Touches, Same, SameRows, SameEvents, SameCounts, SameTokens
  <2> QED BY <1>0, <2>6 DEF Served
<1>2. CASE UnclaimTask
  <2>1. PICK p \in Instances, e \in Elements : Write(Unclaim(db, p, e))
    BY <1>2, ElementsAssumption DEF UnclaimTask
  <2> DEFINE done == CompleteOne(db, p, e)
  <2>2. done \in DB /\ Same(db, done)
    BY <1>0, ActivityTypes, ActivityFields
  <2> HIDE DEF done
  <2>3. Same(done, CreateUnclaimed(done, p, e))
    BY <2>2, ActivityFields
  <2>4. db' = CreateUnclaimed(done, p, e) /\ UNCHANGED <<stack, saved>>
    BY <2>1 DEF Write, Unclaim, done
  <2>5. Touches
    BY <2>2, <2>3, <2>4 DEF Touches, Same, SameRows, SameEvents, SameCounts, SameTokens
  <2> QED BY <1>0, <2>5 DEF Served
<1>3. CASE SuspendProcessInstance \/ ResumeProcessInstance
  <2>1. PICK p \in Instances, s \in LiveStates :
          /\ \/ "suspend" \in Requests /\ db.state[p] = "running" /\ s = "suspended"
             \/ db.state[p] = "suspended" /\ s = "running"
          /\ Write(SetState(db, p, s))
    BY <1>3 DEF SuspendProcessInstance, ResumeProcessInstance, Receive
  <2> DEFINE d == SetState(db, p, s)
  <2>2. /\ StateAt(db, d, p, s) /\ d.caller = db.caller
        /\ SameEvents(db, d) /\ SameCounts(db, d) /\ SameTokens(db, d)
    BY <1>0, RowFields
  <2>3. db' = d /\ UNCHANGED <<stack, saved>>
    BY <2>1 DEF Write
  <2> HIDE DEF d
  <2>4. Holds
    BY <2>1, <2>2, <2>3 DEF Holds
  <2> QED BY <1>0, <2>4 DEF Served
<1>4. CASE TerminateProcessInstance
  <2>1. PICK p \in Instances :
          /\ db.state[p] \in LiveStates
          /\ Write(SetState(CompleteAll(ConsumeAll(db, p), p), p, "terminated"))
    BY <1>4 DEF TerminateProcessInstance
  <2> DEFINE consumed == ConsumeAll(db, p)
             closed == CompleteAll(consumed, p)
             d == SetState(closed, p, "terminated")
  <2>2. /\ consumed \in DB
        /\ SameRows(db, consumed) /\ SameEvents(db, consumed) /\ SameCounts(db, consumed)
    BY <1>0 DEF ConsumeAll, DB, Zeros, SameRows, SameEvents, SameCounts
  <2>3. \A q \in Instances, x \in Elements :
           consumed.tokens[q][x] = IF q = p THEN 0 ELSE db.tokens[q][x]
    <3>1. consumed.tokens = [db.tokens EXCEPT ![p] = Zeros]
      BY <1>0 DEF ConsumeAll, DB
    <3>2. db.tokens \in [Instances -> PerElement]
      BY <1>0 DEF DB
    <3> QED BY <3>1, <3>2 DEF Zeros
  <2>4. closed \in DB /\ Same(consumed, closed)
    <3> HIDE DEF consumed
    <3>1. closed \in DB
      BY <2>2 DEF CompleteAll, DB, Zeros
    <3>2. Same(consumed, closed)
      BY <2>2 DEF CompleteAll, DB, Same, SameRows, SameEvents, SameCounts, SameTokens
    <3> QED BY <3>1, <3>2
  <2> HIDE DEF closed
  <2>5. /\ StateAt(closed, d, p, "terminated") /\ d.caller = closed.caller
        /\ SameEvents(closed, d) /\ SameCounts(closed, d) /\ SameTokens(closed, d)
    BY <2>4, RowFields
  <2>6. db' = d /\ UNCHANGED <<stack, saved>>
    BY <2>1 DEF Write, closed
  <2> HIDE DEF consumed, d
  <2>7. /\ StateAt(db, d, p, "terminated") /\ d.caller = db.caller
        /\ SameEvents(db, d) /\ SameCounts(db, d)
    BY <2>2, <2>4, <2>5 DEF StateAt, Same, SameRows, SameEvents, SameCounts
  <2>8. \A q \in Instances, x \in Elements :
           d.tokens[q][x] = IF q = p THEN 0 ELSE db.tokens[q][x]
    BY <2>3, <2>4, <2>5 DEF Same, SameTokens
  <2>9. Terminates
    BY <2>1, <2>6, <2>7, <2>8 DEF Terminates
  <2> QED BY <1>0, <2>9 DEF Served
<1>5. CASE ReceiveSignal
  <2>1. Alerts
    BY <1>5 DEF ReceiveSignal, Receive, ListSignalSubscriptions, Alerts
  <2> QED BY <1>0, <2>1 DEF Served
<1> QED BY <1>1, <1>2, <1>3, <1>4, <1>5

\* The navigator's steps take a call off the stack.
LEMMA NavigateRuns ==
    ASSUME Navigate
    PROVE  stack # <<>>
BY DEF Navigate, NavigateStopped, handleOutgoingFlows, handleEndEvent, handleExclusiveGateway,
       handleParallelGateway, handleInclusiveGateway, TakeToUserTask, TakeThrough,
       TakeToGateway, handleIntermediateCatchEvent, handleIntermediateThrowEvent,
       handleCallActivity, Calling, TakeFails, CheckComplete, FireSignal, DeleteSubscription,
       triggerEventElement, Commit, At, Taking, Running

\* A step of the engine, told by its effects.
Happens == Served \/ (stack # <<>> /\ Handled) \/ Commit \/ RequestFails

\* Every step of Next has one of the effects.
LEMMA NextEffect ==
    ASSUME TypeOK, Next
    PROVE  Happens
BY TransactionEffect, WriteEffect, NavigateEffect, NavigateRuns DEF Next, Serve, Happens

-----------------------------------------------------------------------------
(* The calls on the stack and what they rely on. *)

Underway(d, p) == d.state[p] \in {"running", "completed"}

\* A loop over flows and a check for completion belong to an instance that was
\* running; signals are delivered to event elements.
FrameOK(fr, d) ==
    /\ fr.call \in Onwards => Underway(d, fr.instance)
    /\ fr.call = "triggerEventElement" => IsListener(fr.element)
    /\ \A x \in fr.subs : IsListener(x.element)

\* Subscriptions are for event elements, callers are call activities, and there
\* is no token without an instance.
Linked(d) ==
    /\ \A x \in d.subscriptions : IsListener(x.element)
    /\ \A c \in Instances :
           d.caller[c] # NoInstance => ElementType[d.caller[c].element] = "callActivity"
    /\ \A p \in Instances, e \in Elements : d.tokens[p][e] > 0 => d.state[p] # "none"

\* What has ended in d ended the same way in f.
Forward(d, f) ==
    \A p \in Instances : d.state[p] \in EndedStates => f.state[p] = d.state[p]

Arriving(p, e) == Running("navigateFrom") /\ Top.instance = p /\ Top.element = e

FramesOK ==
    \A k \in 1..Len(stack) :
        FrameOK(stack[k], db) /\ (stack[k].call = "navigateFrom" => k = 1)

\* A call that reaches a gateway has just put a token there.
ArrivalOK ==
    \A p \in Instances, g \in Elements :
        (Arriving(p, g) /\ ElementType[g] \in GatewayTypes) =>
            Underway(db, p) /\ db.tokens[p][g] > 0

StackInv ==
    /\ TypeOK
    /\ Linked(db)
    /\ saved # NoSnapshot => Linked(saved) /\ Forward(saved, db)
    /\ FramesOK
    /\ ArrivalOK

\* The stack after a handler has made its calls.
LEMMA StackAfter ==
    ASSUME NEW s \in Seq(Frame), s # <<>>, NEW calls \in Seq(Frame)
    PROVE  LET t == calls \o Tail(s)
           IN  /\ t \in Seq(Frame)
               /\ Len(t) = Len(calls) + Len(s) - 1
               /\ \A k \in 1..Len(calls) : t[k] = calls[k]
               /\ \A k \in 1..Len(t) : k > Len(calls) =>
                      /\ k - Len(calls) + 1 \in 2..Len(s)
                      /\ t[k] = s[k - Len(calls) + 1]
<1>1. /\ Tail(s) \in Seq(Frame) /\ Len(Tail(s)) = Len(s) - 1
      /\ \A k \in 1..Len(Tail(s)) : Tail(s)[k] = s[k + 1]
      /\ Len(s) \in Nat /\ Len(calls) \in Nat
  OBVIOUS
<1>2. \A k \in 1..(Len(calls) + Len(Tail(s))) :
         (calls \o Tail(s))[k] =
             IF k <= Len(calls) THEN calls[k] ELSE Tail(s)[k - Len(calls)]
  BY <1>1
<1>3. Len(calls \o Tail(s)) = Len(calls) + Len(Tail(s)) /\ calls \o Tail(s) \in Seq(Frame)
  BY <1>1
<1> QED BY <1>1, <1>2, <1>3

\* Calls that may stand on the stack when the tables are d.
CallsOK(calls, d) ==
    \A k \in 1..Len(calls) :
        FrameOK(calls[k], d) /\ (calls[k].call = "navigateFrom" => k = 1)

NotEntered(calls) == \A k \in 1..Len(calls) : calls[k].call # "navigateFrom"

\* Two lists of calls in turn.
LEMMA CallsOKTwice ==
    ASSUME NEW m \in Seq(Frame), NEW n \in Seq(Frame), NEW d,
           CallsOK(m, d), CallsOK(n, d), NotEntered(n)
    PROVE  CallsOK(m \o n, d) /\ (NotEntered(m) => NotEntered(m \o n))
BY DEF CallsOK, NotEntered

\* Calls that go on in an instance under way may stand on the stack,
LEMMA GoingOnOK ==
    ASSUME NEW m, NEW p, NEW d, GoesOn(m, p), Underway(d, p)
    PROVE  CallsOK(m, d) /\ NotEntered(m)
<1>1. ASSUME NEW k \in 1..Len(m) PROVE FrameOK(m[k], d) /\ m[k].call # "navigateFrom"
  <2>1. m[k] \in Frame /\ m[k].call \in Onwards /\ m[k].instance = p
    BY DEF GoesOn
  <2>2. m[k].subs = {}
    BY <2>1 DEF Frame, Onwards
  <2> QED BY <2>1, <2>2 DEF FrameOK, Onwards
<1> QED BY <1>1 DEF CallsOK, NotEntered

\* and so may all the others.
LEMMA CallsAreOK ==
    ASSUME NEW d
    PROVE  /\ CallsOK(<<>>, d)
           /\ CallsOK(commit, d) /\ NotEntered(commit)
           /\ \A p \in Instances, e \in Elements : CallsOK(navigateFrom(p, e), d)
           /\ \A x \in Subscription : IsListener(x.element) =>
                  /\ CallsOK(triggerElement(x), d) /\ NotEntered(triggerElement(x))
                  /\ CallsOK(deleteSubscription(x), d) /\ NotEntered(deleteSubscription(x))
           /\ \A xs \in SUBSET Subscription : (\A x \in xs : IsListener(x.element)) =>
                  CallsOK(fireSignals(xs), d) /\ NotEntered(fireSignals(xs))
<1> USE DEF CallsOK, NotEntered, FrameOK, Onwards, Call
<1>1. CallsOK(<<>>, d)
  OBVIOUS
<1>2. CallsOK(commit, d) /\ NotEntered(commit)
  BY DEF commit
<1>3. ASSUME NEW p \in Instances, NEW e \in Elements PROVE CallsOK(navigateFrom(p, e), d)
  BY DEF navigateFrom
<1>4. ASSUME NEW x \in Subscription, IsListener(x.element)
      PROVE  /\ CallsOK(triggerElement(x), d) /\ NotEntered(triggerElement(x))
             /\ CallsOK(deleteSubscription(x), d) /\ NotEntered(deleteSubscription(x))
  BY <1>4 DEF triggerElement, deleteSubscription
<1>5. ASSUME NEW xs \in SUBSET Subscription, \A x \in xs : IsListener(x.element)
      PROVE  CallsOK(fireSignals(xs), d) /\ NotEntered(fireSignals(xs))
  BY <1>5 DEF fireSignals
<1> QED BY <1>1, <1>2, <1>3, <1>4, <1>5

\* Instances are created, and completed while under way; nothing else happens
\* to their rows while a request is being served.
Advances(d, f) ==
    \A p \in Instances :
        \/ f.state[p] = d.state[p]
        \/ d.state[p] = "none" /\ f.state[p] = "running"
        \/ Underway(d, p) /\ f.state[p] = "completed"

\* What such changes of rows keep.
LEMMA AdvancingKeeps ==
    ASSUME NEW d, NEW f, Advances(d, f)
    PROVE  /\ \A p \in Instances : Underway(d, p) => Underway(f, p)
           /\ \A p \in Instances : d.state[p] \in EndedStates => f.state[p] = d.state[p]
           /\ \A h : Forward(h, d) => Forward(h, f)
BY DEF Advances, Underway, Forward

\* The running call, as StackInv knows it.
LEMMA TopOK ==
    ASSUME StackInv, stack # <<>>
    PROVE  /\ FrameOK(Top, db)
           /\ db \in DB /\ stack \in Seq(Frame)
           /\ Top.subs \in SUBSET Subscription
           /\ Top.call \in {"navigateFrom", "triggerEventElement"} =>
                  Top.instance \in Instances /\ Top.element \in Elements
           /\ Top.call \in Onwards => Top.instance \in Instances /\ Underway(db, Top.instance)
<1>1. TypeOK /\ FramesOK /\ db \in DB /\ stack \in Seq(Frame)
  BY DEF StackInv, TypeOK
<1>2. 1 \in 1..Len(stack) /\ Top = stack[1]
  BY <1>1 DEF Top
<1>3. FrameOK(Top, db)
  BY <1>1, <1>2 DEF FramesOK
<1> QED BY <1>1, <1>3, TopType DEF Onwards, FrameOK

\* No handler changes rows in another way.
LEMMA EffectAdvances ==
    ASSUME StackInv, stack # <<>>, NEW d, NEW calls, Effect(d, calls)
    PROVE  Advances(db, d)
<1>1. CASE \/ Stops(d, calls) \/ Runs(d, calls) \/ Throws(d, calls) \/ Fires(d, calls)
  BY <1>1 DEF Stops, Runs, Throws, Fires, Advances
<1>2. CASE \/ Passes(d, calls) \/ Waits(d, calls) \/ Rests(d, calls) \/ Reaches(d, calls)
           \/ Unsubscribes(d, calls) \/ Triggers(d, calls)
  <2>1. SameRows(db, d)
    BY <1>2 DEF Passes, Waits, Rests, Reaches, Moved, Unsubscribes, Triggers
  <2> QED BY <2>1 DEF SameRows, Advances
<1>3. CASE Spawns(d, calls)
  BY <1>3 DEF Spawns, Created, StateAt, Advances
<1>4. CASE Ends(d, calls)
  <2>1. Underway(db, Top.instance)
    BY <1>4, TopOK DEF Ends, Running, Onwards
  <2> QED BY <1>4, <2>1 DEF Ends, StateAt, Advances
<1> QED BY <1>1, <1>2, <1>3, <1>4 DEF Effect

\* No handler breaks the links between the tables.
LEMMA EffectLinked ==
    ASSUME StackInv, stack # <<>>, NEW d \in DB, NEW calls, Effect(d, calls)
    PROVE  Linked(d)
<1>0. db \in DB /\ Linked(db) /\ Advances(db, d)
  BY EffectAdvances DEF StackInv, TypeOK
<1>1. \A x \in d.subscriptions : IsListener(x.element)
  <2>1. \A x \in d.subscriptions : x \in db.subscriptions \/ IsListener(x.element)
    BY DEF Effect, Stops, Passes, Waits, Rests, Runs, Reaches, Throws, Spawns, Ends, Fires,
           Unsubscribes, Triggers, Created, Moved, SameEvents
  <2> QED BY <1>0, <2>1 DEF Linked
<1>2. \A c \in Instances :
         d.caller[c] # NoInstance => ElementType[d.caller[c].element] = "callActivity"
  <2>1. CASE Spawns(d, calls)
    BY <1>0, <2>1 DEF Spawns, Created, Linked
  <2>2. CASE ~Spawns(d, calls)
    <3>1. d.caller = db.caller
      BY <2>2 DEF Effect, Stops, Passes, Waits, Rests, Runs, Reaches, Throws, Ends, Fires,
             Unsubscribes, Triggers, Moved, SameRows
    <3> QED BY <1>0, <3>1 DEF Linked
  <2> QED BY <2>1, <2>2
<1>3. ASSUME NEW p \in Instances, NEW e \in Elements, d.tokens[p][e] > 0
      PROVE  d.state[p] # "none"
  <2>1. db.state[p] # "none" => d.state[p] # "none"
    BY <1>0 DEF Advances
  <2>2. db.tokens[p][e] \in Nat /\ (db.tokens[p][e] > 0 => db.state[p] # "none")
    BY <1>0, CountValues DEF Linked
  <2>3. CASE d.tokens[p][e] = db.tokens[p][e]
    BY <1>3, <2>1, <2>2, <2>3
  <2>4. CASE Running("takeSequenceFlow") /\ p = Top.instance
    <3>1. Underway(db, p)
      BY <2>4, TopOK DEF Running, Onwards
    <3> QED BY <2>1, <3>1 DEF Underway
  <2>5. CASE Passes(d, calls)
    BY <1>3, <2>1, <2>2, <2>5 DEF Passes, TokensAt
  <2>6. CASE Ends(d, calls)
    <3>1. d.tokens[p][e] = db.tokens[p][e] \/ d.tokens[p][e] = OneLess(db.tokens[p][e])
      BY <2>6 DEF Ends, SameTokens, TokensAt
    <3>2. db.tokens[p][e] > 0
      BY <1>3, <2>2, <3>1 DEF OneLess
    <3> QED BY <2>1, <2>2, <3>2
  <2>7. CASE Triggers(d, calls)
    BY <1>3, <2>1, <2>2, <2>7 DEF Triggers
  <2>8. CASE \/ Stops(d, calls) \/ Waits(d, calls) \/ Runs(d, calls) \/ Throws(d, calls)
             \/ Fires(d, calls) \/ Unsubscribes(d, calls)
    BY <2>3, <2>8 DEF Stops, Waits, Runs, Throws, Fires, Unsubscribes, SameTokens
  <2>9. CASE Rests(d, calls) \/ Reaches(d, calls) \/ Spawns(d, calls)
    BY <2>3, <2>4, <2>9 DEF Rests, Reaches, Spawns, Moved, TokensAt
  <2> QED BY <2>5, <2>6, <2>7, <2>8, <2>9 DEF Effect
<1> QED BY <1>1, <1>2, <1>3 DEF Linked

\* Handlers make calls that may stand on the stack.
LEMMA EffectCalls ==
    ASSUME StackInv, stack # <<>>, NEW d \in DB, NEW calls \in Seq(Frame), Effect(d, calls)
    PROVE  CallsOK(calls, d)
<1> DEFINE p == Top.instance
<1>0. db \in DB /\ Linked(db) /\ Advances(db, d)
  BY EffectAdvances DEF StackInv, TypeOK
<1>1. CASE calls = <<>>
  BY <1>1, CallsAreOK
<1>2. CASE /\ Running("takeSequenceFlow") \/ Passes(d, calls)
           /\ GoesOn(calls, p)
  <2>1. p \in Instances /\ Underway(db, p)
    BY <1>2, TopOK DEF Running, Onwards, Passes, Underway
  <2>2. Underway(d, p)
    BY <1>0, <2>1, AdvancingKeeps
  <2> QED BY <1>2, <2>2, GoingOnOK
<1>3. ASSUME NEW q \in Instances, NEW e \in Elements, NEW m \in Seq(Frame),
             Running("takeSequenceFlow"), GoesOn(m, p), calls = navigateFrom(q, e) \o m
      PROVE  CallsOK(calls, d)
  <2>1. p \in Instances /\ Underway(db, p)
    BY <1>3, TopOK DEF Running, Onwards
  <2>2. Underway(d, p)
    BY <1>0, <2>1, AdvancingKeeps
  <2>3. CallsOK(m, d) /\ NotEntered(m)
    BY <1>3, <2>2, GoingOnOK
  <2>4. CallsOK(navigateFrom(q, e), d) /\ navigateFrom(q, e) \in Seq(Frame)
    BY CallsAreOK, CallTypes
  <2> QED BY <1>3, <2>3, <2>4, CallsOKTwice
<1>4. CASE Runs(d, calls) \/ Reaches(d, calls) \/ Spawns(d, calls)
  <2>1. p \in Instances
    BY <1>4, TopOK DEF Runs, Reaches, Spawns, Running, Onwards
  <2> QED BY <1>3, <1>4, <2>1 DEF Runs, Reaches, Spawns
<1>5. CASE Throws(d, calls)
  <2>1. PICK xs \in SUBSET db.subscriptions, m \in Seq(Frame) :
          GoesOn(m, p) /\ calls = fireSignals(xs) \o m
    BY <1>5 DEF Throws
  <2>2. p \in Instances /\ Underway(db, p) /\ d = db
    BY <1>5, TopOK DEF Throws, Running, Onwards
  <2>3. CallsOK(m, d) /\ NotEntered(m)
    BY <2>1, <2>2, GoingOnOK
  <2>4. xs \in SUBSET Subscription /\ \A x \in xs : IsListener(x.element)
    BY <1>0 DEF DB, Linked
  <2>5. CallsOK(fireSignals(xs), d) /\ fireSignals(xs) \in Seq(Frame)
    BY <2>4, CallsAreOK, SignalCallTypes
  <2> QED BY <2>1, <2>3, <2>5, CallsOKTwice
<1>6. CASE Fires(d, calls)
  <2>1. PICK x \in Top.subs :
          calls = triggerElement(x) \o deleteSubscription(x) \o fireSignals(Top.subs \ {x})
    BY <1>6 DEF Fires
  <2>2. Top.subs \in SUBSET Subscription /\ \A y \in Top.subs : IsListener(y.element)
    BY TopOK DEF FrameOK
  <2>3. /\ CallsOK(triggerElement(x), d) /\ NotEntered(triggerElement(x))
        /\ CallsOK(deleteSubscription(x), d) /\ NotEntered(deleteSubscription(x))
        /\ CallsOK(fireSignals(Top.subs \ {x}), d) /\ NotEntered(fireSignals(Top.subs \ {x}))
    BY <2>2, CallsAreOK
  <2>4. /\ triggerElement(x) \in Seq(Frame) /\ deleteSubscription(x) \in Seq(Frame)
        /\ fireSignals(Top.subs \ {x}) \in Seq(Frame)
    BY <2>2, SignalCallTypes
  <2>5. /\ CallsOK(triggerElement(x) \o deleteSubscription(x), d)
        /\ triggerElement(x) \o deleteSubscription(x) \in Seq(Frame)
    BY <2>3, <2>4, CallsOKTwice, CallsType
  <2> QED BY <2>1, <2>3, <2>4, <2>5, CallsOKTwice
<1>7. CASE Triggers(d, calls)
  <2>1. p \in Instances /\ Top.element \in Elements
    BY <1>7, TopOK DEF Triggers, Running
  <2> QED BY <1>7, <2>1, CallsAreOK DEF Triggers
<1>8. CASE Ends(d, calls) /\ calls # <<>>
  <2>1. p \in Instances
    BY <1>8, TopOK DEF Ends, Running, Onwards
  <2>2. /\ db.caller[p].instance \in Instances /\ db.caller[p].element \in Elements
        /\ calls = navigateFrom(db.caller[p].instance, db.caller[p].element)
    BY <1>0, <1>8, <2>1 DEF Ends, DB, Caller
  <2> QED BY <2>2, CallsAreOK
<1>9. CASE Stops(d, calls) \/ Waits(d, calls) \/ Unsubscribes(d, calls)
  BY <1>1, <1>9 DEF Stops, Waits, Unsubscribes
<1>10. CASE Passes(d, calls) \/ Rests(d, calls)
  BY <1>2, <1>10 DEF Passes, Rests
<1> QED BY <1>1, <1>4, <1>5, <1>6, <1>7, <1>8, <1>9, <1>10 DEF Effect

\* After a handler, navigateFrom runs where its first call says, or not at all.
LEMMA Entered ==
    ASSUME StackInv, stack # <<>>, NEW calls \in Seq(Frame), stack' = calls \o Rest,
           NEW p, NEW e
    PROVE  Arriving(p, e)' <=> /\ calls # <<>>
                               /\ calls[1].call = "navigateFrom"
                               /\ calls[1].instance = p
                               /\ calls[1].element = e
<1>1. stack \in Seq(Frame) /\ FramesOK
  BY DEF StackInv, TypeOK
<1>2. Rest \in Seq(Frame)
  BY <1>1 DEF Rest
<1>3. CASE calls # <<>>
  <2>1. stack' # <<>> /\ Head(stack') = calls[1]
    BY <1>2, <1>3
  <2> QED BY <1>3, <2>1 DEF Arriving, Running, Top
<1>4. CASE calls = <<>>
  <2>1. stack' = Rest
    BY <1>2, <1>4
  <2>2. Rest # <<>> => 2 \in 1..Len(stack) /\ Head(Rest) = stack[2]
    BY <1>1, <1>2 DEF Rest
  <2>3. Rest # <<>> => Head(Rest).call # "navigateFrom"
    BY <1>1, <2>2 DEF FramesOK
  <2>4. ~Running("navigateFrom")'
    BY <2>1, <2>3 DEF Running, Top
  <2> QED BY <1>4, <2>4 DEF Arriving
<1> QED BY <1>3, <1>4

\* What a call looks like at its head.
LEMMA CallHeads ==
    ASSUME NEW m \in Seq(Frame)
    PROVE  /\ \A p, e : LET c == navigateFrom(p, e) \o m
                        IN  /\ c # <<>> /\ c[1].call = "navigateFrom"
                            /\ c[1].instance = p /\ c[1].element = e
           /\ \A x : \A n \in Seq(Frame) :
                  (triggerElement(x) \o n \o m)[1].call # "navigateFrom"
           /\ \A xs : (fireSignals(xs) \o m # <<>> /\ NotEntered(m)) =>
                  (fireSignals(xs) \o m)[1].call # "navigateFrom"
<1>1. ASSUME NEW c
      PROVE  /\ <<c>> \o m # <<>> /\ (<<c>> \o m)[1] = c
             /\ \A n \in Seq(Frame) : (<<c>> \o n \o m)[1] = c
  OBVIOUS
<1>2. ASSUME NEW p, NEW e
      PROVE  LET c == navigateFrom(p, e) \o m
             IN  /\ c # <<>> /\ c[1].call = "navigateFrom"
                 /\ c[1].instance = p /\ c[1].element = e
  BY <1>1 DEF navigateFrom, Call
<1>3. ASSUME NEW x, NEW n \in Seq(Frame)
      PROVE  (triggerElement(x) \o n \o m)[1].call # "navigateFrom"
  BY <1>1 DEF triggerElement, Call
<1>4. ASSUME NEW xs, fireSignals(xs) \o m # <<>>, NotEntered(m)
      PROVE  (fireSignals(xs) \o m)[1].call # "navigateFrom"
  <2>1. CASE xs = {}
    <3>1. fireSignals(xs) \o m = m
      BY <2>1 DEF fireSignals
    <3>2. 1 \in 1..Len(m)
      BY <1>4, <3>1
    <3> QED BY <1>4, <3>1, <3>2 DEF NotEntered
  <2>2. CASE xs # {}
    BY <1>1, <2>2 DEF fireSignals, Call
  <2> QED BY <2>1, <2>2
<1> QED BY <1>2, <1>3, <1>4

\* Where the navigator goes: each effect leads to its own types of element.
LEMMA WhereEntered ==
    ASSUME StackInv, stack # <<>>, NEW d \in DB, NEW calls \in Seq(Frame), Effect(d, calls),
           calls # <<>>, calls[1].call = "navigateFrom"
    PROVE  LET e == calls[1].element
           IN  \/ Runs(d, calls) /\ ElementType[e] \in {"serviceTask", "endEvent"}
               \/ Reaches(d, calls) /\ ElementType[e] \in GatewayTypes
               \/ Spawns(d, calls) /\ ElementType[e] = "startEvent"
               \/ Ends(d, calls) /\ ElementType[e] = "callActivity"
               \/ Triggers(d, calls) /\ IsListener(e)
<1>0. db \in DB /\ Linked(db)
  BY DEF StackInv, TypeOK
<1>1. ~(Stops(d, calls) \/ Waits(d, calls) \/ Unsubscribes(d, calls))
  BY DEF Stops, Waits, Unsubscribes
<1>2. ~(Passes(d, calls) \/ Rests(d, calls))
  <2>1. 1 \in 1..Len(calls)
    OBVIOUS
  <2> QED BY <2>1 DEF Passes, Rests, GoesOn, Onwards
<1>3. Runs(d, calls) => ElementType[calls[1].element] \in {"serviceTask", "endEvent"}
  BY CallHeads DEF Runs
<1>4. Reaches(d, calls) => ElementType[calls[1].element] \in GatewayTypes
  BY CallHeads DEF Reaches
<1>5. ~Throws(d, calls)
  <2> SUFFICES ASSUME Throws(d, calls) PROVE FALSE
    OBVIOUS
  <2>1. PICK xs \in SUBSET db.subscriptions, m \in Seq(Frame) :
          GoesOn(m, Top.instance) /\ calls = fireSignals(xs) \o m
    BY DEF Throws
  <2>2. NotEntered(m)
    BY <2>1 DEF GoesOn, NotEntered, Onwards
  <2> QED BY <2>1, <2>2, CallHeads
<1>6. Spawns(d, calls) => ElementType[calls[1].element] = "startEvent"
  <2> SUFFICES ASSUME Spawns(d, calls) PROVE ElementType[calls[1].element] = "startEvent"
    OBVIOUS
  <2>1. PICK s \in Elements, c \in Instances, m \in Seq(Frame) :
          ElementType[s] = "startEvent" /\ calls = navigateFrom(c, s) \o m
    BY DEF Spawns
  <2> QED BY <2>1, CallHeads
<1>7. Ends(d, calls) => ElementType[calls[1].element] = "callActivity"
  <2> SUFFICES ASSUME Ends(d, calls) PROVE ElementType[calls[1].element] = "callActivity"
    OBVIOUS
  <2> DEFINE by == db.caller[Top.instance]
  <2>1. by # NoInstance /\ calls = navigateFrom(by.instance, by.element)
    BY DEF Ends
  <2>2. Top.instance \in Instances
    BY TopOK DEF Ends, Running, Onwards
  <2>3. ElementType[by.element] = "callActivity"
    BY <1>0, <2>1, <2>2 DEF Linked
  <2> QED BY <2>1, <2>3 DEF navigateFrom, Call
<1>8. ~Fires(d, calls)
  <2> SUFFICES ASSUME Fires(d, calls) PROVE FALSE
    OBVIOUS
  <2>1. PICK x \in Top.subs :
          calls = triggerElement(x) \o deleteSubscription(x) \o fireSignals(Top.subs \ {x})
    BY DEF Fires
  <2>2. Top.subs \in SUBSET Subscription
    BY TopOK
  <2>3. deleteSubscription(x) \in Seq(Frame) /\ fireSignals(Top.subs \ {x}) \in Seq(Frame)
    BY <2>2, SignalCallTypes
  <2> QED BY <2>1, <2>3, CallHeads
<1>9. Triggers(d, calls) => IsListener(calls[1].element)
  <2> SUFFICES ASSUME Triggers(d, calls) PROVE IsListener(calls[1].element)
    OBVIOUS
  <2>1. IsListener(Top.element)
    BY TopOK DEF Triggers, Running, FrameOK
  <2> QED BY <2>1 DEF Triggers, navigateFrom, Call
<1> QED BY <1>1, <1>2, <1>3, <1>4, <1>5, <1>6, <1>7, <1>8, <1>9 DEF Effect

\* Only takeSequenceFlow goes to a gateway, and it brings a token.
LEMMA GatewayEntered ==
    ASSUME StackInv, stack # <<>>, NEW d \in DB, NEW calls \in Seq(Frame), Effect(d, calls),
           calls # <<>>, calls[1].call = "navigateFrom",
           ElementType[calls[1].element] \in GatewayTypes
    PROVE  /\ Reaches(d, calls)
           /\ calls[1].instance = Top.instance
           /\ Moved(db, d, Top.instance, calls[1].element,
                    db.tokens[Top.instance][calls[1].element] + 1)
<1>1. Reaches(d, calls)
  BY WhereEntered DEF GatewayTypes, IsListener
<1>2. PICK g \in Elements, m \in Seq(Frame) :
         /\ Moved(db, d, Top.instance, g, db.tokens[Top.instance][g] + 1)
         /\ calls = navigateFrom(Top.instance, g) \o m
  BY <1>1 DEF Reaches
<1>3. calls[1].instance = Top.instance /\ calls[1].element = g
  BY <1>2, CallHeads
<1> QED BY <1>1, <1>2, <1>3

\* A handler that does well keeps the invariant.
LEMMA DoneStack ==
    ASSUME StackInv, TypeOK', stack # <<>>, NEW calls \in Seq(Frame),
           stack' = calls \o Rest, saved' = saved, Effect(db', calls)
    PROVE  StackInv'
<1>1. /\ db' \in DB /\ stack \in Seq(Frame) /\ FramesOK
      /\ saved # NoSnapshot => Linked(saved) /\ Forward(saved, db)
  BY DEF StackInv, TypeOK
<1>2. Linked(db') /\ CallsOK(calls, db') /\ Advances(db, db')
  BY <1>1, EffectLinked, EffectCalls, EffectAdvances
<1>3. \A h : Forward(h, db) => Forward(h, db')
  BY <1>2, AdvancingKeeps
<1>4. ASSUME NEW k \in 1..Len(stack')
      PROVE  /\ FrameOK(stack'[k], db')
             /\ stack'[k].call = "navigateFrom" => k = 1
  <2>1. CASE k <= Len(calls)
    <3>1. k \in 1..Len(calls) /\ stack'[k] = calls[k]
      BY <1>1, <2>1, StackAfter DEF Rest
    <3> QED BY <1>2, <3>1 DEF CallsOK
  <2>2. CASE k > Len(calls)
    <3> DEFINE j == k - Len(calls) + 1
    <3>1. j \in 2..Len(stack) /\ stack'[k] = stack[j]
      BY <1>1, <2>2, StackAfter DEF Rest
    <3>2. j \in 1..Len(stack) /\ j # 1 /\ stack[j] \in Frame
      BY <1>1, <3>1
    <3> HIDE DEF j
    <3>3. FrameOK(stack[j], db) /\ stack[j].call # "navigateFrom"
      BY <1>1, <3>2 DEF FramesOK
    <3>4. stack[j].call \in Onwards => stack[j].instance \in Instances
      BY <3>2 DEF Frame, Onwards
    <3>5. FrameOK(stack[j], db')
      BY <1>2, <3>3, <3>4, AdvancingKeeps DEF FrameOK
    <3> QED BY <3>1, <3>3, <3>5
  <2>3. k \in Nat /\ Len(calls) \in Nat
    BY <1>1, StackAfter DEF Rest
  <2> QED BY <2>1, <2>2, <2>3
<1>5. ASSUME NEW p \in Instances, NEW g \in Elements,
             Arriving(p, g)', ElementType[g] \in GatewayTypes
      PROVE  Underway(db', p) /\ db'.tokens[p][g] > 0
  <2>1. calls # <<>> /\ calls[1].call = "navigateFrom"
        /\ calls[1].instance = p /\ calls[1].element = g
    BY <1>5, Entered
  <2>2. /\ Reaches(db', calls) /\ p = Top.instance
        /\ Moved(db, db', p, g, db.tokens[p][g] + 1)
    BY <1>1, <1>5, <2>1, GatewayEntered
  <2>3. Underway(db, p)
    BY <2>2, TopOK DEF Reaches, Running, Onwards
  <2>4. db.tokens[p][g] \in Nat
    BY TopOK, CountValues
  <2> QED BY <1>2, <2>2, <2>3, <2>4, AdvancingKeeps DEF Moved, TokensAt
<1> QED BY <1>1, <1>2, <1>3, <1>4, <1>5 DEF StackInv, FramesOK, ArrivalOK

\* On an empty stack there is nothing to rely on.
LEMMA EmptyStackOK ==
    ASSUME stack' = <<>>
    PROVE  FramesOK' /\ ArrivalOK'
BY DEF FramesOK, ArrivalOK, Arriving, Running

\* A request that fails leaves the snapshot, or what it has written.
LEMMA FailedStack ==
    ASSUME StackInv, TypeOK', NEW d \in DB, Fail(d), Linked(d)
    PROVE  StackInv'
BY EmptyStackOK DEF StackInv, Fail

\* Neither does a handler that fails.
LEMMA LosesLinked ==
    ASSUME StackInv, NEW d \in DB, Loses(d)
    PROVE  Linked(d)
<1>1. Linked(db) /\ SameRows(db, d) /\ SameEvents(db, d)
  BY DEF StackInv, Loses
<1>2. ASSUME NEW p \in Instances, NEW e \in Elements, d.tokens[p][e] > 0
      PROVE  d.state[p] # "none"
  <2>1. d.tokens[p][e] = db.tokens[p][e]
    BY <1>2 DEF Loses
  <2> QED BY <1>1, <1>2, <2>1 DEF Linked, SameRows
<1> QED BY <1>1, <1>2 DEF Linked, SameRows, SameEvents

\* The end of a transaction.
LEMMA CommitStack ==
    ASSUME StackInv, TypeOK', Commit
    PROVE  StackInv'
<1>1. /\ stack \in Seq(Frame) /\ stack # <<>> /\ FramesOK
      /\ stack' = <<>> \o Rest /\ db' = db /\ saved' = NoSnapshot
  BY DEF StackInv, TypeOK, Commit, Running, Rest
<1>2. ASSUME NEW k \in 1..Len(stack')
      PROVE  FrameOK(stack'[k], db') /\ stack'[k].call # "navigateFrom"
  <2>1. <<>> \in Seq(Frame) /\ Len(<<>>) = 0 /\ k > 0 /\ k - 0 + 1 = k + 1
    OBVIOUS
  <2>2. k + 1 \in 2..Len(stack) /\ stack'[k] = stack[k + 1]
    BY <1>1, <2>1, StackAfter DEF Rest
  <2> QED BY <1>1, <2>2 DEF FramesOK
<1>3. ~Running("navigateFrom")'
  <2>1. stack' \in Seq(Frame)
    BY DEF TypeOK
  <2>2. stack' # <<>> => 1 \in 1..Len(stack') /\ Head(stack') = stack'[1]
    BY <2>1
  <2> QED BY <1>2, <2>2 DEF Running, Top
<1> QED BY <1>1, <1>2, <1>3 DEF StackInv, FramesOK, ArrivalOK, Arriving

\* The requests.
LEMMA ServedStack ==
    ASSUME StackInv, TypeOK', Served
    PROVE  StackInv'
<1>0. /\ db \in DB /\ db' \in DB /\ stack = <<>> /\ Linked(db)
      /\ saved # NoSnapshot => Linked(saved) /\ Forward(saved, db)
  BY DEF StackInv, TypeOK, Served
<1>1. ASSUME NEW p \in Instances, NEW e \in Elements, ElementType[e] \notin GatewayTypes,
             stack' = navigateFrom(p, e) \o commit, SavedIfPossible,
             Linked(db'), Forward(db, db')
      PROVE  StackInv'
  <2>1. CallsOK(stack', db')
    BY <1>1, CallsAreOK, CallsOKTwice, CallTypes, SignalCallTypes
  <2>2. ASSUME NEW q, NEW g, Arriving(q, g)' PROVE g = e
    <3>1. commit \in Seq(Frame)
      BY SignalCallTypes
    <3>2. Head(stack') = stack'[1] /\ stack'[1].element = e
      BY <1>1, <3>1, CallHeads
    <3> QED BY <2>2, <3>2 DEF Arriving, Top
  <2>3. saved' # NoSnapshot => Linked(saved') /\ Forward(saved', db')
    BY <1>0, <1>1 DEF SavedIfPossible
  <2> QED BY <1>1, <2>1, <2>2, <2>3 DEF StackInv, FramesOK, CallsOK, ArrivalOK
<1>2. ASSUME UNCHANGED <<stack, saved>>, Linked(db'), Forward(db, db') PROVE StackInv'
  <2>1. saved # NoSnapshot => Forward(saved, db')
    BY <1>0, <1>2 DEF Forward
  <2> QED BY <1>0, <1>2, <2>1, EmptyStackOK DEF StackInv
<1>3. CASE Starts
  <2>1. PICK p \in Instances, s \in Elements :
          /\ db.state[p] = "none"
          /\ Created(db, db', p, NoInstance, Zeros) /\ SameTokens(db, db')
          /\ ElementType[s] = "startEvent"
          /\ stack' = navigateFrom(p, s) \o commit /\ SavedIfPossible
    BY <1>3 DEF Starts
  <2>2. Forward(db, db')
    BY <2>1 DEF Forward, Created, StateAt
  <2>3. Linked(db')
    BY <1>0, <2>1 DEF Linked, Created, StateAt, SameEvents, SameTokens
  <2> QED BY <1>1, <2>1, <2>2, <2>3 DEF GatewayTypes
<1>4. CASE Completes
  <2>1. PICK p \in Instances, e \in Elements :
          /\ ElementType[e] = "userTask"
          /\ SameRows(db, db')
          /\ db'.subscriptions = {x \in db.subscriptions : x.instance # p}
          /\ TokensAt(db, db', p, e, OneLess(db.tokens[p][e]))
          /\ stack' = navigateFrom(p, e) \o commit /\ SavedIfPossible
    BY <1>4 DEF Completes
  <2>2. Forward(db, db')
    BY <2>1 DEF Forward, SameRows
  <2>3. ASSUME NEW q \in Instances, NEW x \in Elements, db'.tokens[q][x] > 0
        PROVE  db'.state[q] # "none"
    <3>1. db.tokens[q][x] \in Nat
      BY <1>0, CountValues
    <3>2. db.tokens[q][x] > 0
      BY <2>1, <2>3, <3>1 DEF TokensAt, OneLess
    <3> QED BY <1>0, <2>1, <3>2 DEF Linked, SameRows
  <2>4. Linked(db')
    BY <1>0, <2>1, <2>3 DEF Linked, SameRows
  <2> QED BY <1>1, <2>1, <2>2, <2>4 DEF GatewayTypes
<1>5. CASE Touches
  <2>1. Linked(db') /\ Forward(db, db')
    BY <1>0, <1>5 DEF Touches, Same, SameRows, SameEvents, SameTokens, Linked, Forward
  <2> QED BY <1>2, <1>5, <2>1 DEF Touches
<1>6. CASE Holds
  <2>1. Linked(db') /\ Forward(db, db')
    BY <1>0, <1>6 DEF Holds, StateAt, SameEvents, SameTokens, Linked, Forward
  <2> QED BY <1>2, <1>6, <2>1 DEF Holds
<1>7. CASE Terminates
  <2>1. Linked(db') /\ Forward(db, db')
    BY <1>0, <1>7 DEF Terminates, StateAt, SameEvents, Linked, Forward
  <2> QED BY <1>2, <1>7, <2>1 DEF Terminates
<1>8. CASE Alerts
  <2>1. PICK xs \in SUBSET db.subscriptions : stack' = fireSignals(xs)
    BY <1>8 DEF Alerts
  <2>2. xs \in SUBSET Subscription /\ \A x \in xs : IsListener(x.element)
    BY <1>0 DEF DB, Linked
  <2>3. CallsOK(stack', db') /\ NotEntered(stack') /\ stack' \in Seq(Frame)
    BY <2>1, <2>2, CallsAreOK, SignalCallTypes
  <2>4. ~Running("navigateFrom")'
    <3>1. stack' # <<>> => 1 \in 1..Len(stack') /\ Head(stack') = stack'[1]
      BY <2>3
    <3> QED BY <2>3, <3>1 DEF Running, Top, NotEntered
  <2> QED BY <1>0, <1>8, <2>3, <2>4
          DEF Alerts, StackInv, FramesOK, CallsOK, ArrivalOK, Arriving
<1> QED BY <1>3, <1>4, <1>5, <1>6, <1>7, <1>8 DEF Served

-----------------------------------------------------------------------------
(* Requests that are cut off keep the links, and never turn an ended instance *)
(* back.                                                                      *)

\* Tables a request may leave behind.
Torn(d) == d \in DB /\ Linked(d) /\ Forward(db, d)

\* f differs from d in tokens that are gone, or in an instance there is.
Keeping(d, f) ==
    /\ SameRows(d, f) /\ SameEvents(d, f)
    /\ \A q \in Instances, x \in Elements :
           f.tokens[q][x] > 0 => d.tokens[q][x] > 0 \/ d.state[q] # "none"

\* Such a difference keeps both.
LEMMA KeepingTorn ==
    ASSUME NEW d, NEW f \in DB, Torn(d), Keeping(d, f)
    PROVE  Torn(f)
BY DEF Torn, Keeping, Linked, Forward, SameRows, SameEvents

\* The calls on activities and variables make no difference to tokens.
LEMMA SameTorn ==
    ASSUME NEW d, NEW f \in DB, Torn(d), Same(d, f)
    PROVE  Torn(f)
BY KeepingTorn DEF Same, SameTokens, Keeping

\* Fewer tokens at an element.
LEMMA FewerTokens ==
    ASSUME NEW d, Torn(d), NEW p \in Instances, NEW e \in Elements,
           NEW n \in Nat, n <= d.tokens[p][e]
    PROVE  Torn(SetTokens(d, p, e, n))
<1>1. d \in DB /\ d.tokens \in [Instances -> PerElement]
  BY DEF Torn, DB
<1>2. SetTokens(d, p, e, n).tokens = [d.tokens EXCEPT ![p][e] = n]
  BY <1>1 DEF SetTokens, DB
<1>3. \A q \in Instances, x \in Elements :
          SetTokens(d, p, e, n).tokens[q][x] = IF q = p /\ x = e THEN n ELSE d.tokens[q][x]
  BY <1>1, <1>2, PointUpdate
<1>4. /\ SameRows(d, SetTokens(d, p, e, n))
      /\ SameEvents(d, SetTokens(d, p, e, n))
  BY <1>1 DEF SameRows, SameEvents, DB, SetTokens
<1>5. d.tokens[p][e] \in Nat /\ SetTokens(d, p, e, n) \in DB
  BY <1>1, CountValues, CountTypes
<1>6. \A q \in Instances, x \in Elements :
          SetTokens(d, p, e, n).tokens[q][x] > 0 => d.tokens[q][x] > 0
  BY <1>3, <1>5
<1> QED BY <1>4, <1>5, <1>6, KeepingTorn DEF Keeping

\* Loops over the tokens and activities of an element, finished or not.
LEMMA LoopsTorn ==
    ASSUME NEW d, Torn(d), NEW p \in Instances, NEW e \in Elements
    PROVE  /\ \A f \in SomeConsumed(d, p, e) : Torn(f)
           /\ \A f \in SomeCompleted(d, p, e) : Torn(f)
           /\ Torn(ConsumeOne(d, p, e)) /\ Torn(ConsumeAt(d, p, e))
           /\ Torn(CompleteOne(d, p, e)) /\ Torn(CompleteAt(d, p, e))
<1>1. d \in DB /\ d.tokens[p][e] \in Nat /\ d.active[p][e] \in Nat
  BY CountValues DEF Torn
<1>2. \A n \in 0..d.tokens[p][e] : n \in Nat /\ n <= d.tokens[p][e]
  BY <1>1
<1>3. \A f \in SomeConsumed(d, p, e) : Torn(f)
  BY <1>2, FewerTokens DEF SomeConsumed
<1>4. ASSUME NEW f \in SomeCompleted(d, p, e) PROVE Torn(f)
  <2>1. PICK n \in 0..d.active[p][e] : f = SetActive(d, p, e, n)
    BY DEF SomeCompleted
  <2>2. Same(d, SetActive(d, p, e, n))
    BY <1>1 DEF Same, SameRows, SameEvents, SameCounts, SameTokens, DB, SetActive
  <2>3. f \in DB
    BY <1>1, SomeTypes
  <2> QED BY <2>1, <2>2, <2>3, SameTorn
<1>5. OneLess(d.tokens[p][e]) \in Nat /\ OneLess(d.tokens[p][e]) <= d.tokens[p][e]
  BY <1>1 DEF OneLess
<1>6. Torn(ConsumeOne(d, p, e)) /\ Torn(ConsumeAt(d, p, e))
  BY <1>1, <1>5, FewerTokens DEF ConsumeOne, ConsumeAt
<1>7. Torn(CompleteOne(d, p, e)) /\ Torn(CompleteAt(d, p, e))
  BY <1>1, ActivityTypes, ActivityFields, SameTorn
<1> QED BY <1>3, <1>4, <1>6, <1>7

\* A token made in an instance there is.
LEMMA CreatedTorn ==
    ASSUME StackInv, NEW p \in Instances, NEW e \in Elements, db.state[p] # "none"
    PROVE  Torn(CreateToken(db, p, e)) /\ Torn(CreateTask(p, e))
<1>1. db \in DB /\ Torn(db)
  BY DEF StackInv, TypeOK, Torn, Forward
<1> DEFINE d == CreateToken(db, p, e)
<1>2. d \in DB /\ Moved(db, d, p, e, db.tokens[p][e] + 1)
  BY <1>1, TokenTypes, TokenFields
<1>3. Keeping(db, d)
  BY <1>2 DEF Moved, TokensAt, Keeping
<1> HIDE DEF d
<1>4. Torn(d)
  BY <1>1, <1>2, <1>3, KeepingTorn
<1>5. Torn(CreateActive(d, p, e)) /\ Torn(CreateUnclaimed(d, p, e))
  BY <1>2, <1>4, ActivityTypes, ActivityFields, SameTorn
<1> QED BY <1>4, <1>5 DEF CreateTask, d

\* navigateFrom.
LEMMA NavigateCutTorn ==
    ASSUME StackInv, NavigateCut
    PROVE  \E d : Torn(d) /\ CutAt(d)
<1> DEFINE p == Top.instance
           e == Top.element
<1>0. db \in DB /\ Torn(db)
  BY DEF StackInv, TypeOK, Torn, Forward
<1>1. p \in Instances /\ e \in Elements
  BY TopOK DEF NavigateCut, At, Running
<1>2. Torn(SetArrived(db, p, e, db.arrived[p][e] + 1))
  <2>1. db.arrived[p][e] + 1 \in Nat
    BY <1>0, <1>1, CountValues
  <2>2. SetArrived(db, p, e, db.arrived[p][e] + 1) \in DB
    BY <1>0, <1>1, <2>1, InstanceUpdateTypes
  <2>3. Keeping(db, SetArrived(db, p, e, db.arrived[p][e] + 1))
    BY <1>0, <1>1, <2>1, CounterFields DEF Keeping, SameTokens
  <2> QED BY <1>0, <2>2, <2>3, KeepingTorn
<1>3. \A c \in {db} \cup Joined(p, e) : Torn(c)
  BY <1>0, <1>2 DEF Joined
<1>4. \E c \in {db} \cup Joined(p, e) : \E d \in SomeConsumed(c, p, e) : Fail(d)
  BY DEF NavigateCut
<1> QED BY <1>1, <1>3, <1>4, LoopsTorn DEF CutAt

\* takeSequenceFlow, up to a task's subscriptions.
LEMMA TakeCutTorn ==
    ASSUME StackInv, TakeCut \/ AttachCut
    PROVE  \E d : Torn(d) /\ CutAt(d)
<1>0. stack # <<>> /\ Top.instance \in Instances /\ db.state[Top.instance] # "none"
  BY TopOK DEF TakeCut, AttachCut, Taking, Running, Onwards, Underway
<1>1. CASE TakeCut
  <2>1. PICK f \in Flows : Fail(CreateToken(db, Top.instance, TargetRef[f]))
    BY <1>1 DEF TakeCut
  <2> QED BY <1>0, <2>1, FlowsAssumption, CreatedTorn DEF CutAt
<1>2. CASE AttachCut
  <2>1. PICK f \in Flows, i \in SubscriptionIDs, es \in SUBSET Elements :
          /\ es \in SUBSET BoundarySignals(TargetRef[f])
          /\ ElementType[TargetRef[f]] = "userTask"
          /\ Fail(CreateSubscriptions(CreateTask(Top.instance, TargetRef[f]),
                                      Top.instance, es, i))
    BY <1>2 DEF AttachCut, BoundarySignals, Taking
  <2> DEFINE created == CreateTask(Top.instance, TargetRef[f])
             d == CreateSubscriptions(created, Top.instance, es, i)
  <2>2. Torn(created)
    BY <1>0, FlowsAssumption, CreatedTorn
  <2> HIDE DEF created
  <2>4. d \in DB
    BY <1>0, <2>1, <2>2, SubscriptionTypes DEF Torn
  <2>5. /\ SameRows(created, d) /\ SameTokens(created, d)
        /\ d.subscriptions = created.subscriptions \cup NewSubscriptions(Top.instance, es, i)
    BY <1>0, <2>2, SubscriptionFields DEF Torn
  <2>6. \A x \in NewSubscriptions(Top.instance, es, i) : IsListener(x.element)
    BY <2>1, FlowsAssumption DEF NewSubscriptions, BoundarySignals, IsListener
  <2> HIDE DEF d
  <2>7. Torn(d)
    BY <2>2, <2>4, <2>5, <2>6 DEF Torn, Linked, Forward, SameRows, SameTokens
  <2> QED BY <2>1, <2>7 DEF CutAt, d, created
<1> QED BY <1>1, <1>2

\* A child that was created and never ran.
LEMMA CallCutTorn ==
    ASSUME StackInv, CallCut
    PROVE  \E d : Torn(d) /\ CutAt(d)
<1>1. PICK f \in Flows, c \in Instances \ Roots :
        /\ Calling(f, c)
        /\ \/ Fail(CreateChild(c, Top.instance, TargetRef[f]))
           \/ Fail(CreateActive(CreateChild(c, Top.instance, TargetRef[f]),
                                Top.instance, TargetRef[f]))
  BY DEF CallCut
<1> DEFINE p == Top.instance
           e == TargetRef[f]
           child == CreateChild(c, p, e)
<1>2. /\ p \in Instances /\ e \in Elements
      /\ ElementType[e] = "callActivity" /\ CalledElement[e] # NoDefinition
      /\ db.state[c] = "none"
  BY <1>1, TopOK, FlowsAssumption DEF Calling, Taking, Running, Onwards
<1>3. child \in DB
  BY <1>2, ChildType DEF StackInv
<1>4. db \in DB /\ Linked(db)
  BY DEF StackInv, TypeOK
<1>5. \E counts : /\ Created(db, child, c, [instance |-> p, element |-> e], counts)
                  /\ SameTokens(db, child)
  BY <1>4, CreateFields DEF CreateChild
<1> HIDE DEF child
<1>6. Torn(child)
  BY <1>2, <1>3, <1>4, <1>5
     DEF Created, StateAt, SameEvents, SameTokens, Torn, Linked, Forward
<1>7. Torn(CreateActive(child, p, e))
  BY <1>2, <1>3, <1>6, ActivityTypes, ActivityFields, SameTorn
<1> QED BY <1>1, <1>6, <1>7 DEF CutAt, child

\* An instance that has completed without its caller being told.
LEMMA CompletionCutTorn ==
    ASSUME StackInv, CompletionCut
    PROVE  \E d : Torn(d) /\ CutAt(d)
<1> DEFINE p == Top.instance
           completed == SetState(db, p, "completed")
           by == db.caller[p]
<1>1. db \in DB /\ Linked(db) /\ p \in Instances /\ Underway(db, p)
  BY TopOK DEF CompletionCut, Running, Onwards, StackInv, TypeOK
<1>2. completed \in DB
  BY <1>1, InstanceUpdateTypes
<1>3. by.instance \in Instances /\ by.element \in Elements
  BY <1>1 DEF CompletionCut, DB, Caller
<1>4. Torn(completed)
  <2>1. /\ StateAt(db, completed, p, "completed") /\ completed.caller = db.caller
        /\ SameEvents(db, completed) /\ SameTokens(db, completed)
    BY <1>1, RowFields
  <2> HIDE DEF completed
  <2> QED BY <1>1, <1>2, <2>1
          DEF StateAt, SameEvents, SameTokens, Torn, Linked, Forward, Underway
<1>5. \/ Fail(completed)
      \/ \E d \in SomeCompleted(ConsumeOne(completed, by.instance, by.element),
                                by.instance, by.element) : Fail(d)
  BY DEF CompletionCut
<1> HIDE DEF completed, by
<1> QED BY <1>3, <1>4, <1>5, LoopsTorn DEF CutAt

\* An interruption.
LEMMA TriggerCutTorn ==
    ASSUME StackInv, TriggerCut
    PROVE  \E d : Torn(d) /\ CutAt(d)
<1> DEFINE p == Top.instance
           e == Top.element
           a == AttachedToRef[e]
<1>1. Torn(db) /\ p \in Instances /\ e \in Elements
  BY TopOK DEF TriggerCut, Running, StackInv, TypeOK, Torn, Forward
<1>2. Interrupts(e) => a \in Elements
  BY <1>1, ElementsAssumption DEF Interrupts
<1>3. Interrupts(e) => Torn(ConsumeAt(db, p, a))
  BY <1>1, <1>2, LoopsTorn
<1>4. Torn(Interrupt(p, e))
  BY <1>1, <1>2, <1>3, LoopsTorn DEF Interrupt
<1>5. \/ Interrupts(e) /\ \E d \in SomeConsumed(db, p, a) : Fail(d)
      \/ Interrupts(e) /\ \E d \in SomeCompleted(ConsumeAt(db, p, a), p, a) : Fail(d)
      \/ \E d \in SomeConsumed(Interrupt(p, e), p, e) : Fail(d)
  BY DEF TriggerCut
<1> HIDE DEF a
<1> QED BY <1>1, <1>2, <1>3, <1>4, <1>5, LoopsTorn DEF CutAt

\* Completing a task and terminating an instance.
LEMMA RequestCutTorn ==
    ASSUME StackInv, CompleteTaskCut \/ TerminateCut
    PROVE  \E d : Torn(d) /\ CutAt(d)
<1>0. db \in DB /\ Torn(db)
  BY DEF StackInv, TypeOK, Torn, Forward
<1>1. CASE CompleteTaskCut
  <2>1. PICK p \in Instances, e \in Elements, vals \in Values :
          LET merged == SetVariables(CompleteOne(db, p, e), p, vals)
          IN  Quiescent /\ \E d \in {CompleteOne(db, p, e), merged, ConsumeOne(merged, p, e)} :
                  Write(IF Transactional THEN db ELSE d)
    BY <1>1 DEF CompleteTaskCut, Receive
  <2> DEFINE done == CompleteOne(db, p, e)
             merged == SetVariables(done, p, vals)
  <2>2. Torn(done)
    BY <1>0, LoopsTorn
  <2>3. Torn(merged)
    <3> HIDE DEF done
    <3>1. done \in DB
      BY <2>2 DEF Torn
    <3>2. merged \in DB /\ Same(done, merged)
      BY <3>1, InstanceUpdateTypes, ActivityFields
    <3> HIDE DEF merged
    <3> QED BY <2>2, <3>2, SameTorn
  <2>4. Torn(ConsumeOne(merged, p, e))
    <3> HIDE DEF merged
    <3> QED BY <2>3, LoopsTorn
  <2> QED BY <1>0, <2>1, <2>2, <2>3, <2>4 DEF CutAt
<1>2. CASE TerminateCut
  <2>1. PICK p \in Instances :
          \/ \E left \in Remaining(db.tokens[p]) : Write([db EXCEPT !.tokens[p] = left])
          \/ \E left \in Remaining(db.active[p]) :
                 Write([ConsumeAll(db, p) EXCEPT !.active[p] = left])
    BY <1>2 DEF TerminateCut
  <2>2. db.tokens[p] \in PerElement /\ db.active[p] \in PerElement
    BY <1>0 DEF DB
  <2>3. ASSUME NEW left \in PerElement, \A x \in Elements : left[x] <= db.tokens[p][x]
        PROVE  Torn([db EXCEPT !.tokens[p] = left])
    <3> DEFINE d == [db EXCEPT !.tokens[p] = left]
    <3>1. d \in DB /\ SameRows(db, d) /\ SameEvents(db, d)
      BY <1>0 DEF DB, SameRows, SameEvents
    <3>2. /\ d.tokens[p] = left
          /\ \A q \in Instances : q # p => d.tokens[q] = db.tokens[q]
      BY <1>0 DEF DB
    <3> HIDE DEF d
    <3>3. \A x \in Elements : left[x] > 0 => db.tokens[p][x] > 0
      BY <2>2, <2>3
    <3>4. Keeping(db, d)
      BY <3>1, <3>2, <3>3 DEF Keeping
    <3>5. Torn(d)
      BY <1>0, <3>1, <3>4, KeepingTorn
    <3> QED BY <3>5 DEF d
  <2>4. ConsumeAll(db, p) \in DB /\ Torn(ConsumeAll(db, p))
    <3>1. ConsumeAll(db, p) = [db EXCEPT !.tokens[p] = Zeros]
      BY DEF ConsumeAll
    <3>2. Zeros \in PerElement /\ \A x \in Elements : Zeros[x] <= db.tokens[p][x]
      BY <2>2 DEF Zeros
    <3> QED BY <2>3, <3>1, <3>2 DEF Torn
  <2>5. ASSUME NEW left \in PerElement
        PROVE  Torn([ConsumeAll(db, p) EXCEPT !.active[p] = left])
    <3> DEFINE c == ConsumeAll(db, p)
               d == [c EXCEPT !.active[p] = left]
    <3> HIDE DEF c
    <3>1. d \in DB /\ Same(c, d)
      BY <2>4 DEF DB, Same, SameRows, SameEvents, SameCounts, SameTokens, c
    <3> HIDE DEF d
    <3>2. Torn(d)
      BY <2>4, <3>1, SameTorn DEF c
    <3> QED BY <3>2 DEF d, c
  <2>6. Quiescent
    BY <1>2 DEF TerminateCut, Receive
  <2> QED BY <2>1, <2>2, <2>3, <2>5, <2>6, RemainingType DEF CutAt
<1> QED BY <1>1, <1>2

\* Wherever a request fails.
LEMMA FailTorn ==
    ASSUME StackInv, RequestFails
    PROVE  \E d : Torn(d) /\ CutAt(d)
<1>1. CASE Fail(db)
  BY <1>1 DEF StackInv, TypeOK, Torn, Forward, CutAt
<1> QED BY <1>1, NavigateCutTorn, TakeCutTorn, CallCutTorn, CompletionCutTorn, TriggerCutTorn,
           RequestCutTorn DEF RequestFails, HandlerCut

\* A request that fails leaves nothing to be done.
LEMMA RequestEnds ==
    ASSUME StackInv, RequestFails
    PROVE  stack' = <<>>
BY FailTorn DEF CutAt, Fail, Write, Quiescent

\* StackInv is inductive.
LEMMA StackStep ==
    ASSUME StackInv, TypeOK', [Next]_allVars
    PROVE  StackInv'
<1>1. CASE UNCHANGED allVars
  BY <1>1 DEF allVars, StackInv, FramesOK, ArrivalOK, Arriving, Running, Top
<1>2. CASE Next
  <2>1. Happens
    BY <1>2, NextEffect DEF StackInv
  <2>2. CASE Handled
    <3>1. stack # <<>> \/ \E d \in DB : Fail(d) /\ Loses(d)
      BY <2>2 DEF Handled, Effect, Stops, Passes, Waits, Rests, Runs, Reaches, Throws, Spawns,
             Ends, Fires, Unsubscribes, Triggers, Running
    <3> QED BY <2>2, <3>1, DoneStack, FailedStack, LosesLinked DEF Handled
  <2>3. CASE RequestFails
    <3>1. PICK d : Torn(d) /\ CutAt(d)
      BY <2>3, FailTorn
    <3>2. CASE Fail(d)
      BY <3>1, <3>2, FailedStack DEF Torn
    <3>3. CASE Quiescent /\ Write(d)
      <4>1. saved # NoSnapshot => Linked(saved) /\ Forward(saved, d)
        BY <3>1 DEF StackInv, Torn, Forward
      <4> QED BY <3>1, <3>3, <4>1, EmptyStackOK DEF Torn, Write, Quiescent, StackInv
    <3> QED BY <3>1, <3>2, <3>3 DEF CutAt
  <2> QED BY <2>1, <2>2, <2>3, ServedStack, CommitStack DEF Happens
<1> QED BY <1>1, <1>2

\* The call stack is what the calls on it rely on, in every definition.
THEOREM StackCorrect == Spec => []StackInv
<1>1. Init /\ TypeOK => StackInv
  BY DEF Init, StackInv, EmptyDB, Zeros, Linked, FramesOK, ArrivalOK, Arriving, Running
<1>2. StackInv /\ TypeOK' /\ [Next]_allVars => StackInv'
  BY StackStep
<1> QED BY <1>1, <1>2, TypeCorrect, PTL DEF Spec

\* What the outside can see only goes forward.
LEMMA CommittedForward ==
    ASSUME StackInv, TypeOK', Next
    PROVE  Forward(Committed, Committed')
<1>1. /\ db \in DB /\ db # NoSnapshot
      /\ Forward(Committed, db) /\ Forward(Committed, Committed)
  BY EngineAssumption DEF StackInv, TypeOK, Committed, Forward
<1>2. ASSUME NEW d, Forward(db, d) PROVE Forward(Committed, d)
  BY <1>1, <1>2 DEF Forward
<1>3. Happens
  BY NextEffect DEF StackInv
<1>4. CASE Served
  <2>1. CASE Starts \/ Completes
    <3>1. Forward(db, db')
      BY <2>1 DEF Starts, Completes, Created, StateAt, SameRows, Forward
    <3>2. Committed' = db \/ Committed' = db'
      BY <1>1, <2>1 DEF Starts, Completes, SavedIfPossible, Committed
    <3> QED BY <1>1, <1>2, <3>1, <3>2
  <2>2. CASE Touches \/ Holds \/ Terminates \/ Alerts
    <3>1. Forward(db, db')
      BY <2>2 DEF Touches, Holds, Terminates, Alerts, StateAt, Same, SameRows, Forward
    <3>2. Committed' = Committed \/ Committed' = db'
      BY <2>2 DEF Touches, Holds, Terminates, Alerts, Committed
    <3> QED BY <1>1, <1>2, <3>1, <3>2
  <2> QED BY <1>4, <2>1, <2>2 DEF Served
<1>5. ASSUME NEW d, Fail(d), SameRows(db, d) PROVE Forward(Committed, Committed')
  <2>1. Committed' = Committed \/ Committed' = d
    BY <1>5 DEF Fail, Committed
  <2>2. Forward(db, d)
    BY <1>5 DEF SameRows, Forward
  <2> QED BY <1>1, <1>2, <2>1, <2>2
<1>6. CASE Handled
  <2>1. CASE \E d \in DB : Fail(d) /\ Loses(d)
    BY <1>5, <2>1 DEF Loses
  <2>2. CASE \E calls \in Seq(Frame) : saved' = saved /\ Effect(db', calls)
    <3>1. stack # <<>>
      BY <2>2 DEF Effect, Stops, Passes, Waits, Rests, Runs, Reaches, Throws, Spawns,
             Ends, Fires, Unsubscribes, Triggers, Running
    <3>2. Forward(db, db')
      BY <2>2, <3>1, EffectAdvances, AdvancingKeeps DEF Forward
    <3>3. Committed' = Committed \/ Committed' = db'
      BY <2>2 DEF Committed
    <3> QED BY <1>1, <1>2, <3>2, <3>3
  <2> QED BY <1>6, <2>1, <2>2 DEF Handled
<1>7. CASE Commit
  BY <1>1, <1>7 DEF Commit, Committed
<1>8. CASE RequestFails
  <2>1. PICK d : Torn(d) /\ CutAt(d)
    BY <1>8, FailTorn
  <2>2. Committed' = Committed \/ Committed' = d
    BY <2>1 DEF CutAt, Fail, Write, Committed
  <2> QED BY <1>1, <1>2, <2>1, <2>2 DEF Torn
<1> QED BY <1>3, <1>4, <1>6, <1>7, <1>8 DEF Happens

\* An ended instance stays as it ended, in any set of definitions, with any mix
\* of requests, with or without transactions and crashes: checkComplete only
\* completes instances that takeSequenceFlow or navigateFrom found running, and
\* a rollback only takes back what nobody has seen.
THEOREM EndedStaysEnded == Spec => EndedIsFinal
<1>1. StackInv /\ TypeOK' /\ [Next]_allVars
        => [\A p \in Instances : Committed.state[p] \in EndedStates =>
               Committed'.state[p] = Committed.state[p]]_allVars
  BY CommittedForward DEF Forward
<1> QED BY <1>1, StackCorrect, TypeCorrect, PTL DEF Spec, EndedIsFinal

-----------------------------------------------------------------------------
(* Requests that are undone as a whole. *)

\* Every request that navigates runs in a transaction of a store that has them,
\* and no termination, which never runs in one, is cut off.
Recoverable ==
    /\ Transactional
    /\ "signal" \notin Requests
    /\ MaxFaults = 0 \/ "terminate" \notin Requests

\* While a request is served there is a snapshot to go back to, and committing
\* is the last thing it does.
OpenInv ==
    stack # <<>> =>
        /\ saved # NoSnapshot
        /\ \A k \in 1..Len(stack) : stack[k].call = "commit" <=> k = Len(stack)

NoCommit(calls) == \A k \in 1..Len(calls) : calls[k].call # "commit"

\* Two lists of calls in turn.
LEMMA NoCommitTwice ==
    ASSUME NEW m \in Seq(Frame), NEW n \in Seq(Frame), NoCommit(m), NoCommit(n)
    PROVE  NoCommit(m \o n)
BY DEF NoCommit

\* None of the calls the handlers make is a commit.
LEMMA CallsDoNotCommit ==
    /\ NoCommit(<<>>)
    /\ \A p, e : NoCommit(navigateFrom(p, e))
    /\ \A m, p : GoesOn(m, p) => NoCommit(m)
    /\ \A x : NoCommit(triggerElement(x)) /\ NoCommit(deleteSubscription(x))
    /\ \A xs : NoCommit(fireSignals(xs))
<1> USE DEF NoCommit, Call
<1>1. NoCommit(<<>>)
  OBVIOUS
<1>2. ASSUME NEW p, NEW e PROVE NoCommit(navigateFrom(p, e))
  BY DEF navigateFrom
<1>3. ASSUME NEW m, NEW p, GoesOn(m, p) PROVE NoCommit(m)
  BY <1>3 DEF GoesOn, Onwards
<1>4. ASSUME NEW x PROVE NoCommit(triggerElement(x)) /\ NoCommit(deleteSubscription(x))
  BY DEF triggerElement, deleteSubscription
<1>5. ASSUME NEW xs PROVE NoCommit(fireSignals(xs))
  BY DEF fireSignals
<1> QED BY <1>1, <1>2, <1>3, <1>4, <1>5

\* Handlers do not commit.
LEMMA EffectDoesNotCommit ==
    ASSUME StackInv, stack # <<>>, NEW d, NEW calls \in Seq(Frame), Effect(d, calls)
    PROVE  NoCommit(calls) /\ Top.call # "commit"
<1>1. Top.call # "commit"
  BY DEF Effect, Stops, Passes, Waits, Rests, Runs, Reaches, Throws, Spawns, Ends, Fires,
         Unsubscribes, Triggers, Running
<1>2. CASE \/ Stops(d, calls) \/ Passes(d, calls) \/ Waits(d, calls) \/ Rests(d, calls)
           \/ Ends(d, calls) \/ Unsubscribes(d, calls) \/ Triggers(d, calls)
  BY <1>1, <1>2, CallsDoNotCommit
     DEF Stops, Passes, Waits, Rests, Ends, Unsubscribes, Triggers
<1>3. CASE Runs(d, calls) \/ Reaches(d, calls) \/ Spawns(d, calls)
  <2>1. PICK q \in Instances, e \in Elements, m \in Seq(Frame) :
          GoesOn(m, Top.instance) /\ calls = navigateFrom(q, e) \o m
    BY <1>3, TopOK DEF Runs, Reaches, Spawns, Running, Onwards
  <2> QED BY <1>1, <2>1, CallsDoNotCommit, CallTypes, NoCommitTwice
<1>4. CASE Throws(d, calls)
  <2>1. PICK xs \in SUBSET db.subscriptions, m \in Seq(Frame) :
          GoesOn(m, Top.instance) /\ calls = fireSignals(xs) \o m
    BY <1>4 DEF Throws
  <2>2. fireSignals(xs) \in Seq(Frame)
    BY TopOK, SignalCallTypes DEF DB
  <2> QED BY <1>1, <2>1, <2>2, CallsDoNotCommit, NoCommitTwice
<1>5. CASE Fires(d, calls)
  <2>1. PICK x \in Top.subs :
          calls = triggerElement(x) \o deleteSubscription(x) \o fireSignals(Top.subs \ {x})
    BY <1>5 DEF Fires
  <2>2. Top.subs \in SUBSET Subscription
    BY TopOK
  <2>3. /\ triggerElement(x) \in Seq(Frame) /\ deleteSubscription(x) \in Seq(Frame)
        /\ fireSignals(Top.subs \ {x}) \in Seq(Frame)
    BY <2>2, SignalCallTypes
  <2>4. /\ NoCommit(triggerElement(x) \o deleteSubscription(x))
        /\ triggerElement(x) \o deleteSubscription(x) \in Seq(Frame)
    BY <2>3, CallsDoNotCommit, NoCommitTwice, CallsType
  <2> QED BY <1>1, <2>1, <2>3, <2>4, CallsDoNotCommit, NoCommitTwice
<1> QED BY <1>1, <1>2, <1>3, <1>4, <1>5 DEF Effect

\* Where the calls of two lists stand,
LEMMA CallsInOrder ==
    ASSUME NEW m \in Seq(Frame), NEW n \in Seq(Frame)
    PROVE  \A k \in 1..(Len(m) + Len(n)) :
               (m \o n)[k] = IF k <= Len(m) THEN m[k] ELSE n[k - Len(m)]
<1>1. Len(m) \in Nat /\ Len(n) \in Nat
  OBVIOUS
<1> QED BY <1>1

\* and of two single calls.
LEMMA TwoCalls ==
    ASSUME NEW m \in Seq(Frame), NEW n \in Seq(Frame), Len(m) = 1, Len(n) = 1
    PROVE  Len(m \o n) = 2 /\ (m \o n)[1] = m[1] /\ (m \o n)[2] = n[1]
<1>1. \A k \in 1..(Len(m) + Len(n)) :
         (m \o n)[k] = IF k <= Len(m) THEN m[k] ELSE n[k - Len(m)]
  BY CallsInOrder
<1>2. Len(m \o n) = Len(m) + Len(n) /\ 1 \in 1..(1 + 1) /\ 2 \in 1..(1 + 1)
  OBVIOUS
<1>3. (m \o n)[1] = m[1]
  BY <1>1, <1>2
<1>4. (m \o n)[2] = n[2 - 1]
  BY <1>1, <1>2
<1> QED BY <1>2, <1>3, <1>4

\* OpenInv is inductive.
LEMMA OpenStep ==
    ASSUME Recoverable, StackInv, OpenInv, TypeOK', [Next]_allVars
    PROVE  OpenInv'
<1>0. db \in DB /\ db # NoSnapshot /\ stack \in Seq(Frame)
  BY EngineAssumption DEF StackInv, TypeOK
<1>1. CASE UNCHANGED allVars
  BY <1>1 DEF allVars, OpenInv
<1>2. CASE Next
  <2>1. Happens
    BY <1>2, NextEffect DEF StackInv
  <2>2. CASE Served
    <3>1. CASE Starts \/ Completes
      <4>1. PICK p \in Instances, e \in Elements :
              stack' = navigateFrom(p, e) \o commit /\ saved' = db
        BY <3>1 DEF Starts, Completes, SavedIfPossible, Recoverable
      <4>2. /\ navigateFrom(p, e) \in Seq(Frame) /\ Len(navigateFrom(p, e)) = 1
            /\ navigateFrom(p, e)[1].call = "navigateFrom"
            /\ commit \in Seq(Frame) /\ Len(commit) = 1 /\ commit[1].call = "commit"
        <5>1. navigateFrom(p, e) \in Seq(Frame) /\ commit \in Seq(Frame)
          BY CallTypes, SignalCallTypes
        <5>2. Len(navigateFrom(p, e)) = 1 /\ navigateFrom(p, e)[1].call = "navigateFrom"
          BY DEF navigateFrom, Call
        <5>3. Len(commit) = 1 /\ commit[1].call = "commit"
          BY DEF commit, Call
        <5> QED BY <5>1, <5>2, <5>3
      <4>3. Len(stack') = 2 /\ stack'[1].call # "commit" /\ stack'[2].call = "commit"
        BY <4>1, <4>2, TwoCalls
      <4> QED BY <1>0, <4>1, <4>3 DEF OpenInv
    <3>2. CASE Touches \/ Holds \/ Terminates
      BY <2>2, <3>2 DEF Served, Touches, Holds, Terminates, OpenInv
    <3> QED BY <2>2, <3>1, <3>2 DEF Served, Alerts, Recoverable
  <2>3. CASE \E d : Fail(d)
    BY <2>3 DEF Fail, OpenInv
  <2>4. ASSUME NEW calls \in Seq(Frame), stack' = calls \o Rest, saved' = saved,
               Effect(db', calls)
        PROVE  OpenInv'
    <3>1. stack # <<>>
      BY <2>4 DEF Effect, Stops, Passes, Waits, Rests, Runs, Reaches, Throws, Spawns,
             Ends, Fires, Unsubscribes, Triggers, Running
    <3>2. NoCommit(calls) /\ Top.call # "commit"
      BY <2>4, <3>1, EffectDoesNotCommit
    <3>3. 1 \in 1..Len(stack) /\ Top = stack[1]
      BY <1>0, <3>1 DEF Top
    <3>4. Len(stack) > 1 /\ saved # NoSnapshot
          /\ \A k \in 1..Len(stack) : stack[k].call = "commit" <=> k = Len(stack)
      BY <1>0, <3>1, <3>2, <3>3 DEF OpenInv
    <3>5. /\ Len(stack') = Len(calls) + Len(stack) - 1
          /\ \A k \in 1..Len(calls) : stack'[k] = calls[k]
          /\ \A k \in 1..Len(stack') : k > Len(calls) =>
                 /\ k - Len(calls) + 1 \in 2..Len(stack)
                 /\ stack'[k] = stack[k - Len(calls) + 1]
      BY <1>0, <2>4, <3>1, StackAfter DEF Rest
    <3>6. ASSUME NEW k \in 1..Len(stack')
          PROVE  stack'[k].call = "commit" <=> k = Len(stack')
      <4>0. k \in Nat /\ Len(calls) \in Nat /\ Len(stack) \in Nat
        BY <1>0, <3>5
      <4>1. CASE k <= Len(calls)
        <5>1. k \in 1..Len(calls) /\ k # Len(stack')
          BY <3>4, <3>5, <4>0, <4>1
        <5> QED BY <3>2, <3>5, <5>1 DEF NoCommit
      <4>2. CASE k > Len(calls)
        <5>1. /\ k - Len(calls) + 1 \in 1..Len(stack)
              /\ stack'[k] = stack[k - Len(calls) + 1]
              /\ k = Len(stack') <=> k - Len(calls) + 1 = Len(stack)
          BY <3>5, <4>0, <4>2
        <5> QED BY <3>4, <5>1
      <4> QED BY <4>0, <4>1, <4>2
    <3> QED BY <2>4, <3>4, <3>6 DEF OpenInv
  <2>6. CASE RequestFails
    <3>1. (\E d : Fail(d)) \/ UNCHANGED <<stack, saved>>
      BY <2>6, FailTorn DEF CutAt, Write
    <3> QED BY <2>3, <3>1 DEF OpenInv
  <2>5. CASE Commit
    <3>1. 1 \in 1..Len(stack) /\ stack[1].call = "commit" /\ stack' = Tail(stack) /\ stack # <<>>
      BY <1>0, <2>5 DEF Commit, Running, Top, Rest
    <3>2. Len(stack) = 1
      BY <3>1 DEF OpenInv
    <3>3. stack' = <<>>
      BY <1>0, <3>1, <3>2
    <3> QED BY <3>3 DEF OpenInv
  <2> QED BY <2>1, <2>2, <2>3, <2>4, <2>5, <2>6 DEF Happens, Handled
<1> QED BY <1>1, <1>2

\* OpenInv in every state.
LEMMA OpenCorrect == Spec => [](Recoverable => OpenInv)
<1> DEFINE Open == Recoverable => OpenInv
<1>1. Init => Open
  BY DEF Init, OpenInv
<1>2. StackInv /\ Open /\ TypeOK' /\ [Next]_allVars => Open'
  BY OpenStep DEF Recoverable
<1> QED BY <1>1, <1>2, StackCorrect, TypeCorrect, PTL DEF Spec

\* If every request that navigates runs in a transaction, a request that fails
\* always finds the tables it started from.
THEOREM RequestsAreUndone == ASSUME Recoverable PROVE Spec => []OpenInv
<1>1. (Recoverable => OpenInv) => OpenInv
  OBVIOUS
<1> QED BY <1>1, OpenCorrect, PTL

\* Nothing is left half done: no request dies, or all of them are undone.
Undisturbed == MaxFaults = 0 \/ Recoverable

\* Then a request that dies goes back to its snapshot, or has done nothing.
LEMMA FailuresUndone ==
    ASSUME Undisturbed, StackInv, Recoverable => OpenInv, RequestFails
    PROVE  \/ stack # <<>> /\ saved # NoSnapshot /\ Fail(db)
           \/ UNCHANGED <<db, stack, saved>>
<1>1. Transactional /\ "terminate" \notin Requests /\ OpenInv
  <2>1. faults \in Nat /\ faults < MaxFaults
    BY DEF RequestFails, StackInv, TypeOK
  <2>2. MaxFaults # 0
    BY <2>1
  <2> QED BY <2>2 DEF Undisturbed, Recoverable
<1>2. CASE stack # <<>>
  <2>1. PICK d : Fail(d)
    BY <1>2, FailTorn DEF CutAt, Quiescent
  <2>2. saved # NoSnapshot
    BY <1>1, <1>2 DEF OpenInv
  <2> QED BY <1>2, <2>1, <2>2 DEF Fail
<1>3. CASE stack = <<>>
  <2>1. ~HandlerCut /\ ~TerminateCut
    BY <1>1, <1>3 DEF HandlerCut, NavigateCut, At, TakeCut, AttachCut, Taking, CallCut, Calling,
           CompletionCut, TriggerCut, Running, TerminateCut, Receive
  <2>2. CompleteTaskCut
    BY <1>3, <2>1 DEF RequestFails, Quiescent
  <2> QED BY <1>1, <2>2 DEF CompleteTaskCut, Write
<1> QED BY <1>2, <1>3

-----------------------------------------------------------------------------
(* Joins. *)

\* A join never holds as many arrivals as it waits for, in any definition, where
\* no request dies half way or all of them are undone: handleParallelGateway
\* resets the counter after it has counted the last token (JoinNeverFull).
THEOREM JoinsNeverFull ==
    ASSUME Undisturbed
    PROVE  Spec => []JoinNeverFull
<1> DEFINE Open == Recoverable => OpenInv
<1>1. Init /\ TypeOK => JoinInv
  BY CountIsPositive DEF Init, JoinInv, Bounded, EmptyDB, Zeros
<1>2. StackInv /\ Open /\ JoinInv /\ TypeOK' /\ [Next]_allVars => JoinInv'
  <2> SUFFICES ASSUME StackInv, Open, JoinInv, TypeOK', [Next]_allVars PROVE JoinInv'
    OBVIOUS
  <2>1. CASE UNCHANGED allVars
    BY <2>1 DEF JoinInv, Bounded, allVars
  <2>2. CASE Next
    <3>1. RequestFails => Undone
      BY FailuresUndone DEF Undone
    <3> QED BY <2>2, <3>1, NextBounded DEF JoinInv, BoundsKept, Bounded
  <2> QED BY <2>1, <2>2
<1>3. JoinInv => JoinNeverFull
  BY DEF JoinInv, Bounded, JoinNeverFull
<1> QED BY <1>1, <1>2, <1>3, OpenCorrect, StackCorrect, TypeCorrect, PTL DEF Spec

\* Counters and tokens agree at p's join g, up to a token that just arrived.
AgreesAt(d, p, g) ==
    (Live(d, p) /\ IsJoin(g)) =>
        d.tokens[p][g] = d.arrived[p][g] + (IF Arriving(p, g) THEN 1 ELSE 0)

\* And in tables nobody is working on.
Agrees(d) ==
    \A p \in Instances, g \in Elements :
        (Live(d, p) /\ IsJoin(g)) => d.tokens[p][g] = d.arrived[p][g]

AgreeInv ==
    /\ \A p \in Instances, g \in Elements : AgreesAt(db, p, g)
    /\ saved # NoSnapshot => Agrees(saved)

\* Handlers at a gateway or anywhere else.
LEMMA EffectAgrees ==
    ASSUME NothingInherited, StackInv, AgreeInv, TypeOK', stack # <<>>,
           NEW calls \in Seq(Frame), stack' = calls \o Rest, Effect(db', calls),
           NEW p \in Instances, NEW g \in Elements, IsJoin(g), Live(db', p)
    PROVE  db'.tokens[p][g] = db'.arrived[p][g] + (IF Arriving(p, g)' THEN 1 ELSE 0)
<1> DEFINE top == Top.instance
<1>0. /\ db \in DB /\ db' \in DB /\ Linked(db) /\ ArrivalOK
      /\ ElementType[g] \in GatewayTypes /\ ElementType[g] = "parallelGateway"
  BY DEF StackInv, TypeOK, IsJoin, GatewayTypes
<1>1. db.tokens[p][g] \in Nat /\ db.arrived[p][g] \in Nat
  BY <1>0, CountValues
<1>2. Live(db, p) =>
        db.tokens[p][g] = db.arrived[p][g] + (IF Arriving(p, g) THEN 1 ELSE 0)
  BY DEF AgreeInv, AgreesAt
<1>3. Arriving(p, g)' => /\ Reaches(db', calls) /\ p = top
                         /\ Moved(db, db', p, g, db.tokens[p][g] + 1)
  <2> SUFFICES ASSUME Arriving(p, g)'
               PROVE  /\ Reaches(db', calls) /\ p = top
                      /\ Moved(db, db', p, g, db.tokens[p][g] + 1)
    OBVIOUS
  <2>1. /\ calls # <<>> /\ calls[1].call = "navigateFrom"
        /\ calls[1].instance = p /\ calls[1].element = g
    BY Entered
  <2> QED BY <1>0, <2>1, GatewayEntered
<1>4. ~Reaches(db', calls) => ~Arriving(p, g)'
  BY <1>3
<1>5. CASE Stops(db', calls)
  <2>1. ~Arriving(p, g)
    BY <1>0, <1>5 DEF Stops, Arriving, Running, ArrivalOK, Underway, Live
  <2> QED BY <1>1, <1>2, <1>4, <1>5, <2>1 DEF Stops, Reaches, Running
<1>6. CASE Passes(db', calls)
  <2>1. ~Reaches(db', calls)
    BY <1>6 DEF Passes, Reaches, Running
  <2>2. CASE Arriving(p, g)
    BY <1>0, <1>4, <1>6, <2>1, <2>2 DEF Passes, Arriving, TokensAt, CountAt
  <2>3. CASE ~Arriving(p, g)
    <3>1. db'.tokens[p][g] = db.tokens[p][g] /\ db'.arrived[p][g] = db.arrived[p][g]
      BY <1>6, <2>3 DEF Passes, Arriving, TokensAt, CountAt
    <3>2. Live(db, p)
      BY <1>6 DEF Passes, SameRows, Live
    <3> QED BY <1>1, <1>2, <1>4, <2>1, <2>3, <3>1, <3>2
  <2> QED BY <2>2, <2>3
<1>7. CASE Waits(db', calls)
  <2>1. ~Reaches(db', calls) /\ Live(db, p)
    BY <1>7 DEF Waits, Reaches, Running, SameRows, Live
  <2>2. CASE Arriving(p, g)
    BY <1>1, <1>2, <1>4, <1>7, <2>1, <2>2 DEF Waits, Arriving, SameTokens, CountAt
  <2>3. CASE ~Arriving(p, g)
    BY <1>1, <1>2, <1>4, <1>7, <2>1, <2>3 DEF Waits, Arriving, SameTokens, CountAt
  <2> QED BY <2>2, <2>3
<1>8. ASSUME ~Running("navigateFrom"), ~Reaches(db', calls), Live(db, p),
             db'.tokens[p][g] = db.tokens[p][g], db'.arrived[p][g] = db.arrived[p][g]
      PROVE  db'.tokens[p][g] = db'.arrived[p][g] + (IF Arriving(p, g)' THEN 1 ELSE 0)
  BY <1>1, <1>2, <1>4, <1>8 DEF Arriving
<1>9. CASE \/ Runs(db', calls) \/ Throws(db', calls) \/ Fires(db', calls)
           \/ Unsubscribes(db', calls)
  <2>1. /\ ~Running("navigateFrom")
        /\ db'.state = db.state /\ db'.tokens = db.tokens /\ db'.arrived = db.arrived
    BY <1>9 DEF Runs, Throws, Fires, Unsubscribes, Running, SameRows, SameTokens, SameCounts
  <2>2. CASE Reaches(db', calls)
    <3>1. Running("takeSequenceFlow") /\ top \in Instances
      BY <2>2, TopOK DEF Reaches, Running, Onwards
    <3>2. \A q \in Instances, x \in Elements : db.tokens[q][x] \in Nat
      BY <1>0, CountValues
    <3>3. PICK h \in Elements : db'.tokens[top][h] = db.tokens[top][h] + 1
      BY <2>2, <3>1 DEF Reaches, Moved, TokensAt
    <3>4. db.tokens[top][h] \in Nat
      BY <3>1, <3>2
    <3> QED BY <2>1, <3>3, <3>4
  <2> QED BY <1>8, <2>1, <2>2 DEF Live
<1>10. CASE Rests(db', calls)
  <2>1. ~Reaches(db', calls)
    <3> SUFFICES ASSUME Reaches(db', calls) PROVE FALSE
      OBVIOUS
    <3>1. PICK h \in Elements, m \in Seq(Frame) : calls = navigateFrom(top, h) \o m
      BY DEF Reaches
    <3>2. calls # <<>> /\ calls[1].call = "navigateFrom" /\ 1 \in 1..Len(calls)
      BY <3>1, CallHeads
    <3> QED BY <1>10, <3>2 DEF Rests, GoesOn, Onwards
  <2>2. db'.tokens[p][g] = db.tokens[p][g]
    BY <1>0, <1>10 DEF Rests, TokensAt
  <2> QED BY <1>8, <1>10, <2>1, <2>2 DEF Rests, Running, SameRows, SameCounts, Live
<1>11. CASE Reaches(db', calls)
  <2>1. PICK h \in Elements, m \in Seq(Frame) :
          Moved(db, db', top, h, db.tokens[top][h] + 1) /\ calls = navigateFrom(top, h) \o m
    BY <1>11 DEF Reaches
  <2>2. Arriving(p, g)' <=> p = top /\ g = h
    <3>1. /\ calls # <<>> /\ calls[1].call = "navigateFrom"
          /\ calls[1].instance = top /\ calls[1].element = h
      BY <2>1, CallHeads
    <3> QED BY <3>1, Entered
  <2>3. ~Arriving(p, g) /\ Live(db, p)
    BY <1>11, <2>1 DEF Reaches, Running, Arriving, Moved, SameRows, Live
  <2> QED BY <1>1, <1>2, <2>1, <2>2, <2>3 DEF Moved, TokensAt, SameCounts
<1>12. CASE Spawns(db', calls)
  <2>1. PICK e \in Elements, s \in Elements, c \in Instances, m \in Seq(Frame) :
          /\ ElementType[e] = "callActivity" /\ ElementType[s] = "startEvent"
          /\ db.state[c] = "none"
          /\ Created(db, db', c, [instance |-> top, element |-> e], Zeros)
          /\ TokensAt(db, db', top, e, db.tokens[top][e] + 1)
          /\ calls = navigateFrom(c, s) \o m
    BY <1>12 DEF Spawns
  <2>2. ~Arriving(p, g)' /\ ~Arriving(p, g)
    <3>1. calls[1].element = s
      BY <2>1, CallHeads
    <3>2. Arriving(p, g)' => s = g
      BY <3>1, Entered
    <3> QED BY <1>0, <1>12, <2>1, <3>2 DEF Spawns, Running, Arriving
  <2>3. db'.tokens[p][g] = db.tokens[p][g]
    BY <1>0, <2>1 DEF TokensAt
  <2>4. CASE p = c
    <3>1. db.tokens[p][g] = 0
      BY <1>0, <1>1, <2>1, <2>4 DEF Linked
    <3> QED BY <2>1, <2>2, <2>3, <2>4, <3>1 DEF Created, Zeros
  <2>5. CASE p # c
    BY <1>1, <1>2, <2>1, <2>2, <2>3, <2>5 DEF Created, StateAt, Live
  <2> QED BY <2>4, <2>5
<1>13. CASE Ends(db', calls)
  <2>1. top \in Instances
    BY <1>13, TopOK DEF Ends, Running, Onwards
  <2>2. db'.tokens[p][g] = db.tokens[p][g]
    BY <1>0, <1>13, <2>1 DEF Ends, SameTokens, TokensAt, Linked
  <2>3. Live(db, p)
    BY <1>13 DEF Ends, StateAt, Live
  <2> QED BY <1>8, <1>13, <2>2, <2>3 DEF Ends, Reaches, Running, SameCounts
<1>14. CASE Triggers(db', calls)
  <2>1. IsListener(Top.element)
    BY <1>14, TopOK DEF Triggers, Running, FrameOK
  <2>2. db'.tokens[p][g] = db.tokens[p][g]
    BY <1>0, <1>14, <2>1 DEF Triggers, IsListener
  <2> QED BY <1>8, <1>14, <2>2 DEF Triggers, Reaches, Running, SameRows, SameCounts, Live
<1> QED BY <1>5, <1>6, <1>7, <1>9, <1>10, <1>11, <1>12, <1>13, <1>14 DEF Effect

\* AgreeInv is inductive.
LEMMA AgreeStep ==
    ASSUME NothingInherited, Undisturbed, StackInv, Recoverable => OpenInv, AgreeInv,
           TypeOK', [Next]_allVars
    PROVE  AgreeInv'
<1>0. /\ db \in DB /\ db # NoSnapshot /\ db' \in DB /\ stack \in Seq(Frame) /\ Linked(db)
      /\ saved # NoSnapshot => Agrees(saved)
  BY EngineAssumption DEF StackInv, TypeOK, AgreeInv
<1>1. CASE UNCHANGED <<db, stack, saved>>
  BY <1>1 DEF AgreeInv, AgreesAt, Agrees, Arriving, Running, Top
<1>2. ASSUME NEW d \in DB, Fail(d), saved = NoSnapshot => Agrees(d)
      PROVE  AgreeInv'
  <2>1. /\ Agrees(db') /\ saved' = NoSnapshot /\ stack' = <<>>
        /\ \A p \in Instances, g \in Elements : db'.arrived[p][g] \in Nat
    BY <1>0, <1>2, CountValues DEF Fail
  <2> QED BY <2>1 DEF AgreeInv, AgreesAt, Agrees, Arriving, Running
<1>3. ASSUME NEW d \in DB, Loses(d) PROVE Agrees(d)
  <2> SUFFICES ASSUME NEW p \in Instances, NEW g \in Elements, Live(d, p), IsJoin(g)
               PROVE  d.tokens[p][g] = d.arrived[p][g]
    BY DEF Agrees
  <2>1. Live(db, p) /\ ~Arriving(p, g) /\ d.arrived = db.arrived
    BY <1>3 DEF Loses, SameRows, SameCounts, Live, Arriving
  <2>2. d.tokens[p][g] = db.tokens[p][g]
    BY <1>3 DEF Loses, IsJoin
  <2>3. db.tokens[p][g] = db.arrived[p][g] + 0 /\ db.arrived[p][g] \in Nat
    BY <1>0, <2>1, CountValues DEF AgreeInv, AgreesAt
  <2> QED BY <2>1, <2>2, <2>3
<1>4. CASE Handled
  <2>1. CASE \E d \in DB : Fail(d) /\ Loses(d)
    BY <1>2, <1>3, <2>1
  <2>2. ASSUME NEW calls \in Seq(Frame), stack' = calls \o Rest, saved' = saved,
               Effect(db', calls)
        PROVE  AgreeInv'
    <3>1. stack # <<>>
      BY <2>2 DEF Effect, Stops, Passes, Waits, Rests, Runs, Reaches, Throws, Spawns,
             Ends, Fires, Unsubscribes, Triggers, Running
    <3> QED BY <1>0, <2>2, <3>1, EffectAgrees DEF AgreeInv, AgreesAt
  <2> QED BY <1>4, <2>1, <2>2 DEF Handled
<1>5. CASE RequestFails
  BY <1>0, <1>1, <1>2, <1>5, FailuresUndone
<1>6. CASE Commit
  <2>1. /\ stack # <<>> /\ stack' = <<>> \o Rest /\ db' = db /\ saved' = NoSnapshot
        /\ ~Running("navigateFrom")
    <3>1. Tail(stack) \in Seq(Frame) /\ stack # <<>>
      BY <1>0, <1>6 DEF Commit, Running
    <3> QED BY <1>0, <1>6, <3>1 DEF Commit, Running, Rest
  <2>2. ASSUME NEW p, NEW g PROVE ~Arriving(p, g)'
    <3>1. <<>> \in Seq(Frame)
      OBVIOUS
    <3> QED BY <2>1, <3>1, Entered
  <2>3. \A p, g : ~Arriving(p, g)
    BY <2>1 DEF Arriving
  <2> QED BY <2>1, <2>2, <2>3 DEF AgreeInv, AgreesAt
<1>7. CASE Served
  <2>0. stack = <<>> /\ Agrees(db)
    <3>1. stack = <<>>
      BY <1>7 DEF Served
    <3>2. \A p \in Instances, g \in Elements : db.arrived[p][g] \in Nat
      BY <1>0, CountValues
    <3> QED BY <3>1, <3>2 DEF AgreeInv, AgreesAt, Agrees, Arriving, Running
  <2>1. ASSUME Agrees(db'), saved' # NoSnapshot => Agrees(saved'),
               \A p \in Instances, g \in Elements : Arriving(p, g)' => ~IsJoin(g)
        PROVE  AgreeInv'
    <3>1. \A p \in Instances, g \in Elements : db'.arrived[p][g] \in Nat
      BY <1>0, CountValues
    <3> QED BY <2>1, <3>1 DEF AgreeInv, AgreesAt, Agrees
  <2>2. ASSUME NEW p \in Instances, NEW e \in Elements,
               stack' = navigateFrom(p, e) \o commit,
               ElementType[e] \notin GatewayTypes, NEW q, NEW g, Arriving(q, g)'
        PROVE  ~IsJoin(g)
    <3>1. Head(stack') = stack'[1] /\ stack'[1].element = e
      BY <2>2, CallHeads, SignalCallTypes
    <3> QED BY <2>2, <3>1 DEF Arriving, Top, IsJoin, GatewayTypes
  <2>3. CASE Starts
    <3>1. PICK p \in Instances, s \in Elements :
            /\ db.state[p] = "none"
            /\ Created(db, db', p, NoInstance, Zeros) /\ SameTokens(db, db')
            /\ ElementType[s] = "startEvent"
            /\ stack' = navigateFrom(p, s) \o commit /\ SavedIfPossible
      BY <2>3 DEF Starts
    <3>2. ASSUME NEW q \in Instances, NEW g \in Elements, Live(db', q), IsJoin(g)
          PROVE  db'.tokens[q][g] = db'.arrived[q][g]
      <4>1. CASE q = p
        <5>1. db.tokens[q][g] \in Nat
          BY <1>0, CountValues
        <5>2. db.tokens[q][g] = 0
          BY <1>0, <3>1, <4>1, <5>1 DEF Linked
        <5> QED BY <3>1, <4>1, <5>2 DEF Created, SameTokens, Zeros
      <4>2. CASE q # p
        BY <2>0, <3>1, <3>2, <4>2 DEF Created, StateAt, SameTokens, Live, Agrees
      <4> QED BY <4>1, <4>2
    <3>3. Agrees(db')
      BY <3>2 DEF Agrees
    <3>4. saved' # NoSnapshot => Agrees(saved')
      BY <2>0, <3>1 DEF SavedIfPossible
    <3> QED BY <2>1, <2>2, <3>1, <3>3, <3>4 DEF GatewayTypes
  <2>4. CASE Completes
    <3>1. PICK p \in Instances, e \in Elements :
            /\ ElementType[e] = "userTask"
            /\ SameRows(db, db') /\ SameCounts(db, db')
            /\ TokensAt(db, db', p, e, OneLess(db.tokens[p][e]))
            /\ stack' = navigateFrom(p, e) \o commit /\ SavedIfPossible
      BY <2>4 DEF Completes
    <3>2. Agrees(db')
      BY <2>0, <3>1 DEF Agrees, SameRows, SameCounts, TokensAt, IsJoin, Live
    <3>3. saved' # NoSnapshot => Agrees(saved')
      BY <2>0, <3>1 DEF SavedIfPossible
    <3> QED BY <2>1, <2>2, <3>1, <3>2, <3>3 DEF GatewayTypes
  <2>5. CASE Touches
    <3>1. Agrees(db')
      BY <2>0, <2>5 DEF Touches, Same, SameRows, SameCounts, SameTokens, Agrees, Live
    <3> QED BY <1>0, <2>0, <2>1, <2>5, <3>1 DEF Touches, Arriving, Running
  <2>6. CASE Holds
    <3>1. Agrees(db')
      BY <2>0, <2>6 DEF Holds, StateAt, SameCounts, SameTokens, Agrees, Live
    <3> QED BY <1>0, <2>0, <2>1, <2>6, <3>1 DEF Holds, Arriving, Running
  <2>7. CASE Terminates
    <3>1. Agrees(db')
      BY <2>0, <2>7 DEF Terminates, StateAt, SameCounts, Agrees, Live
    <3> QED BY <1>0, <2>0, <2>1, <2>7, <3>1 DEF Terminates, Arriving, Running
  <2>8. CASE Alerts
    <3>1. PICK xs : stack' = fireSignals(xs)
      BY <2>8 DEF Alerts
    <3>2. stack' # <<>> => Head(stack').call = "fireSignal"
      BY <3>1 DEF fireSignals, Call
    <3> QED BY <1>0, <2>0, <2>1, <2>8, <3>2 DEF Alerts, Arriving, Running, Top
  <2> QED BY <1>7, <2>3, <2>4, <2>5, <2>6, <2>7, <2>8 DEF Served
<1> QED BY <1>1, <1>4, <1>5, <1>6, <1>7, NextEffect DEF StackInv, Happens, allVars

\* navigateFrom is only ever called by the running handler.
LEMMA ApproachingOnce ==
    ASSUME StackInv, NEW p, NEW g
    PROVE  Approaching(p, g) = IF Arriving(p, g) THEN 1 ELSE 0
<1> DEFINE Calls == {k \in DOMAIN stack : /\ stack[k].call = "navigateFrom"
                                          /\ stack[k].instance = p
                                          /\ stack[k].element = g}
<1>1. stack \in Seq(Frame) /\ FramesOK /\ DOMAIN stack = 1..Len(stack)
  BY DEF StackInv, TypeOK
<1>2. Calls \subseteq {1}
  BY <1>1 DEF FramesOK
<1>3. Arriving(p, g) <=> 1 \in Calls
  <2>1. CASE stack = <<>>
    BY <2>1 DEF Arriving, Running
  <2>2. CASE stack # <<>>
    <3>1. 1 \in DOMAIN stack /\ Top = stack[1]
      BY <1>1, <2>2 DEF Top
    <3> QED BY <2>2, <3>1 DEF Arriving, Running
  <2> QED BY <2>1, <2>2
<1>4. CASE Arriving(p, g)
  <2>1. Calls = {1}
    BY <1>2, <1>3, <1>4
  <2> QED BY <1>4, <2>1, FS_Singleton DEF Approaching
<1>5. CASE ~Arriving(p, g)
  <2>1. Calls = {}
    BY <1>2, <1>3, <1>5
  <2> QED BY <1>5, <2>1, FS_EmptySet DEF Approaching
<1> QED BY <1>4, <1>5

\* AgreeInv, and what it rests on, in every state.
LEMMA AgreeCorrect ==
    ASSUME Undisturbed
    PROVE  Spec /\ []NothingInherited => [](StackInv /\ AgreeInv)
<1> DEFINE Open == Recoverable => OpenInv
<1>1. Init => AgreeInv
  <2> SUFFICES ASSUME Init PROVE AgreeInv
    OBVIOUS
  <2>1. stack = <<>> /\ saved = NoSnapshot /\ \A p \in Instances : db.state[p] = "none"
    BY DEF Init, EmptyDB
  <2> QED BY <2>1 DEF AgreeInv, AgreesAt, Live
<1>2. NothingInherited /\ StackInv /\ Open /\ AgreeInv /\ TypeOK' /\ [Next]_allVars => AgreeInv'
  BY AgreeStep
<1> QED BY <1>1, <1>2, OpenCorrect, StackCorrect, TypeCorrect, PTL DEF Spec

\* The join counter and the tokens at the join agree in any definition, where no
\* request dies half way or all of them are undone, and as long as no child
\* inherits arrivals (JoinCountsTokens; handleParallelGateway).
THEOREM JoinsCount ==
    ASSUME Undisturbed
    PROVE  Spec /\ []NothingInherited => []JoinCountsTokens
<1>1. StackInv /\ AgreeInv => JoinCountsTokens
  BY ApproachingOnce DEF AgreeInv, AgreesAt, IsJoin, JoinCountsTokens
<1> QED BY <1>1, AgreeCorrect, PTL

\* In definitions where service tasks do not lead into AND gateways, a join
\* passes only when every incoming flow has brought its token
\* (JoinWaitsForAll; countEffectiveIncoming does not count such flows).
THEOREM JoinsWait ==
    ASSUME Undisturbed,
           \A f \in Flows : ElementType[TargetRef[f]] = "parallelGateway" =>
                              ElementType[SourceRef[f]] # "serviceTask"
    PROVE  Spec /\ []NothingInherited => JoinWaitsForAll
<1> DEFINE Passing(p, g) ==
               /\ Running("navigateFrom") /\ Top.instance = p /\ Top.element = g
               /\ ElementType[g] = "parallelGateway"
               /\ Cardinality(FindIncomingFlows(g)) > 1
               /\ db.tokens[p][g] > 0 /\ db'.tokens[p][g] = 0
               /\ stack' # <<>>
<1>1. ASSUME StackInv, AgreeInv, [Next]_allVars,
             NEW p \in Instances, NEW g \in Elements, Passing(p, g)
      PROVE  db.tokens[p][g] >= Cardinality(FindIncomingFlows(g))
  <2>1. EffectiveFlows(g) = FindIncomingFlows(g)
    BY <1>1 DEF EffectiveFlows, FindIncomingFlows
  <2>2. FindIncomingFlows(g) # {}
    <3>1. Cardinality({}) = 0
      BY FS_EmptySet
    <3>2. Cardinality(FindIncomingFlows(g)) > 1
      BY <1>1
    <3> QED BY <3>1, <3>2
  <2>3. countEffectiveIncoming(g) = Cardinality(FindIncomingFlows(g)) /\ IsJoin(g)
    BY <1>1, <2>1, <2>2 DEF countEffectiveIncoming, IsJoin
  <2>4. TypeOK /\ db \in DB /\ Arriving(p, g)
    BY <1>1 DEF StackInv, TypeOK, Arriving
  <2>5. db.tokens[p][g] \in Nat /\ db.arrived[p][g] \in Nat
    BY <2>4, CountValues
  <2>6. Next /\ db' # db
    BY <1>1, <2>5 DEF allVars
  <2>7. Happens
    BY <2>4, <2>6, NextEffect
  <2>8. PICK calls : Effect(db', calls)
    <3>1. RequestFails => stack' = <<>>
      BY <1>1, RequestEnds
    <3> QED BY <1>1, <2>6, <2>7, <3>1 DEF Happens, Served, Handled, Commit, Running, Fail
  <2>9. db.state[p] = "running" /\ db.arrived[p][g] + 1 >= countEffectiveIncoming(g)
    <3>1. Passes(db', calls)
      BY <1>1, <2>5, <2>6, <2>8 DEF Effect, Stops, Waits, Rests, Runs, Reaches, Throws,
             Spawns, Ends, Fires, Unsubscribes, Triggers, Running, SameTokens
    <3> QED BY <1>1, <2>3, <3>1 DEF Passes
  <2>10. db.tokens[p][g] = db.arrived[p][g] + 1
    BY <1>1, <2>3, <2>4, <2>9 DEF AgreeInv, AgreesAt, Live
  <2> QED BY <2>3, <2>9, <2>10
<1>2. StackInv /\ AgreeInv /\ [Next]_allVars =>
        [\A p \in Instances, g \in Elements :
             LET incoming == Cardinality(FindIncomingFlows(g))
             IN  (/\ Running("navigateFrom") /\ Top.instance = p /\ Top.element = g
                  /\ ElementType[g] = "parallelGateway" /\ incoming > 1
                  /\ db.tokens[p][g] > 0 /\ db'.tokens[p][g] = 0
                  /\ stack' # <<>>)
                 => db.tokens[p][g] >= incoming]_allVars
  BY <1>1
<1> QED BY <1>2, AgreeCorrect, PTL DEF Spec, JoinWaitsForAll

-----------------------------------------------------------------------------
(* XOR and OR gateways. *)

IsChoice(g) == ElementType[g] \in {"exclusiveGateway", "inclusiveGateway"}

\* No token rests at an XOR or OR gateway.
Clear(d) ==
    \A p \in Instances, g \in Elements :
        (IsChoice(g) /\ d.state[p] # "completed") => d.tokens[p][g] = 0

PassedInv ==
    /\ \A p \in Instances, g \in Elements :
           (IsChoice(g) /\ db.state[p] # "completed") =>
               db.tokens[p][g] = 0 \/ Arriving(p, g)
    /\ saved # NoSnapshot => Clear(saved)

\* A handler brings a token to a gateway only if it is about to pass it.
LEMMA EffectPasses ==
    ASSUME StackInv, PassedInv, TypeOK', stack # <<>>,
           NEW calls \in Seq(Frame), stack' = calls \o Rest, Effect(db', calls),
           NEW p \in Instances, NEW g \in Elements, IsChoice(g), db'.state[p] # "completed"
    PROVE  db'.tokens[p][g] = 0 \/ Arriving(p, g)'
<1> DEFINE top == Top.instance
<1>0. /\ db \in DB /\ db' \in DB /\ Linked(db) /\ ArrivalOK /\ Advances(db, db')
      /\ ElementType[g] \in GatewayTypes /\ ~IsJoin(g)
  BY EffectAdvances DEF StackInv, TypeOK, IsJoin, IsChoice, GatewayTypes
<1>1. db.state[p] # "completed"
  BY <1>0 DEF Advances, Underway
<1>2. db.tokens[p][g] = 0 \/ Arriving(p, g)
  BY <1>1 DEF PassedInv
<1>3. CASE Arriving(p, g)
  <2>1. db.state[p] = "running"
    BY <1>0, <1>1, <1>3 DEF ArrivalOK, Underway
  <2>2. Passes(db', calls)
    BY <1>0, <1>3, <2>1 DEF Arriving, Effect, Stops, Waits, Rests, Runs, Reaches, Throws,
           Spawns, Ends, Fires, Unsubscribes, Triggers, Running
  <2>3. Top.instance = p /\ Top.element = g
    BY <1>3 DEF Arriving
  <2>4. TokensAt(db, db', p, g, 0)
    BY <1>0, <2>2, <2>3 DEF Passes
  <2> QED BY <2>4 DEF TokensAt
<1>4. ASSUME db.tokens[p][g] = 0, db'.tokens[p][g] = db.tokens[p][g] \/ db'.tokens[p][g] = 0
      PROVE  db'.tokens[p][g] = 0
  BY <1>4
<1>5. CASE db.tokens[p][g] = 0 /\ ~Arriving(p, g)
  <2>1. CASE \/ Stops(db', calls) \/ Waits(db', calls) \/ Runs(db', calls)
             \/ Throws(db', calls) \/ Fires(db', calls) \/ Unsubscribes(db', calls)
    BY <1>5, <2>1 DEF Stops, Waits, Runs, Throws, Fires, Unsubscribes, SameTokens
  <2>2. CASE Passes(db', calls)
    BY <1>5, <2>2 DEF Passes, Arriving, TokensAt
  <2>3. CASE Rests(db', calls)
    BY <1>0, <1>5, <2>3 DEF Rests, TokensAt, IsChoice
  <2>4. CASE Reaches(db', calls)
    <3>1. PICK h \in Elements, m \in Seq(Frame) :
            Moved(db, db', top, h, db.tokens[top][h] + 1) /\ calls = navigateFrom(top, h) \o m
      BY <2>4 DEF Reaches
    <3>2. CASE p = top /\ g = h
      <4>1. /\ calls # <<>> /\ calls[1].call = "navigateFrom"
            /\ calls[1].instance = top /\ calls[1].element = h
        BY <3>1, CallHeads
      <4>2. calls[1].instance = p /\ calls[1].element = g
        BY <3>2, <4>1
      <4> QED BY <4>1, <4>2, Entered
    <3>3. CASE ~(p = top /\ g = h)
      BY <1>5, <3>1, <3>3 DEF Moved, TokensAt
    <3> QED BY <3>2, <3>3
  <2>5. CASE Spawns(db', calls)
    <3>1. PICK e \in Elements :
            /\ ElementType[e] = "callActivity"
            /\ TokensAt(db, db', top, e, db.tokens[top][e] + 1)
      BY <2>5 DEF Spawns
    <3>2. g # e
      BY <3>1 DEF IsChoice
    <3> QED BY <1>5, <3>1, <3>2 DEF TokensAt
  <2>6. CASE Ends(db', calls)
    <3>1. top \in Instances
      BY <2>6, TopOK DEF Ends, Running, Onwards
    <3>2. db'.tokens[p][g] = db.tokens[p][g]
      BY <1>0, <2>6, <3>1 DEF Ends, SameTokens, TokensAt, Linked, GatewayTypes
    <3> QED BY <1>5, <3>2
  <2>7. CASE Triggers(db', calls)
    BY <1>5, <2>7 DEF Triggers
  <2> QED BY <2>1, <2>2, <2>3, <2>4, <2>5, <2>6, <2>7 DEF Effect
<1> QED BY <1>2, <1>3, <1>5

\* While a request is being served, failing means going back to the snapshot.
LEMMA FailGoesBack ==
    ASSUME Recoverable, OpenInv, stack # <<>>, NEW d, Fail(d)
    PROVE  db' = saved /\ saved # NoSnapshot /\ stack' = <<>> /\ saved' = NoSnapshot
BY DEF OpenInv, Fail

\* PassedInv is inductive.
LEMMA PassedStep ==
    ASSUME Recoverable, StackInv, OpenInv, PassedInv, TypeOK', [Next]_allVars
    PROVE  PassedInv'
<1>0. /\ db \in DB /\ db # NoSnapshot /\ db' \in DB /\ stack \in Seq(Frame) /\ Linked(db)
      /\ saved # NoSnapshot => Clear(saved)
  BY EngineAssumption DEF StackInv, TypeOK, PassedInv
<1>1. CASE UNCHANGED <<db, stack, saved>>
  BY <1>1 DEF PassedInv, Clear, Arriving, Running, Top
<1>2. ASSUME NEW d, Fail(d), stack # <<>> PROVE PassedInv'
  BY <1>0, <1>2, FailGoesBack DEF PassedInv, Clear
<1>3. CASE stack # <<>> /\ Handled
  <2>1. ASSUME NEW calls \in Seq(Frame), stack' = calls \o Rest, saved' = saved,
               Effect(db', calls)
        PROVE  PassedInv'
    <3>1. \A p \in Instances, g \in Elements :
            (IsChoice(g) /\ db'.state[p] # "completed") =>
                db'.tokens[p][g] = 0 \/ Arriving(p, g)'
      BY <1>3, <2>1, EffectPasses
    <3> QED BY <1>0, <2>1, <3>1 DEF PassedInv
  <2> QED BY <1>2, <1>3, <2>1 DEF Handled
<1>4. CASE RequestFails
  BY <1>1, <1>2, <1>4, FailuresUndone DEF Undisturbed
<1>5. CASE Commit
  <2>1. \A p, g : ~Arriving(p, g)
    BY <1>5 DEF Commit, Arriving, Running
  <2>2. db' = db /\ saved' = NoSnapshot
    BY <1>5 DEF Commit
  <2> QED BY <2>1, <2>2 DEF PassedInv
<1>6. CASE Served
  <2>1. stack = <<>> /\ Clear(db)
    BY <1>6 DEF Served, PassedInv, Clear, Arriving, Running
  <2>2. Clear(db')
    <3> SUFFICES ASSUME NEW q \in Instances, NEW g \in Elements,
                        IsChoice(g), db'.state[q] # "completed"
                 PROVE  db'.tokens[q][g] = 0
      BY DEF Clear
    <3>1. db.tokens[q][g] \in Nat /\ (db.state[q] # "completed" => db.tokens[q][g] = 0)
      BY <1>0, <2>1, CountValues DEF Clear
    <3>2. CASE Starts
      <4>1. PICK p \in Instances :
              db.state[p] = "none" /\ SameTokens(db, db') /\ StateAt(db, db', p, "running")
        BY <3>2 DEF Starts, Created
      <4> QED BY <3>1, <4>1 DEF SameTokens, StateAt
    <3>3. CASE Completes
      <4>1. PICK p \in Instances, e \in Elements :
              /\ ElementType[e] = "userTask" /\ SameRows(db, db')
              /\ TokensAt(db, db', p, e, OneLess(db.tokens[p][e]))
        BY <3>3 DEF Completes
      <4> QED BY <3>1, <4>1 DEF SameRows, TokensAt, IsChoice
    <3>4. CASE Touches \/ Alerts
      BY <3>1, <3>4 DEF Touches, Alerts, Same, SameRows, SameTokens
    <3>5. CASE Holds
      BY <3>1, <3>5 DEF Holds, StateAt, SameTokens
    <3>6. CASE Terminates
      BY <3>1, <3>6 DEF Terminates, StateAt
    <3> QED BY <1>6, <3>2, <3>3, <3>4, <3>5, <3>6 DEF Served
  <2>3. saved' # NoSnapshot => Clear(saved')
    BY <1>0, <1>6, <2>1 DEF Served, Starts, Completes, Touches, Holds, Terminates, Alerts,
           SavedIfPossible
  <2> QED BY <2>2, <2>3 DEF PassedInv, Clear
<1> QED BY <1>1, <1>3, <1>4, <1>5, <1>6, NextEffect DEF StackInv, Happens, allVars

\* XOR and OR gateways are passed, or the request that reached them is undone,
\* whatever the conditions and the definitions (NoTokenStranded;
\* handleExclusiveGateway and handleInclusiveGateway).
THEOREM GatewaysPassed == ASSUME Recoverable PROVE Spec => []NoTokenStranded
<1>1. Init => PassedInv
  <2> SUFFICES ASSUME Init PROVE PassedInv
    OBVIOUS
  <2>1. saved = NoSnapshot /\ \A p \in Instances, g \in Elements : db.tokens[p][g] = 0
    BY DEF Init, EmptyDB, Zeros
  <2> QED BY <2>1 DEF PassedInv
<1>2. StackInv /\ OpenInv /\ PassedInv /\ TypeOK' /\ [Next]_allVars => PassedInv'
  BY PassedStep
<1>3. PassedInv => NoTokenStranded
  BY DEF PassedInv, Clear, NoTokenStranded, IsChoice, Committed, Settled, Quiescent,
         Arriving, Running
<1> QED BY <1>1, <1>2, <1>3, StackCorrect, TypeCorrect, RequestsAreUndone, PTL DEF Spec

-----------------------------------------------------------------------------
(* Running instances. *)

\* Calls that will leave a token in their instance, or complete it.
Moves == Onwards \cup {"navigateFrom"}
MovingIn(calls, p) == \E k \in 1..Len(calls) : calls[k].call \in Moves /\ calls[k].instance = p

HasToken(d, p) == ~NoActiveTokens(d, p)

\* In tables nobody is working on: nothing is suspended, and what runs has a token.
Carried(d) ==
    \A p \in Instances :
        d.state[p] # "suspended" /\ (d.state[p] = "running" => HasToken(d, p))

MovingInv ==
    /\ \A p \in Instances :
           /\ db.state[p] # "suspended"
           /\ db.state[p] = "running" => HasToken(db, p) \/ MovingIn(stack, p)
    /\ saved # NoSnapshot => Carried(saved)

\* Calls stay on the stack until they run.
LEMMA MovingStack ==
    ASSUME NEW s \in Seq(Frame), s # <<>>, NEW calls \in Seq(Frame), NEW p
    PROVE  /\ MovingIn(calls, p) => MovingIn(calls \o Tail(s), p)
           /\ MovingIn(s, p) => (\/ MovingIn(calls \o Tail(s), p)
                                 \/ Head(s).call \in Moves /\ Head(s).instance = p)
<1>0. PICK t : t = calls \o Tail(s)
  OBVIOUS
<1>1. /\ Tail(s) \in Seq(Frame) /\ Len(Tail(s)) = Len(s) - 1
      /\ \A k \in 1..Len(Tail(s)) : Tail(s)[k] = s[k + 1]
      /\ Len(s) \in Nat /\ Len(calls) \in Nat /\ Head(s) = s[1]
  OBVIOUS
<1>2. /\ t \in Seq(Frame) /\ Len(t) = Len(calls) + Len(s) - 1
      /\ \A k \in 1..Len(calls) : t[k] = calls[k]
  BY <1>0, StackAfter
<1>3. \A k \in 1..(Len(s) - 1) : t[Len(calls) + k] = s[k + 1]
  BY <1>0, <1>1
<1>4. MovingIn(calls, p) => MovingIn(t, p)
  <2> SUFFICES ASSUME NEW k \in 1..Len(calls), calls[k].call \in Moves, calls[k].instance = p
               PROVE  MovingIn(t, p)
    BY DEF MovingIn
  <2>1. k \in 1..Len(t) /\ t[k] = calls[k]
    BY <1>1, <1>2
  <2> QED BY <2>1 DEF MovingIn
<1>5. MovingIn(s, p) => MovingIn(t, p) \/ (Head(s).call \in Moves /\ Head(s).instance = p)
  <2> SUFFICES ASSUME NEW k \in 1..Len(s), s[k].call \in Moves, s[k].instance = p, k # 1
               PROVE  MovingIn(t, p)
    BY <1>1 DEF MovingIn
  <2>1. k - 1 \in 1..(Len(s) - 1) /\ Len(calls) + (k - 1) \in 1..Len(t) /\ (k - 1) + 1 = k
    BY <1>1, <1>2
  <2>2. t[Len(calls) + (k - 1)] = s[k]
    BY <1>3, <2>1
  <2> QED BY <2>1, <2>2 DEF MovingIn
<1> QED BY <1>0, <1>4, <1>5

\* Which calls move an instance.
LEMMA CallsMove ==
    ASSUME NEW p, NEW m \in Seq(Frame)
    PROVE  /\ GoesOn(m, p) /\ m # <<>> => MovingIn(m, p)
           /\ \A e : MovingIn(navigateFrom(p, e), p)
           /\ \A e : MovingIn(navigateFrom(p, e) \o m, p)
           /\ \A xs : MovingIn(m, p) => MovingIn(fireSignals(xs) \o m, p)
<1>1. GoesOn(m, p) /\ m # <<>> => MovingIn(m, p)
  <2>1. m # <<>> => 1 \in 1..Len(m)
    OBVIOUS
  <2> QED BY <2>1 DEF GoesOn, MovingIn, Moves
<1>2. ASSUME NEW e PROVE MovingIn(navigateFrom(p, e), p)
  BY DEF MovingIn, Moves, navigateFrom, Call
<1>3. ASSUME NEW e PROVE MovingIn(navigateFrom(p, e) \o m, p)
  <2>1. ASSUME NEW c PROVE 1 \in 1..Len(<<c>> \o m)
    OBVIOUS
  <2>2. 1 \in 1..Len(navigateFrom(p, e) \o m)
    BY <2>1 DEF navigateFrom
  <2>3. /\ (navigateFrom(p, e) \o m)[1].call = "navigateFrom"
        /\ (navigateFrom(p, e) \o m)[1].instance = p
    BY CallHeads
  <2> QED BY <2>2, <2>3 DEF MovingIn, Moves
<1>4. ASSUME NEW xs, MovingIn(m, p) PROVE MovingIn(fireSignals(xs) \o m, p)
  <2>1. PICK k \in 1..Len(m) : m[k].call \in Moves /\ m[k].instance = p
    BY <1>4 DEF MovingIn
  <2>2. CASE xs = {}
    <3>1. fireSignals(xs) \o m = m
      BY <2>2 DEF fireSignals
    <3> QED BY <1>4, <3>1
  <2>3. CASE xs # {}
    <3>1. ASSUME NEW c
          PROVE  k + 1 \in 1..Len(<<c>> \o m) /\ (<<c>> \o m)[k + 1] = m[k]
      OBVIOUS
    <3>2. /\ k + 1 \in 1..Len(fireSignals(xs) \o m)
          /\ (fireSignals(xs) \o m)[k + 1] = m[k]
      BY <2>3, <3>1 DEF fireSignals
    <3> QED BY <2>1, <3>2 DEF MovingIn
  <2> QED BY <2>2, <2>3
<1> QED BY <1>1, <1>2, <1>3, <1>4

\* A handler leaves a token or a call behind.
LEMMA EffectMoves ==
    ASSUME StackInv, MovingInv, TypeOK', stack # <<>>,
           NEW calls \in Seq(Frame), stack' = calls \o Rest, Effect(db', calls),
           NEW p \in Instances, db'.state[p] = "running"
    PROVE  HasToken(db', p) \/ MovingIn(stack', p)
<1> DEFINE top == Top.instance
           moved == Top.call \in Moves /\ top = p
<1>0. /\ db \in DB /\ db' \in DB /\ Linked(db) /\ ArrivalOK /\ stack \in Seq(Frame)
      /\ stack' = calls \o Tail(stack) /\ Top = Head(stack)
  BY DEF StackInv, TypeOK, Rest, Top
<1>1. MovingIn(calls, p) => MovingIn(stack', p)
  BY <1>0, MovingStack
<1>2. db.state[p] = "running" => HasToken(db, p) \/ MovingIn(stack', p) \/ moved
  BY <1>0, MovingStack DEF MovingInv
<1>3. \A e \in Elements : db.tokens[p][e] \in Nat /\ db'.tokens[p][e] \in Nat
  BY <1>0, CountValues
<1>4. ASSUME NEW e \in Elements, db'.tokens[p][e] > 0 PROVE HasToken(db', p)
  BY <1>3, <1>4 DEF HasToken, NoActiveTokens
<1>5. ASSUME db.state[p] = "running", \A e \in Elements : db'.tokens[p][e] = db.tokens[p][e],
             ~moved
      PROVE  HasToken(db', p) \/ MovingIn(stack', p)
  BY <1>2, <1>5 DEF HasToken, NoActiveTokens
<1>6. CASE Stops(db', calls)
  <2>1. CASE moved
    <3>1. Running("checkComplete") /\ ~NoActiveTokens(db, p)
      BY <1>6, <2>1 DEF Stops, Running, Moves, Onwards
    <3> QED BY <1>6, <3>1 DEF Stops, HasToken
  <2>2. CASE ~moved
    BY <1>5, <1>6, <2>2 DEF Stops
  <2> QED BY <2>1, <2>2
<1>7. CASE Passes(db', calls)
  <2>1. CASE p = top
    <3>1. MovingIn(calls, p)
      BY <1>7, <2>1, CallsMove DEF Passes
    <3> QED BY <1>1, <3>1
  <2>2. CASE p # top
    BY <1>5, <1>7, <2>2 DEF Passes, SameRows, TokensAt
  <2> QED BY <2>1, <2>2
<1>8. CASE Waits(db', calls)
  <2>1. CASE p = top
    <3>1. /\ Arriving(p, Top.element) /\ Top.element \in Elements
          /\ ElementType[Top.element] \in GatewayTypes
      BY <1>8, <2>1, TopOK DEF Waits, Arriving, Running, IsJoin, GatewayTypes
    <3>2. db'.tokens[p][Top.element] > 0
      BY <1>0, <1>8, <3>1 DEF ArrivalOK, Waits, SameTokens
    <3> QED BY <1>4, <3>1, <3>2
  <2>2. CASE p # top
    BY <1>5, <1>8, <2>2 DEF Waits, SameRows, SameTokens
  <2> QED BY <2>1, <2>2
<1>9. CASE Rests(db', calls)
  <2>1. PICK e \in Elements : TokensAt(db, db', top, e, db.tokens[top][e] + 1)
    BY <1>9 DEF Rests
  <2>2. CASE p = top
    <3>1. db'.tokens[p][e] = db.tokens[p][e] + 1
      BY <2>1, <2>2 DEF TokensAt
    <3> QED BY <1>3, <1>4, <3>1
  <2>3. CASE p # top
    BY <1>5, <1>9, <2>1, <2>3 DEF Rests, SameRows, TokensAt
  <2> QED BY <2>2, <2>3
<1>10. CASE Runs(db', calls) \/ Reaches(db', calls)
  <2>1. CASE p = top
    <3>1. PICK e \in Elements, m \in Seq(Frame) : calls = navigateFrom(p, e) \o m
      BY <1>10, <2>1 DEF Runs, Reaches
    <3> QED BY <1>1, <3>1, CallsMove
  <2>2. CASE p # top
    <3>1. db.state[p] = "running" /\ \A e \in Elements : db'.tokens[p][e] = db.tokens[p][e]
      BY <1>10, <2>2 DEF Runs, Reaches, Moved, SameRows, TokensAt
    <3> QED BY <1>5, <2>2, <3>1
  <2> QED BY <2>1, <2>2
<1>11. CASE Throws(db', calls)
  <2>1. CASE p = top
    <3>1. PICK xs \in SUBSET db.subscriptions, m \in Seq(Frame) :
            GoesOn(m, p) /\ m # <<>> /\ calls = fireSignals(xs) \o m
      BY <1>11, <2>1 DEF Throws
    <3>2. MovingIn(m, p)
      BY <3>1, CallsMove
    <3> QED BY <1>1, <3>1, <3>2, CallsMove
  <2>2. CASE p # top
    BY <1>5, <1>11, <2>2 DEF Throws
  <2> QED BY <2>1, <2>2
<1>12. CASE Spawns(db', calls)
  <2>0. PICK e \in Elements, s \in Elements, c \in Instances, m \in Seq(Frame),
             counts \in PerElement :
          /\ Created(db, db', c, [instance |-> top, element |-> e], counts)
          /\ TokensAt(db, db', top, e, db.tokens[top][e] + 1)
          /\ calls = navigateFrom(c, s) \o m
    BY <1>12 DEF Spawns
  <2>1. /\ StateAt(db, db', c, "running")
        /\ TokensAt(db, db', top, e, db.tokens[top][e] + 1)
        /\ calls = navigateFrom(c, s) \o m
    BY <2>0 DEF Created
  <2>2. CASE p = c
    BY <1>1, <2>1, <2>2, CallsMove
  <2>3. CASE p = top
    <3>1. db'.tokens[p][e] = db.tokens[p][e] + 1
      BY <2>1, <2>3 DEF TokensAt
    <3> QED BY <1>3, <1>4, <3>1
  <2>4. CASE p # c /\ p # top
    BY <1>5, <2>1, <2>4 DEF StateAt, TokensAt
  <2> QED BY <2>2, <2>3, <2>4
<1>13. CASE Ends(db', calls)
  <2>1. p # top /\ db.state[p] = "running"
    BY <1>13 DEF Ends, StateAt
  <2>2. CASE SameTokens(db, db')
    BY <1>5, <2>1, <2>2 DEF SameTokens
  <2>3. ASSUME NEW q, NEW e, calls = navigateFrom(q, e),
               TokensAt(db, db', q, e, OneLess(db.tokens[q][e]))
        PROVE  HasToken(db', p) \/ MovingIn(stack', p)
    <3>1. CASE p = q
      <4>1. <<>> \in Seq(Frame)
        OBVIOUS
      <4> QED BY <1>1, <2>3, <3>1, <4>1, CallsMove
    <3>2. CASE p # q
      BY <1>5, <2>1, <2>3, <3>2 DEF TokensAt
    <3> QED BY <3>1, <3>2
  <2> QED BY <1>13, <2>2, <2>3 DEF Ends
<1>14. CASE Fires(db', calls) \/ Unsubscribes(db', calls)
  <2>1. ~moved /\ db.state[p] = "running" /\ db'.tokens = db.tokens
    BY <1>14 DEF Fires, Unsubscribes, Running, Moves, Onwards, SameRows, SameTokens
  <2> QED BY <1>5, <2>1
<1>15. CASE Triggers(db', calls)
  <2>1. CASE p = top
    <3>1. <<>> \in Seq(Frame) /\ calls = navigateFrom(p, Top.element)
      BY <1>15, <2>1 DEF Triggers
    <3> QED BY <1>1, <3>1, CallsMove
  <2>2. CASE p # top
    BY <1>5, <1>15, <2>2 DEF Triggers, SameRows
  <2> QED BY <2>1, <2>2
<1> QED BY <1>6, <1>7, <1>8, <1>9, <1>10, <1>11, <1>12, <1>13, <1>14, <1>15 DEF Effect

\* MovingInv is inductive.
LEMMA MovingStep ==
    ASSUME Recoverable, "suspend" \notin Requests, StackInv, OpenInv, MovingInv, TypeOK',
           [Next]_allVars
    PROVE  MovingInv'
<1>0. /\ db \in DB /\ db # NoSnapshot /\ db' \in DB /\ stack \in Seq(Frame)
      /\ saved # NoSnapshot => Carried(saved)
      /\ \A p \in Instances : db.state[p] # "suspended"
  BY EngineAssumption DEF StackInv, TypeOK, MovingInv
<1>1. CASE UNCHANGED <<db, stack, saved>>
  BY <1>1 DEF MovingInv
<1>2. ASSUME NEW d, Fail(d), stack # <<>> PROVE MovingInv'
  BY <1>0, <1>2, FailGoesBack DEF MovingInv, Carried
<1>3. CASE stack # <<>> /\ Handled
  <2>1. ASSUME NEW calls \in Seq(Frame), stack' = calls \o Rest, saved' = saved,
               Effect(db', calls)
        PROVE  MovingInv'
    <3>1. \A p \in Instances :
            db'.state[p] = "running" => HasToken(db', p) \/ MovingIn(stack', p)
      BY <1>3, <2>1, EffectMoves
    <3>2. \A p \in Instances : db'.state[p] # "suspended"
      <4>1. Advances(db, db')
        BY <1>3, <2>1, EffectAdvances
      <4> QED BY <1>0, <4>1 DEF Advances
    <3> QED BY <1>0, <2>1, <3>1, <3>2 DEF MovingInv
  <2> QED BY <1>2, <1>3, <2>1 DEF Handled
<1>4. CASE RequestFails
  BY <1>1, <1>2, <1>4, FailuresUndone DEF Undisturbed
<1>5. CASE Commit
  <2>1. /\ stack # <<>> /\ Head(stack).call \notin Moves /\ db' = db /\ saved' = NoSnapshot
        /\ stack' = <<>> \o Tail(stack) /\ <<>> \in Seq(Frame)
    BY <1>0, <1>5 DEF Commit, Running, Top, Rest, Moves, Onwards
  <2>2. ASSUME NEW p, MovingIn(stack, p) PROVE MovingIn(stack', p)
    BY <1>0, <2>1, <2>2, MovingStack
  <2> QED BY <2>1, <2>2 DEF MovingInv
<1>6. CASE Served
  <2>1. stack = <<>> /\ Carried(db)
    BY <1>6 DEF Served, MovingInv, Carried, MovingIn
  <2>2. ASSUME NEW q \in Instances
        PROVE  /\ db'.state[q] # "suspended"
               /\ db'.state[q] = "running" => HasToken(db', q) \/ MovingIn(stack', q)
    <3>1. db.state[q] # "suspended" /\ (db.state[q] = "running" => HasToken(db, q))
      BY <2>1 DEF Carried
    <3>2. CASE Starts
      <4>1. PICK p \in Instances, s \in Elements :
              /\ SameTokens(db, db') /\ StateAt(db, db', p, "running")
              /\ stack' = navigateFrom(p, s) \o commit
        BY <3>2 DEF Starts, Created
      <4>2. MovingIn(stack', p)
        BY <4>1, CallsMove, SignalCallTypes
      <4> QED BY <3>1, <4>1, <4>2 DEF SameTokens, StateAt, HasToken, NoActiveTokens
    <3>3. CASE Completes
      <4>1. PICK p \in Instances, e \in Elements :
              /\ SameRows(db, db')
              /\ TokensAt(db, db', p, e, OneLess(db.tokens[p][e]))
              /\ stack' = navigateFrom(p, e) \o commit
        BY <3>3 DEF Completes
      <4>2. MovingIn(stack', p)
        BY <4>1, CallsMove, SignalCallTypes
      <4>3. q # p => \A x \in Elements : db'.tokens[q][x] = db.tokens[q][x]
        BY <4>1 DEF TokensAt
      <4> QED BY <3>1, <4>1, <4>2, <4>3 DEF SameRows, HasToken, NoActiveTokens
    <3>4. CASE Touches \/ Alerts
      BY <3>1, <3>4 DEF Touches, Alerts, Same, SameRows, SameTokens, HasToken, NoActiveTokens
    <3>5. CASE Holds
      BY <1>0, <3>5 DEF Holds
    <3>6. CASE Terminates
      BY <3>1, <3>6 DEF Terminates, StateAt, HasToken, NoActiveTokens
    <3> QED BY <1>6, <3>2, <3>3, <3>4, <3>5, <3>6 DEF Served
  <2>3. saved' # NoSnapshot => Carried(saved')
    BY <1>0, <1>6, <2>1 DEF Served, Starts, Completes, Touches, Holds, Terminates, Alerts,
           SavedIfPossible
  <2> QED BY <2>2, <2>3 DEF MovingInv
<1> QED BY <1>1, <1>3, <1>4, <1>5, <1>6, NextEffect DEF StackInv, Happens, allVars

\* Navigation never drops the last token of an instance without completing it:
\* in any set of definitions, as long as nothing is suspended, an instance that
\* runs has a token between requests (RunningHasToken; checkComplete).
THEOREM RunningInstancesHaveTokens ==
    ASSUME Recoverable, "suspend" \notin Requests
    PROVE  Spec => []RunningHasToken
<1>1. Init => MovingInv
  <2> SUFFICES ASSUME Init PROVE MovingInv
    OBVIOUS
  <2>1. saved = NoSnapshot /\ \A p \in Instances : db.state[p] = "none"
    BY DEF Init, EmptyDB
  <2> QED BY <2>1 DEF MovingInv
<1>2. StackInv /\ OpenInv /\ MovingInv /\ TypeOK' /\ [Next]_allVars => MovingInv'
  BY MovingStep
<1>3. MovingInv => RunningHasToken
  <2> SUFFICES ASSUME MovingInv, Settled, NEW p \in Instances,
                      Committed.state[p] = "running"
               PROVE  HasToken(Committed, p)
    BY DEF RunningHasToken, HasToken
  <2>1. CASE saved # NoSnapshot
    BY <2>1 DEF MovingInv, Carried, Committed
  <2>2. CASE saved = NoSnapshot
    <3>1. ~MovingIn(stack, p)
      BY <2>2 DEF Settled, Quiescent, MovingIn
    <3> QED BY <2>2, <3>1 DEF MovingInv, Committed
  <2> QED BY <2>1, <2>2
<1> QED BY <1>1, <1>2, <1>3, StackCorrect, TypeCorrect, RequestsAreUndone, PTL DEF Spec

-----------------------------------------------------------------------------
(* User tasks. *)

IsTask(e) == ElementType[e] = "userTask"

\* f has the same tokens and tasks as d at e in p.
AlikeAt(d, f, p, e) ==
    /\ f.tokens[p][e] = d.tokens[p][e]
    /\ f.active[p][e] = d.active[p][e]
    /\ f.unclaimed[p][e] = d.unclaimed[p][e]
Alike(d, f) == \A p \in Instances, e \in Elements : IsTask(e) => AlikeAt(d, f, p, e)

SameTasks(d, f) == f.active = d.active /\ f.unclaimed = d.unclaimed

\* Calls on tokens and on rows leave the activities alone.
LEMMA TaskFields ==
    ASSUME NEW d \in DB, NEW p \in Instances
    PROVE  /\ \A e \in Elements : /\ SameTasks(d, CreateToken(d, p, e))
                                  /\ SameTasks(d, ConsumeOne(d, p, e))
                                  /\ SameTasks(d, ConsumeAt(d, p, e))
           /\ \A s : SameTasks(d, SetState(d, p, s))
           /\ \A vals : SameTasks(d, SetVariables(d, p, vals))
           /\ \A g, n : SameTasks(d, SetArrived(d, p, g, n))
           /\ \A es, i : SameTasks(d, CreateSubscriptions(d, p, es, i))
           /\ \A x : SameTasks(d, DeleteSignalSubscription(d, x))
           /\ SameTasks(d, DeleteSubscriptionsByInstance(d, p))
           /\ \A def, by, vals, counts :
                  SameTasks(d, CreateProcessInstance(d, p, def, by, vals, counts))
<1> USE DEF DB, SameTasks
<1>1. \A e \in Elements : /\ SameTasks(d, CreateToken(d, p, e))
                          /\ SameTasks(d, ConsumeOne(d, p, e))
                          /\ SameTasks(d, ConsumeAt(d, p, e))
  BY DEF CreateToken, ConsumeOne, ConsumeAt, SetTokens
<1>2. \A s : SameTasks(d, SetState(d, p, s))
  BY DEF SetState
<1>3. \A vals : SameTasks(d, SetVariables(d, p, vals))
  BY DEF SetVariables
<1>4. \A g, n : SameTasks(d, SetArrived(d, p, g, n))
  BY DEF SetArrived
<1>5. /\ \A es, i : SameTasks(d, CreateSubscriptions(d, p, es, i))
      /\ \A x : SameTasks(d, DeleteSignalSubscription(d, x))
      /\ SameTasks(d, DeleteSubscriptionsByInstance(d, p))
  BY DEF CreateSubscriptions, DeleteSignalSubscription, DeleteSubscriptionsByInstance
<1>6. \A def, by, vals, counts :
         SameTasks(d, CreateProcessInstance(d, p, def, by, vals, counts))
  BY DEF CreateProcessInstance
<1> QED BY <1>1, <1>2, <1>3, <1>4, <1>5, <1>6

\* Calls on activities change one number.
LEMMA TaskCounts ==
    ASSUME NEW d \in DB, NEW p \in Instances, NEW e \in Elements, NEW n \in Nat
    PROVE  /\ SetActive(d, p, e, n).unclaimed = d.unclaimed
           /\ SetUnclaimed(d, p, e, n).active = d.active
           /\ \A q \in Instances, x \in Elements :
                  /\ SetActive(d, p, e, n).active[q][x] =
                         IF q = p /\ x = e THEN n ELSE d.active[q][x]
                  /\ SetUnclaimed(d, p, e, n).unclaimed[q][x] =
                         IF q = p /\ x = e THEN n ELSE d.unclaimed[q][x]
<1>1. d.active \in [Instances -> PerElement] /\ d.unclaimed \in [Instances -> PerElement]
  BY DEF DB
<1>2. /\ SetActive(d, p, e, n).active = [d.active EXCEPT ![p][e] = n]
      /\ SetUnclaimed(d, p, e, n).unclaimed = [d.unclaimed EXCEPT ![p][e] = n]
      /\ SetActive(d, p, e, n).unclaimed = d.unclaimed
      /\ SetUnclaimed(d, p, e, n).active = d.active
  BY DEF SetActive, SetUnclaimed, DB
<1>3. ASSUME NEW q \in Instances, NEW x \in Elements
      PROVE  /\ SetActive(d, p, e, n).active[q][x] =
                    IF q = p /\ x = e THEN n ELSE d.active[q][x]
             /\ SetUnclaimed(d, p, e, n).unclaimed[q][x] =
                    IF q = p /\ x = e THEN n ELSE d.unclaimed[q][x]
  BY <1>1, <1>2, PointUpdate
<1> QED BY <1>2, <1>3

\* Away from user tasks nothing that is done to tokens and activities counts,
LEMMA ElsewhereAlike ==
    ASSUME NEW d \in DB, NEW p \in Instances, NEW e \in Elements, ~IsTask(e)
    PROVE  /\ Alike(d, CreateToken(d, p, e))
           /\ Alike(d, ConsumeOne(d, p, e))
           /\ Alike(d, ConsumeAt(d, p, e))
           /\ Alike(d, CreateActive(d, p, e))
           /\ Alike(d, CompleteAt(d, p, e))
<1>1. ASSUME NEW f, NEW n, Moved(d, f, p, e, n), SameTasks(d, f) PROVE Alike(d, f)
  BY <1>1 DEF Moved, TokensAt, SameTasks, Alike, AlikeAt
<1>2. /\ Alike(d, CreateToken(d, p, e))
      /\ Alike(d, ConsumeOne(d, p, e))
      /\ Alike(d, ConsumeAt(d, p, e))
  BY <1>1, TokenFields, TaskFields
<1>3. ASSUME NEW n \in Nat PROVE Alike(d, SetActive(d, p, e, n))
  <2>1. SetActive(d, p, e, n).tokens = d.tokens
    BY DEF SetActive, DB
  <2>2. /\ SetActive(d, p, e, n).unclaimed = d.unclaimed
        /\ \A q \in Instances, x \in Elements :
               SetActive(d, p, e, n).active[q][x] =
                   IF q = p /\ x = e THEN n ELSE d.active[q][x]
    BY TaskCounts
  <2> QED BY <2>1, <2>2 DEF Alike, AlikeAt
<1>4. d.active[p][e] + 1 \in Nat /\ 0 \in Nat
  BY CountValues
<1> QED BY <1>2, <1>3, <1>4 DEF CreateActive, CompleteAt

\* nor anything that is done to rows, counters and subscriptions.
LEMMA RowsAlike ==
    ASSUME NEW d \in DB, NEW p \in Instances
    PROVE  /\ \A s : Alike(d, SetState(d, p, s))
           /\ \A vals : Alike(d, SetVariables(d, p, vals))
           /\ \A g \in Elements, n \in Nat : Alike(d, SetArrived(d, p, g, n))
           /\ \A es, i : Alike(d, CreateSubscriptions(d, p, es, i))
           /\ \A x : Alike(d, DeleteSignalSubscription(d, x))
           /\ Alike(d, DeleteSubscriptionsByInstance(d, p))
           /\ \A def, by, vals, counts :
                  Alike(d, CreateProcessInstance(d, p, def, by, vals, counts))
<1>1. ASSUME NEW f, SameTokens(d, f), SameTasks(d, f) PROVE Alike(d, f)
  BY <1>1 DEF SameTokens, SameTasks, Alike, AlikeAt
<1>2. /\ \A s : Alike(d, SetState(d, p, s))
      /\ \A vals : Alike(d, SetVariables(d, p, vals))
  <2>1. ASSUME NEW vals PROVE SameTokens(d, SetVariables(d, p, vals))
    BY DEF DB, SetVariables, SameTokens
  <2> QED BY <1>1, <2>1, RowFields, TaskFields
<1>3. \A g \in Elements, n \in Nat : Alike(d, SetArrived(d, p, g, n))
  BY <1>1, CounterFields, TaskFields
<1>4. /\ \A es, i : Alike(d, CreateSubscriptions(d, p, es, i))
      /\ \A x : Alike(d, DeleteSignalSubscription(d, x))
      /\ Alike(d, DeleteSubscriptionsByInstance(d, p))
  BY <1>1, SubscriptionFields, TaskFields
<1>5. \A def, by, vals, counts : Alike(d, CreateProcessInstance(d, p, def, by, vals, counts))
  BY <1>1, CreateFields, TaskFields
<1> QED BY <1>2, <1>3, <1>4, <1>5

\* Alike twice is alike.
LEMMA AlikeTwice ==
    ASSUME NEW d, NEW f, NEW h, Alike(d, f), Alike(f, h)
    PROVE  Alike(d, h)
BY DEF Alike, AlikeAt

\* In f there are n active, or unclaimed, tasks at e in p; else f is d.
ActiveAt(d, f, p, e, n) ==
    /\ f.tokens = d.tokens /\ f.unclaimed = d.unclaimed
    /\ \A q \in Instances, x \in Elements :
           f.active[q][x] = IF q = p /\ x = e THEN n ELSE d.active[q][x]
UnclaimedAt(d, f, p, e, n) ==
    /\ f.tokens = d.tokens /\ f.active = d.active
    /\ \A q \in Instances, x \in Elements :
           f.unclaimed[q][x] = IF q = p /\ x = e THEN n ELSE d.unclaimed[q][x]

\* So do the calls the handlers make.
LEMMA TaskCalls ==
    ASSUME NEW d \in DB, NEW p \in Instances, NEW e \in Elements
    PROVE  /\ ActiveAt(d, CreateActive(d, p, e), p, e, d.active[p][e] + 1)
           /\ ActiveAt(d, CompleteOne(d, p, e), p, e, OneLess(d.active[p][e]))
           /\ ActiveAt(d, CompleteAt(d, p, e), p, e, 0)
           /\ UnclaimedAt(d, CreateUnclaimed(d, p, e), p, e, d.unclaimed[p][e] + 1)
           /\ UnclaimedAt(d, SetUnclaimed(d, p, e, OneLess(d.unclaimed[p][e])), p, e,
                          OneLess(d.unclaimed[p][e]))
<1>1. /\ d.active[p][e] + 1 \in Nat /\ d.unclaimed[p][e] + 1 \in Nat
      /\ OneLess(d.active[p][e]) \in Nat /\ OneLess(d.unclaimed[p][e]) \in Nat
  BY CountValues, OneLessType
<1>2. ASSUME NEW n \in Nat
      PROVE  /\ ActiveAt(d, SetActive(d, p, e, n), p, e, n)
             /\ UnclaimedAt(d, SetUnclaimed(d, p, e, n), p, e, n)
  <2>1. SetActive(d, p, e, n).tokens = d.tokens /\ SetUnclaimed(d, p, e, n).tokens = d.tokens
    BY DEF SetActive, SetUnclaimed, DB
  <2> QED BY <2>1, TaskCounts DEF ActiveAt, UnclaimedAt
<1> QED BY <1>1, <1>2 DEF CreateActive, CompleteOne, CompleteAt, CreateUnclaimed

\* At a user task there are as many tokens as open tasks, and unclaimed ones
\* only where there are candidates.
Balanced(d, p, e) ==
    /\ d.tokens[p][e] = d.active[p][e] + d.unclaimed[p][e]
    /\ e \notin CandidateTasks => d.unclaimed[p][e] = 0

\* f is balanced wherever d is.
Keeps(d, f) ==
    \A p \in Instances, e \in Elements : IsTask(e) /\ Balanced(d, p, e) => Balanced(f, p, e)

\* Between two tables that are alike nothing gets out of balance.
LEMMA AlikeKeeps ==
    ASSUME NEW d, NEW f, Alike(d, f)
    PROVE  Keeps(d, f)
BY DEF Alike, AlikeAt, Keeps, Balanced

\* What two steps keep, both together keep.
LEMMA KeepsTwice ==
    ASSUME NEW d, NEW f, NEW h, Keeps(d, f), Keeps(f, h)
    PROVE  Keeps(d, h)
BY DEF Keeps

\* A new task comes with a token,
LEMMA TaskCreated ==
    ASSUME NEW d \in DB, NEW p \in Instances, NEW e \in Elements
    PROVE  /\ e \in CandidateTasks => Keeps(d, CreateUnclaimed(CreateToken(d, p, e), p, e))
           /\ Keeps(d, CreateActive(CreateToken(d, p, e), p, e))
<1> DEFINE f == CreateToken(d, p, e)
<1>1. /\ f \in DB /\ TokensAt(d, f, p, e, d.tokens[p][e] + 1)
      /\ f.active = d.active /\ f.unclaimed = d.unclaimed
  BY TokenTypes, TokenFields, TaskFields DEF Moved, SameTasks
<1> HIDE DEF f
<1>2. \A q \in Instances, x \in Elements :
         /\ d.tokens[q][x] \in Nat /\ d.active[q][x] \in Nat /\ d.unclaimed[q][x] \in Nat
         /\ f.active[q][x] = d.active[q][x] /\ f.unclaimed[q][x] = d.unclaimed[q][x]
         /\ f.tokens[q][x] = IF q = p /\ x = e THEN d.tokens[p][e] + 1 ELSE d.tokens[q][x]
  BY <1>1, CountValues DEF TokensAt
<1>3. ASSUME e \in CandidateTasks PROVE Keeps(d, CreateUnclaimed(f, p, e))
  <2> DEFINE h == CreateUnclaimed(f, p, e)
  <2>1. UnclaimedAt(f, h, p, e, f.unclaimed[p][e] + 1)
    BY <1>1, TaskCalls
  <2> HIDE DEF h
  <2>2. Keeps(d, h)
    BY <1>2, <1>3, <2>1 DEF UnclaimedAt, Keeps, Balanced
  <2> QED BY <2>2 DEF h
<1>4. Keeps(d, CreateActive(f, p, e))
  <2> DEFINE h == CreateActive(f, p, e)
  <2>1. ActiveAt(f, h, p, e, f.active[p][e] + 1)
    BY <1>1, TaskCalls
  <2> HIDE DEF h
  <2>2. Keeps(d, h)
    BY <1>2, <2>1 DEF ActiveAt, Keeps, Balanced
  <2> QED BY <2>2 DEF h
<1> QED BY <1>3, <1>4 DEF f

\* an interrupted one loses it with its tokens, unless it waits for a claim,
LEMMA TaskInterrupted ==
    ASSUME NEW d \in DB, NEW p \in Instances, NEW e \in Elements, e \notin CandidateTasks
    PROVE  Keeps(d, CompleteAt(ConsumeAt(d, p, e), p, e))
<1> DEFINE f == ConsumeAt(d, p, e)
           h == CompleteAt(f, p, e)
<1>1. /\ f \in DB /\ TokensAt(d, f, p, e, 0)
      /\ f.active = d.active /\ f.unclaimed = d.unclaimed
  BY TokenTypes, TokenFields, TaskFields DEF Moved, SameTasks
<1> HIDE DEF f
<1>2. ActiveAt(f, h, p, e, 0)
  BY <1>1, TaskCalls
<1> HIDE DEF h
<1>3. Keeps(d, h)
  BY <1>1, <1>2 DEF ActiveAt, TokensAt, Keeps, Balanced
<1> QED BY <1>3 DEF f, h

\* and a task that is completed with the only token loses both.
LEMMA TaskCompleted ==
    ASSUME NEW d \in DB, NEW p \in Instances, NEW e \in Elements,
           d.active[p][e] > 0, d.tokens[p][e] <= 1, NEW vals \in Values
    PROVE  Keeps(d, DeleteSubscriptionsByInstance(
                        ConsumeOne(SetVariables(CompleteOne(d, p, e), p, vals), p, e), p))
<1> DEFINE f == CompleteOne(d, p, e)
           g == SetVariables(f, p, vals)
           h == ConsumeOne(g, p, e)
<1>1. \A q \in Instances, x \in Elements :
         d.tokens[q][x] \in Nat /\ d.active[q][x] \in Nat /\ d.unclaimed[q][x] \in Nat
  BY CountValues
<1>2. OneLess(d.active[p][e]) = d.active[p][e] - 1
  BY <1>1 DEF OneLess
<1>3. f \in DB /\ ActiveAt(d, f, p, e, d.active[p][e] - 1)
  BY <1>2, ActivityTypes, TaskCalls
<1> HIDE DEF f
<1>4. g \in DB /\ Alike(f, g)
  BY <1>3, InstanceUpdateTypes, RowsAlike
<1> HIDE DEF g
<1>5. h \in DB /\ TokensAt(g, h, p, e, OneLess(g.tokens[p][e])) /\ SameTasks(g, h)
  BY <1>4, TokenTypes, TokenFields, TaskFields DEF Moved
<1> HIDE DEF h
<1>6. Alike(h, DeleteSubscriptionsByInstance(h, p))
  BY <1>5, RowsAlike
<1>7. Keeps(d, h)
  <2> SUFFICES ASSUME NEW q \in Instances, NEW x \in Elements, IsTask(x), Balanced(d, q, x)
               PROVE  Balanced(h, q, x)
    BY DEF Keeps
  <2>1. CASE q = p /\ x = e
    <3>1. d.tokens[p][e] = 1 /\ d.active[p][e] = 1 /\ d.unclaimed[p][e] = 0
      BY <1>1, <2>1 DEF Balanced
    <3>2. g.tokens[p][e] = 1 /\ g.active[p][e] = 0 /\ g.unclaimed[p][e] = 0
      BY <1>3, <1>4, <2>1, <3>1 DEF ActiveAt, Alike, AlikeAt
    <3>3. h.tokens[p][e] = 0 /\ h.active[p][e] = 0 /\ h.unclaimed[p][e] = 0
      BY <1>5, <3>2 DEF TokensAt, SameTasks, OneLess
    <3> QED BY <2>1, <3>3 DEF Balanced
  <2>2. CASE ~(q = p /\ x = e)
    BY <1>3, <1>4, <1>5, <2>2
       DEF ActiveAt, Alike, AlikeAt, TokensAt, SameTasks, Balanced
  <2> QED BY <2>1, <2>2
<1> QED BY <1>6, <1>7, AlikeKeeps, KeepsTwice DEF f, g, h

\* Claiming a task and giving it back only change who may do it.
LEMMA TaskClaimed ==
    ASSUME NEW d \in DB, NEW p \in Instances, NEW e \in Elements
    PROVE  /\ d.unclaimed[p][e] > 0 => Keeps(d, Claim(d, p, e))
           /\ d.active[p][e] > 0 /\ e \in CandidateTasks => Keeps(d, Unclaim(d, p, e))
<1>1. \A q \in Instances, x \in Elements :
         d.tokens[q][x] \in Nat /\ d.active[q][x] \in Nat /\ d.unclaimed[q][x] \in Nat
  BY CountValues
<1>2. ASSUME d.unclaimed[p][e] > 0 PROVE Keeps(d, Claim(d, p, e))
  <2> DEFINE f == SetUnclaimed(d, p, e, OneLess(d.unclaimed[p][e]))
             h == CreateActive(f, p, e)
  <2>1. OneLess(d.unclaimed[p][e]) \in Nat
        /\ OneLess(d.unclaimed[p][e]) = d.unclaimed[p][e] - 1
    BY <1>1, <1>2, OneLessType DEF OneLess
  <2>2. f \in DB /\ UnclaimedAt(d, f, p, e, d.unclaimed[p][e] - 1)
    BY <2>1, CountTypes, TaskCalls
  <2> HIDE DEF f
  <2>3. ActiveAt(f, h, p, e, f.active[p][e] + 1)
    BY <2>2, TaskCalls
  <2> HIDE DEF h
  <2>4. Keeps(d, h)
    BY <1>1, <1>2, <2>2, <2>3 DEF UnclaimedAt, ActiveAt, Keeps, Balanced
  <2> QED BY <2>4 DEF Claim, f, h
<1>3. ASSUME d.active[p][e] > 0, e \in CandidateTasks PROVE Keeps(d, Unclaim(d, p, e))
  <2> DEFINE f == CompleteOne(d, p, e)
             h == CreateUnclaimed(f, p, e)
  <2>1. OneLess(d.active[p][e]) = d.active[p][e] - 1
    BY <1>1, <1>3 DEF OneLess
  <2>2. f \in DB /\ ActiveAt(d, f, p, e, d.active[p][e] - 1)
    BY <2>1, ActivityTypes, TaskCalls
  <2> HIDE DEF f
  <2>3. UnclaimedAt(f, h, p, e, f.unclaimed[p][e] + 1)
    BY <2>2, TaskCalls
  <2> HIDE DEF h
  <2>4. Keeps(d, h)
    BY <1>1, <1>3, <2>2, <2>3 DEF UnclaimedAt, ActiveAt, Keeps, Balanced
  <2> QED BY <2>4 DEF Unclaim, f, h
<1> QED BY <1>2, <1>3

\* The activities that hold a token until somebody else completes them.
IsHeld(e) == ElementType[e] \in {"userTask", "callActivity"}

\* None of them holds two: it is reached again only after it has been left.
NothingShared ==
    \A p \in Instances, e \in Elements : IsHeld(e) => db.tokens[p][e] <= 1

\* navigateFrom leaves one after CompleteTask or checkComplete took the token.
LeftInv == \A p \in Instances, e \in Elements :
               Arriving(p, e) /\ IsHeld(e) => db.tokens[p][e] = 0

\* LeftInv is inductive.
LEMMA LeftStep ==
    ASSUME NothingShared, StackInv, TypeOK', LeftInv, [Next]_allVars
    PROVE  LeftInv'
<1>0. /\ db \in DB /\ db' \in DB /\ stack \in Seq(Frame)
      /\ \A p \in Instances, e \in Elements :
             IsHeld(e) => OneLess(db.tokens[p][e]) = 0
  <2>1. /\ db \in DB /\ db' \in DB /\ stack \in Seq(Frame)
        /\ \A p \in Instances, e \in Elements : db.tokens[p][e] \in Nat
    BY CountValues DEF StackInv, TypeOK
  <2> QED BY <2>1 DEF NothingShared, OneLess
<1>1. CASE UNCHANGED allVars
  BY <1>1 DEF allVars, LeftInv, Arriving, Running, Top
<1>2. ASSUME ~Running("navigateFrom")' PROVE LeftInv'
  BY <1>2 DEF LeftInv, Arriving
<1>3. ASSUME stack' = <<>> PROVE LeftInv'
  BY <1>2, <1>3 DEF Running
<1>4. ASSUME stack # <<>>, NEW calls \in Seq(Frame), stack' = calls \o Rest, Effect(db', calls)
      PROVE  LeftInv'
  <2> SUFFICES ASSUME NEW p \in Instances, NEW e \in Elements, Arriving(p, e)', IsHeld(e)
               PROVE  db'.tokens[p][e] = 0
    BY DEF LeftInv
  <2> DEFINE by == db.caller[Top.instance]
  <2>1. /\ calls # <<>> /\ calls[1].call = "navigateFrom"
        /\ calls[1].instance = p /\ calls[1].element = e
    BY <1>4, Entered
  <2>2. Ends(db', calls)
    BY <1>0, <1>4, <2>1, WhereEntered DEF IsHeld, GatewayTypes, IsListener
  <2>3. /\ calls = navigateFrom(by.instance, by.element)
        /\ TokensAt(db, db', by.instance, by.element, OneLess(db.tokens[by.instance][by.element]))
    BY <2>1, <2>2 DEF Ends
  <2>4. by.instance = p /\ by.element = e
    BY <2>1, <2>3 DEF navigateFrom, Call
  <2>5. TokensAt(db, db', p, e, OneLess(db.tokens[p][e]))
    BY <2>3, <2>4
  <2> QED BY <1>0, <2>5 DEF TokensAt
<1>5. CASE Commit
  <2>1. stack # <<>> /\ stack' = Rest /\ FramesOK
    BY <1>5 DEF Commit, Running, StackInv
  <2>2. stack' # <<>> => 2 \in 1..Len(stack) /\ Head(stack') = stack[2]
    BY <1>0, <2>1 DEF Rest
  <2>3. ~Running("navigateFrom")'
    BY <2>1, <2>2 DEF FramesOK, Running, Top
  <2> QED BY <1>2, <2>3
<1>6. CASE Served
  <2>1. CASE Starts \/ Completes
    <3>1. PICK p \in Instances, e \in Elements :
            /\ IsHeld(e) => TokensAt(db, db', p, e, OneLess(db.tokens[p][e]))
            /\ stack' = navigateFrom(p, e) \o commit
      BY <2>1 DEF Starts, Completes, IsHeld
    <3>2. Top'.instance = p /\ Top'.element = e
      <4>1. ASSUME NEW f PROVE Head(<<f>> \o commit) = f
        BY DEF commit
      <4>2. Top' = Call("navigateFrom", p, e, {}, {})
        BY <3>1, <4>1 DEF Top, navigateFrom
      <4> QED BY <4>2 DEF Call
    <3>3. IsHeld(e) => db'.tokens[p][e] = 0
      BY <1>0, <3>1 DEF TokensAt
    <3> QED BY <3>2, <3>3 DEF LeftInv, Arriving
  <2>2. CASE Touches \/ Holds \/ Terminates
    BY <1>3, <1>6, <2>2 DEF Served, Touches, Holds, Terminates
  <2>3. CASE Alerts
    <3>1. PICK xs : stack' = fireSignals(xs)
      BY <2>3 DEF Alerts
    <3> QED BY <1>2, <3>1 DEF Running, Top, fireSignals, Call
  <2> QED BY <1>6, <2>1, <2>2, <2>3 DEF Served
<1>7. CASE stack # <<>> /\ Handled
  BY <1>3, <1>4, <1>7 DEF Handled, Fail
<1>8. CASE RequestFails
  BY <1>3, <1>8, RequestEnds
<1> QED BY <1>1, <1>5, <1>6, <1>7, <1>8, NextEffect DEF StackInv, Happens

\* A handler keeps tokens and tasks in balance, or fails with tables that are.
Steady == \E d \in DB : Keeps(db, d) /\ (db' = d \/ Fail(d))

\* A handler that leaves such tables is steady, whatever it calls.
LEMMA SteadyCalls ==
    ASSUME NEW d \in DB
    PROVE  /\ Keeps(db, d) => /\ \A calls : Do(d, calls) => Steady
                              /\ Fail(d) => Steady
           /\ Alike(db, d) => /\ \A calls : Do(d, calls) => Steady
                              /\ Fail(d) => Steady
BY AlikeKeeps DEF Do, Steady

\* navigateFrom,
LEMMA NavigateFromSteady ==
    ASSUME StackInv, LeftInv,
           \/ NavigateStopped \/ handleOutgoingFlows \/ handleEndEvent
           \/ handleExclusiveGateway \/ handleParallelGateway \/ handleInclusiveGateway
    PROVE  Steady
<1> DEFINE p == Top.instance
           e == Top.element
<1>0. db \in DB /\ Alike(db, db) /\ Running("navigateFrom")
  BY DEF StackInv, TypeOK, Alike, AlikeAt, NavigateStopped, handleOutgoingFlows,
         handleEndEvent, handleExclusiveGateway, handleParallelGateway,
         handleInclusiveGateway, At
<1>1. p \in Instances /\ e \in Elements
  BY <1>0, TopOK DEF Running
<1>2. ConsumeOne(db, p, e) \in DB /\ ConsumeAt(db, p, e) \in DB
  BY <1>0, <1>1, TokenTypes
<1>3. ~IsTask(e) => Alike(db, ConsumeOne(db, p, e)) /\ Alike(db, ConsumeAt(db, p, e))
  BY <1>0, <1>1, ElsewhereAlike
<1>4. CASE NavigateStopped
  BY <1>0, <1>4, SteadyCalls DEF NavigateStopped
<1>5. CASE handleOutgoingFlows
  <2>1. Alike(db, ConsumeOne(db, p, e))
    <3>1. CASE IsTask(e)
      <4>1. db.tokens[p][e] = 0
        BY <1>0, <1>1, <3>1 DEF LeftInv, Arriving, IsTask, IsHeld
      <4>2. /\ TokensAt(db, ConsumeOne(db, p, e), p, e, 0)
            /\ SameTasks(db, ConsumeOne(db, p, e))
        BY <1>0, <1>1, <4>1, TokenFields, TaskFields DEF Moved, OneLess
      <4> QED BY <4>1, <4>2 DEF TokensAt, SameTasks, Alike, AlikeAt
    <3> QED BY <1>3, <3>1
  <2>2. (\E calls : Do(db, calls)) \/ (\E calls : Do(ConsumeOne(db, p, e), calls))
    BY <1>5 DEF handleOutgoingFlows
  <2> QED BY <1>0, <1>2, <2>1, <2>2, SteadyCalls
<1>6. CASE \/ handleEndEvent \/ handleExclusiveGateway \/ handleInclusiveGateway
  <2>1. ~IsTask(e)
    BY <1>6 DEF handleEndEvent, handleExclusiveGateway, handleInclusiveGateway, At, IsTask
  <2>2. \/ \E calls : Do(ConsumeAt(db, p, e), calls)
        \/ Fail(db) \/ Fail(ConsumeAt(db, p, e))
    BY <1>6 DEF handleEndEvent, handleExclusiveGateway, handleInclusiveGateway
  <2> QED BY <1>0, <1>2, <1>3, <2>1, <2>2, SteadyCalls
<1>7. CASE handleParallelGateway
  <2> DEFINE n == db.arrived[p][e] + 1
             consumed == ConsumeAt(db, p, e)
  <2>1. ~IsTask(e)
    BY <1>7 DEF handleParallelGateway, At, IsTask
  <2>2. n \in Nat
    BY <1>0, <1>1, CountValues
  <2>3. /\ SetArrived(db, p, e, n) \in DB /\ Alike(db, SetArrived(db, p, e, n))
        /\ consumed \in DB /\ Alike(db, consumed)
        /\ SetArrived(consumed, p, e, 0) \in DB /\ Alike(consumed, SetArrived(consumed, p, e, 0))
    BY <1>0, <1>1, <1>2, <1>3, <2>1, <2>2, InstanceUpdateTypes, RowsAlike
  <2>4. \/ \E calls : Do(SetArrived(db, p, e, n), calls)
        \/ \E calls : Do(SetArrived(consumed, p, e, 0), calls)
        \/ \E calls : Do(consumed, calls)
    BY <1>7 DEF handleParallelGateway
  <2> HIDE DEF consumed, n
  <2> QED BY <2>3, <2>4, SteadyCalls, AlikeTwice
<1> QED BY <1>4, <1>5, <1>6, <1>7

\* takeSequenceFlow,
LEMMA TakeSteady ==
    ASSUME StackInv,
           \/ TakeToUserTask \/ TakeThrough \/ TakeToGateway \/ handleIntermediateCatchEvent
           \/ handleIntermediateThrowEvent \/ TakeFails
    PROVE  Steady
<1> DEFINE p == Top.instance
<1>0. TypeOK /\ db \in DB /\ Alike(db, db)
  BY DEF StackInv, TypeOK, Alike, AlikeAt
<1>1. CASE TakeToUserTask
  <2> DEFINE created(e) ==
               IF e \in CandidateTasks
               THEN CreateUnclaimed(CreateToken(db, p, e), p, e)
               ELSE CreateActive(CreateToken(db, p, e), p, e)
  <2>1. PICK f \in Flows, i \in SubscriptionIDs :
          /\ Taking(f, {"userTask"})
          /\ Do(CreateSubscriptions(created(TargetRef[f]), p, BoundarySignals(TargetRef[f]), i),
                MoreFlows(f))
    BY <1>1 DEF TakeToUserTask, CreateTask
  <2> DEFINE e == TargetRef[f]
  <2>2. p \in Instances /\ e \in Elements
    BY <1>0, <2>1, TakingFacts
  <2>3. CreateToken(db, p, e) \in DB
    BY <1>0, <2>2, TokenTypes
  <2>4. created(e) \in DB /\ Keeps(db, created(e))
    BY <1>0, <2>2, <2>3, ActivityTypes, TaskCreated
  <2> HIDE DEF created
  <2>5. BoundarySignals(e) \in SUBSET Elements
    BY DEF BoundarySignals
  <2> DEFINE d == CreateSubscriptions(created(e), p, BoundarySignals(e), i)
  <2>6. d \in DB /\ Alike(created(e), d)
    BY <2>2, <2>4, <2>5, SubscriptionTypes, RowsAlike
  <2>7. Do(d, MoreFlows(f))
    BY <2>1
  <2> HIDE DEF d
  <2> QED BY <2>4, <2>6, <2>7, SteadyCalls, AlikeKeeps, KeepsTwice
<1>2. CASE TakeThrough \/ handleIntermediateThrowEvent \/ TakeFails
  <2>1. Fail(db) \/ \E calls : Do(db, calls)
    BY <1>2 DEF TakeThrough, handleIntermediateThrowEvent, TakeFails
  <2> QED BY <1>0, <2>1, SteadyCalls
<1>3. CASE TakeToGateway
  <2>1. PICK f \in Flows :
          /\ Taking(f, GatewayTypes)
          /\ \E calls : Do(CreateToken(db, p, TargetRef[f]), calls)
    BY <1>3 DEF TakeToGateway
  <2>2. p \in Instances /\ TargetRef[f] \in Elements /\ ~IsTask(TargetRef[f])
    BY <1>0, <2>1, TakingFacts DEF IsTask, GatewayTypes
  <2>3. /\ CreateToken(db, p, TargetRef[f]) \in DB
        /\ Alike(db, CreateToken(db, p, TargetRef[f]))
    BY <1>0, <2>2, TokenTypes, ElsewhereAlike
  <2> QED BY <2>1, <2>3, SteadyCalls
<1>4. CASE handleIntermediateCatchEvent
  <2> DEFINE waited(e) == IF SignalRef[e] = NoSignal THEN {} ELSE {e}
  <2>1. PICK f \in Flows, i \in SubscriptionIDs :
          /\ Taking(f, {"intermediateCatchEvent"})
          /\ Do(CreateSubscriptions(CreateToken(db, p, TargetRef[f]), p,
                                    waited(TargetRef[f]), i),
                MoreFlows(f))
    BY <1>4 DEF handleIntermediateCatchEvent
  <2> DEFINE e == TargetRef[f]
             d == CreateSubscriptions(CreateToken(db, p, e), p, waited(e), i)
  <2>2. p \in Instances /\ e \in Elements /\ ~IsTask(e)
    BY <1>0, <2>1, TakingFacts DEF IsTask
  <2>3. CreateToken(db, p, e) \in DB /\ Alike(db, CreateToken(db, p, e))
    BY <1>0, <2>2, TokenTypes, ElsewhereAlike
  <2>4. d \in DB /\ Alike(CreateToken(db, p, e), d)
    BY <2>2, <2>3, SubscriptionTypes, RowsAlike
  <2>5. Do(d, MoreFlows(f))
    BY <2>1
  <2> HIDE DEF d
  <2> QED BY <2>3, <2>4, <2>5, SteadyCalls, AlikeTwice
<1> QED BY <1>1, <1>2, <1>3, <1>4

\* a call of a child,
LEMMA SpawnSteady ==
    ASSUME StackInv, handleCallActivity
    PROVE  Steady
<1> DEFINE p == Top.instance
           by(f) == [instance |-> p, element |-> TargetRef[f]]
           vals(f) == IF TargetRef[f] \in InheritVariables THEN db.variables[p] ELSE NoVariables
           counts(f) == IF TargetRef[f] \in InheritVariables THEN db.arrived[p] ELSE Zeros
           child(f, c) == CreateProcessInstance(db, c, CalledElement[TargetRef[f]],
                                                by(f), vals(f), counts(f))
           opened(f, c) == CreateActive(child(f, c), p, TargetRef[f])
           waiting(f, c) == CreateToken(opened(f, c), p, TargetRef[f])
<1>1. PICK f \in Flows, c \in Instances \ Roots :
        /\ Taking(f, {"callActivity"})
        /\ CalledElement[TargetRef[f]] # NoDefinition
        /\ \E calls : Do(waiting(f, c), calls)
  BY DEF handleCallActivity, Calling, CreateChild
<1> DEFINE e == TargetRef[f]
<1>2. db \in DB /\ p \in Instances /\ e \in Elements /\ ~IsTask(e)
  BY <1>1, TakingFacts DEF StackInv, IsTask
<1>3. CalledElement[e] \in Definitions /\ by(f) \in Caller
  BY <1>1, <1>2, ElementsAssumption DEF Caller
<1>4. vals(f) \in Values /\ counts(f) \in PerElement
  <2>1. db.variables \in [Instances -> Values] /\ db.arrived \in [Instances -> PerElement]
    BY <1>2 DEF DB
  <2> QED BY <1>2, <2>1, NullsAssumption DEF Zeros
<1> HIDE DEF vals, counts
<1>5. child(f, c) \in DB /\ Alike(db, child(f, c))
  BY <1>2, <1>3, <1>4, CreateProcessInstanceType, RowsAlike
<1> HIDE DEF child
<1>6. opened(f, c) \in DB /\ Alike(child(f, c), opened(f, c))
  BY <1>2, <1>5, ActivityTypes, ElsewhereAlike
<1> HIDE DEF opened
<1>7. waiting(f, c) \in DB /\ Alike(opened(f, c), waiting(f, c))
  BY <1>2, <1>6, TokenTypes, ElsewhereAlike
<1> HIDE DEF waiting
<1>8. Alike(db, waiting(f, c))
  BY <1>5, <1>6, <1>7, AlikeTwice
<1> QED BY <1>1, <1>7, <1>8, SteadyCalls

\* An interrupting boundary event completes active tasks only, not those that
\* wait for a claim: none is attached to a task with candidates.
NoPoolInterrupted ==
    \A b \in CancelActivity : AttachedToRef[b] \notin CandidateTasks

\* The end of an instance changes a call activity of its caller, no task.
LEMMA EndSteady ==
    ASSUME StackInv, CheckComplete
    PROVE  Steady
<1> DEFINE p == Top.instance
           by == db.caller[p]
           completed == SetState(db, p, "completed")
           consumed == ConsumeOne(completed, by.instance, by.element)
           told == CompleteAt(consumed, by.instance, by.element)
<1>0. db \in DB /\ Alike(db, db) /\ Linked(db) /\ p \in Instances
  <2>1. db \in DB /\ Alike(db, db) /\ Linked(db)
    BY DEF StackInv, TypeOK, Alike, AlikeAt
  <2> QED BY <2>1, TopOK DEF CheckComplete, Running, Onwards
<1>1. completed \in DB /\ Alike(db, completed)
  BY <1>0, InstanceUpdateTypes, RowsAlike
<1>2. \/ \E calls : Do(db, calls)
      \/ \E calls : Do(completed, calls)
      \/ by # NoInstance /\ \E calls : Do(told, calls)
  BY DEF CheckComplete
<1> HIDE DEF completed
<1>3. ASSUME by # NoInstance PROVE told \in DB /\ Alike(db, told)
  <2>1. by.instance \in Instances /\ by.element \in Elements /\ ~IsTask(by.element)
    BY <1>0, <1>3 DEF DB, Caller, Linked, IsTask
  <2> HIDE DEF by
  <2>2. consumed \in DB /\ Alike(completed, consumed)
    BY <1>1, <2>1, TokenTypes, ElsewhereAlike
  <2> HIDE DEF consumed
  <2>3. told \in DB /\ Alike(consumed, told)
    BY <2>1, <2>2, ActivityTypes, ElsewhereAlike
  <2> QED BY <1>1, <2>2, <2>3, AlikeTwice
<1> HIDE DEF told
<1> QED BY <1>0, <1>1, <1>2, <1>3, SteadyCalls

\* Signals: an interrupting boundary event closes the task whose tokens it takes.
LEMMA SignalSteady ==
    ASSUME NoPoolInterrupted, StackInv,
           FireSignal \/ DeleteSubscription \/ triggerEventElement \/ Commit
    PROVE  Steady
<1>0. db \in DB /\ Alike(db, db) /\ Keeps(db, db)
  BY DEF StackInv, TypeOK, Alike, AlikeAt, Keeps
<1>1. CASE FireSignal
  BY <1>0, <1>1, SteadyCalls DEF FireSignal
<1>2. CASE Commit
  BY <1>0, <1>2 DEF Commit, Steady
<1>3. CASE DeleteSubscription
  <2>1. PICK x \in Top.subs : Do(DeleteSignalSubscription(db, x), <<>>)
    BY <1>3 DEF DeleteSubscription
  <2>2. Top.subs \in SUBSET Subscription
    BY <1>3, TopOK DEF DeleteSubscription, Running
  <2>3. x.instance \in Instances
    BY <2>1, <2>2 DEF Subscription
  <2>4. DeleteSignalSubscription(db, x) \in DB /\ Alike(db, DeleteSignalSubscription(db, x))
    BY <1>0, <2>3, SubscriptionTypes, RowsAlike
  <2> QED BY <2>1, <2>4, SteadyCalls
<1>4. CASE triggerEventElement
  <2> DEFINE p == Top.instance
             e == Top.element
             a == AttachedToRef[e]
             d == Interrupt(p, e)
             f == ConsumeAt(d, p, e)
  <2>1. p \in Instances /\ e \in Elements /\ ~IsTask(e)
    <3>1. Running("triggerEventElement") /\ FrameOK(Top, db)
      BY <1>4, TopOK DEF triggerEventElement, Running
    <3> QED BY <3>1, TopOK DEF Running, FrameOK, IsListener, IsTask
  <2>2. d \in DB /\ Keeps(db, d)
    <3>1. CASE d = db
      BY <1>0, <3>1
    <3>2. CASE /\ e \in CancelActivity /\ a # NoElement
               /\ d = CompleteAt(ConsumeAt(db, p, a), p, a)
      <4>1. a \in Elements /\ a \notin CandidateTasks
        BY <2>1, <3>2, ElementsAssumption DEF NoPoolInterrupted
      <4>2. ConsumeAt(db, p, a) \in DB
        BY <1>0, <2>1, <4>1, TokenTypes
      <4>3. CompleteAt(ConsumeAt(db, p, a), p, a) \in DB
        BY <2>1, <4>1, <4>2, ActivityTypes
      <4> QED BY <1>0, <2>1, <3>2, <4>1, <4>3, TaskInterrupted
    <3> QED BY <3>1, <3>2 DEF Interrupt, Interrupts
  <2> HIDE DEF d
  <2>3. f \in DB /\ Alike(d, f)
    BY <2>1, <2>2, TokenTypes, ElsewhereAlike
  <2>4. (\E calls : Do(f, calls)) \/ (\E calls : Do(db, calls))
    BY <1>4 DEF triggerEventElement, d
  <2> HIDE DEF f
  <2> QED BY <1>0, <2>2, <2>3, <2>4, SteadyCalls, AlikeKeeps, KeepsTwice
<1> QED BY <1>1, <1>2, <1>3, <1>4

\* Every handler is steady.
LEMMA NavigateSteady ==
    ASSUME NoPoolInterrupted, StackInv, LeftInv, Navigate
    PROVE  Steady
BY NavigateFromSteady, TakeSteady, SpawnSteady, EndSteady, SignalSteady DEF Navigate

\* What has ended stays ended while a request is served, or it is undone.
LEMMA NavigateForward ==
    ASSUME StackInv, Navigate
    PROVE  Forward(db, db') \/ (saved # NoSnapshot /\ db' = saved)
<1>1. stack # <<>> /\ (Handled \/ Commit)
  BY NavigateEffect, NavigateRuns DEF StackInv
<1>2. CASE Commit
  BY <1>2 DEF Commit, Forward
<1>3. ASSUME NEW calls \in Seq(Frame), Effect(db', calls) PROVE Forward(db, db')
  BY <1>1, <1>3, EffectAdvances, AdvancingKeeps DEF Forward
<1>4. ASSUME NEW d \in DB, Fail(d), Loses(d)
      PROVE  Forward(db, db') \/ (saved # NoSnapshot /\ db' = saved)
  BY <1>4 DEF Fail, Loses, SameRows, Forward
<1> QED BY <1>1, <1>2, <1>3, <1>4 DEF Handled

\* Nor does a request revive it.
LEMMA ServeForward ==
    ASSUME StackInv, Serve
    PROVE  Forward(db, db') /\ saved' \in {saved, db, NoSnapshot}
<1>1. Served
  BY TransactionEffect, WriteEffect DEF Serve, StackInv
<1>2. CASE Starts \/ Completes
  BY <1>2 DEF Starts, Completes, Created, StateAt, SameRows, Forward, SavedIfPossible
<1>3. CASE Touches \/ Holds \/ Terminates \/ Alerts
  BY <1>3 DEF Touches, Holds, Terminates, Alerts, StateAt, Same, SameRows, Forward
<1> QED BY <1>1, <1>2, <1>3 DEF Served

\* Tokens and tasks in all instances that were not terminated.
Tasks(d) ==
    \A p \in Instances, e \in Elements :
        d.state[p] # "terminated" /\ IsTask(e) => Balanced(d, p, e)

TaskInv == Tasks(db) /\ (saved # NoSnapshot => Tasks(saved))

\* TaskInv is inductive.
LEMMA TaskStep ==
    ASSUME Undisturbed, NothingShared, NoPoolInterrupted, StackInv, Recoverable => OpenInv,
           LeftInv, TaskInv, [Next]_allVars
    PROVE  TaskInv'
<1>0. db \in DB /\ db # NoSnapshot /\ Tasks(db) /\ (saved # NoSnapshot => Tasks(saved))
  BY EngineAssumption DEF StackInv, TypeOK, TaskInv
<1>1. CASE UNCHANGED <<db, stack, saved>>
  BY <1>1 DEF TaskInv, Tasks
<1>2. ASSUME NEW d, Keeps(db, d), Forward(db, d) PROVE Tasks(d)
  BY <1>0, <1>2 DEF Keeps, Forward, Tasks
<1>3. CASE Navigate
  <2>1. saved' \in {saved, NoSnapshot}
    BY <1>3, NavigateEffect DEF StackInv, Handled, Commit, Fail
  <2>2. CASE saved # NoSnapshot /\ db' = saved
    BY <1>0, <2>1, <2>2 DEF TaskInv
  <2>3. CASE Forward(db, db')
    <3>1. PICK d \in DB : Keeps(db, d) /\ (db' = d \/ Fail(d))
      BY <1>3, NavigateSteady DEF Steady
    <3>2. db' = d \/ (saved # NoSnapshot /\ db' = saved)
      BY <3>1 DEF Fail
    <3> QED BY <1>0, <1>2, <2>1, <2>3, <3>1, <3>2 DEF TaskInv
  <2> QED BY <1>3, <2>2, <2>3, NavigateForward
<1>4. CASE RequestFails
  BY <1>0, <1>1, <1>4, FailuresUndone DEF Fail, TaskInv
<1>5. CASE Serve
  <2>1. Forward(db, db') /\ saved' \in {saved, db, NoSnapshot}
    BY <1>5, ServeForward
  <2>2. ASSUME NEW d, Keeps(db, d), db' = d PROVE TaskInv'
    BY <1>0, <1>2, <2>1, <2>2 DEF TaskInv
  <2>3. CASE StartProcessInstance
    <3>1. PICK def \in Definitions, vals \in Values, p \in Roots :
            db' = CreateProcessInstance(db, p, def, NoInstance, vals, Zeros)
      BY <2>3 DEF StartProcessInstance, RunInTransaction
    <3>2. Alike(db, CreateProcessInstance(db, p, def, NoInstance, vals, Zeros))
      BY <1>0, StoreAssumption, RowsAlike
    <3> QED BY <2>2, <3>1, <3>2, AlikeKeeps
  <2>4. ASSUME NEW p \in Instances, NEW e \in Elements, CompleteTask(p, e) PROVE TaskInv'
    <3> DEFINE d(vals) == DeleteSubscriptionsByInstance(
                   ConsumeOne(SetVariables(CompleteOne(db, p, e), p, vals), p, e), p)
    <3>1. PICK vals \in Values : db' = d(vals)
      BY <2>4 DEF CompleteTask, Completable, RunInTransaction
    <3>2. db.active[p][e] > 0 /\ db.tokens[p][e] <= 1
      BY <2>4 DEF CompleteTask, Completable, NothingShared, IsHeld
    <3>3. Keeps(db, d(vals))
      BY <1>0, <3>2, TaskCompleted
    <3> HIDE DEF d
    <3> QED BY <2>2, <3>1, <3>3
  <2>5. CASE ClaimTask
    <3>1. PICK p \in Instances, e \in Elements :
            db.unclaimed[p][e] > 0 /\ db' = Claim(db, p, e)
      BY <2>5 DEF ClaimTask, Write
    <3> QED BY <1>0, <2>2, <3>1, TaskClaimed
  <2>6. CASE UnclaimTask
    <3>1. PICK p \in Instances, e \in CandidateTasks :
            db.active[p][e] > 0 /\ db' = Unclaim(db, p, e)
      BY <2>6 DEF UnclaimTask, Write
    <3>2. e \in Elements
      BY ElementsAssumption
    <3> QED BY <1>0, <2>2, <3>1, <3>2, TaskClaimed
  <2>7. CASE SuspendProcessInstance \/ ResumeProcessInstance
    <3>1. PICK p \in Instances, s \in LiveStates : db' = SetState(db, p, s)
      BY <2>7 DEF SuspendProcessInstance, ResumeProcessInstance, Write
    <3> QED BY <1>0, <2>2, <3>1, RowsAlike, AlikeKeeps
  <2>8. CASE TerminateProcessInstance
    <3>1. PICK p \in Instances :
            db' = SetState(CompleteAll(ConsumeAll(db, p), p), p, "terminated")
      BY <2>8 DEF TerminateProcessInstance, Write
    <3>2. \A q \in Instances :
             IF q = p THEN db'.state[q] = "terminated"
             ELSE /\ db'.state[q] = db.state[q] /\ db'.tokens[q] = db.tokens[q]
                  /\ db'.active[q] = db.active[q] /\ db'.unclaimed[q] = db.unclaimed[q]
      BY <1>0, <3>1 DEF SetState, CompleteAll, ConsumeAll, DB
    <3>3. Tasks(db')
      BY <1>0, <3>2 DEF Tasks, Balanced
    <3> QED BY <1>0, <2>1, <3>3 DEF TaskInv
  <2>9. CASE ReceiveSignal
    <3>1. db' = db /\ Keeps(db, db)
      BY <2>9 DEF ReceiveSignal, Keeps
    <3> QED BY <2>2, <3>1
  <2> QED BY <1>5, <2>3, <2>4, <2>5, <2>6, <2>7, <2>8, <2>9 DEF Serve
<1> QED BY <1>1, <1>3, <1>4, <1>5 DEF Next, allVars

\* No user task or call activity of the definitions is reached twice at once,
\* and requests that die half way are undone, or there are none; then every open
\* task of an instance that has not ended has its token, and every token at a
\* user task its open task: in any definitions, whatever is claimed, suspended or
\* interrupted.  Without a rollback, a takeSequenceFlow that stops between the
\* token and the task leaves one without the other (TasksHoldTokens;
\* takeSequenceFlow, CompleteTask and triggerEventElement).
THEOREM TasksKeepTokens ==
    ASSUME Undisturbed, NoPoolInterrupted
    PROVE  Spec /\ []NothingShared => []TasksHoldTokens
<1> DEFINE Open == Recoverable => OpenInv
<1>1. Init => LeftInv /\ TaskInv
  <2> SUFFICES ASSUME Init PROVE LeftInv /\ TaskInv
    OBVIOUS
  <2>1. /\ stack = <<>> /\ saved = NoSnapshot
        /\ \A p \in Instances, e \in Elements :
               db.tokens[p][e] = 0 /\ db.active[p][e] = 0 /\ db.unclaimed[p][e] = 0
    BY DEF Init, EmptyDB, Zeros
  <2> QED BY <2>1 DEF LeftInv, Arriving, Running, TaskInv, Tasks, Balanced
<1>2. NothingShared /\ StackInv /\ LeftInv /\ TypeOK' /\ [Next]_allVars => LeftInv'
  BY LeftStep
<1>3. NothingShared /\ StackInv /\ Open /\ LeftInv /\ TaskInv /\ [Next]_allVars => TaskInv'
  BY TaskStep
<1>4. TaskInv => TasksHoldTokens
  BY DEF TaskInv, Tasks, Balanced, IsTask, TasksHoldTokens, Settled, Quiescent, Committed, Live
<1> QED BY <1>1, <1>2, <1>3, <1>4, OpenCorrect, StackCorrect, TypeCorrect, PTL DEF Spec

-----------------------------------------------------------------------------
(* Call activities. *)

\* A throw event leads on: it is never where an instance ends.
ThrowsGoOn ==
    \A e \in Elements : ElementType[e] = "intermediateThrowEvent" => FindOutgoingFlows(e) # {}

Unchecked(calls) == \A k \in 1..Len(calls) : calls[k].call # "checkComplete"

\* checkComplete is called last and for running instances only, and runs at once.
CheckInv ==
    \A k \in 1..Len(stack) :
        stack[k].call = "checkComplete" => k = 1 /\ db.state[stack[k].instance] = "running"

\* The calls of a handler: no check for completion, or nothing else.
Checks(d, calls) ==
    /\ calls \in Seq(Frame)
    /\ \/ Unchecked(calls)
       \/ \E p \in Instances : calls = checkComplete(p) /\ d.state[p] = "running"

\* Two lists of calls without a check are one.
LEMMA UncheckedTwice ==
    ASSUME NEW m \in Seq(Frame), NEW n \in Seq(Frame), Unchecked(m), Unchecked(n)
    PROVE  Unchecked(m \o n)
BY DEF Unchecked

\* Only checkComplete checks for completion.
LEMMA UncheckedCalls ==
    /\ Unchecked(<<>>) /\ Unchecked(commit)
    /\ \A p, e : Unchecked(navigateFrom(p, e))
    /\ \A p, fs : Unchecked(takeFlows(p, fs))
    /\ \A x : Unchecked(triggerElement(x)) /\ Unchecked(deleteSubscription(x))
    /\ \A xs : Unchecked(fireSignals(xs))
<1> USE DEF Unchecked, Call
<1>1. Unchecked(<<>>)
  OBVIOUS
<1>2. Unchecked(commit)
  BY DEF commit
<1>3. ASSUME NEW p, NEW e PROVE Unchecked(navigateFrom(p, e))
  BY DEF navigateFrom
<1>4. ASSUME NEW p, NEW fs PROVE Unchecked(takeFlows(p, fs))
  BY DEF takeFlows
<1>5. ASSUME NEW x PROVE Unchecked(triggerElement(x)) /\ Unchecked(deleteSubscription(x))
  BY DEF triggerElement, deleteSubscription
<1>6. ASSUME NEW xs PROVE Unchecked(fireSignals(xs))
  BY DEF fireSignals
<1> QED BY <1>1, <1>2, <1>3, <1>4, <1>5, <1>6

\* A handler that makes such calls keeps CheckInv.
LEMMA CheckAfter ==
    ASSUME StackInv, CheckInv, stack # <<>>, NEW calls, Checks(db', calls), stack' = calls \o Rest
    PROVE  CheckInv'
<1>0. stack \in Seq(Frame) /\ calls \in Seq(Frame)
  BY DEF StackInv, TypeOK, Checks
<1> SUFFICES ASSUME NEW k \in 1..Len(stack'), stack'[k].call = "checkComplete"
             PROVE  k = 1 /\ db'.state[stack'[k].instance] = "running"
  BY DEF CheckInv
<1>1. CASE k > Len(calls)
  <2> DEFINE j == k - Len(calls) + 1
  <2>1. j \in 2..Len(stack) /\ stack'[k] = stack[j]
    BY <1>0, <1>1, StackAfter DEF Rest
  <2>2. j \in 1..Len(stack) /\ j # 1
    BY <1>0, <2>1
  <2> HIDE DEF j
  <2> QED BY <2>1, <2>2 DEF CheckInv
<1>2. CASE k <= Len(calls)
  <2>1. k \in 1..Len(calls) /\ stack'[k] = calls[k]
    BY <1>0, <1>2, StackAfter DEF Rest
  <2>2. PICK p \in Instances : calls = checkComplete(p) /\ db'.state[p] = "running"
    BY <2>1 DEF Checks, Unchecked
  <2>3. k = 1 /\ calls[1].instance = p
    BY <2>1, <2>2 DEF checkComplete, Call
  <2> QED BY <2>1, <2>2, <2>3
<1>3. k \in Nat /\ Len(calls) \in Nat
  BY <1>0, StackAfter DEF Rest
<1> QED BY <1>1, <1>2, <1>3

\* What the handlers do on the stack,
Checking == stack' = <<>> \/ \E calls : Checks(db', calls) /\ stack' = calls \o Rest

\* which the calls without a check do, and errors:
LEMMA CheckingCalls ==
    /\ \A d : \A calls \in Seq(Frame) : Do(d, calls) /\ Unchecked(calls) => Checking
    /\ \A d : Do(d, <<>>) => Checking
    /\ \A p \in Instances, e \in Elements : \A d : Do(d, navigateFrom(p, e)) => Checking
    /\ \A d : Fail(d) => Checking
<1>1. ASSUME NEW d, NEW calls \in Seq(Frame), Do(d, calls), Unchecked(calls)
      PROVE  Checking
  BY <1>1 DEF Do, Checking, Checks
<1>2. ASSUME NEW d, Do(d, <<>>) PROVE Checking
  <2>1. <<>> \in Seq(Frame)
    OBVIOUS
  <2> QED BY <1>1, <1>2, <2>1, UncheckedCalls
<1>3. ASSUME NEW p \in Instances, NEW e \in Elements, NEW d, Do(d, navigateFrom(p, e))
      PROVE  Checking
  BY <1>1, <1>3, CallTypes, UncheckedCalls
<1>4. ASSUME NEW d, Fail(d) PROVE Checking
  BY <1>4 DEF Fail, Checking
<1> QED BY <1>1, <1>2, <1>3, <1>4

\* in navigateFrom,
LEMMA NavigateFromChecks ==
    ASSUME StackInv,
           \/ NavigateStopped \/ handleOutgoingFlows \/ handleEndEvent
           \/ handleExclusiveGateway \/ handleParallelGateway \/ handleInclusiveGateway
    PROVE  Checking
<1> DEFINE p == Top.instance
           e == Top.element
           consumed == ConsumeAt(db, p, e)
<1>0. db \in DB /\ Running("navigateFrom")
  BY DEF StackInv, TypeOK, NavigateStopped, handleOutgoingFlows,
         handleEndEvent, handleExclusiveGateway, handleParallelGateway,
         handleInclusiveGateway, At
<1>1. p \in Instances /\ e \in Elements
  BY <1>0, TopOK DEF Running
<1>2. /\ SameRows(db, consumed)
      /\ SameRows(db, SetArrived(consumed, p, e, 0))
  <2>1. consumed \in DB /\ SameRows(db, consumed)
    BY <1>0, <1>1, TokenTypes, TokenFields DEF Moved
  <2> HIDE DEF consumed
  <2>2. SameRows(consumed, SetArrived(consumed, p, e, 0))
    BY <1>1, <2>1, CounterFields
  <2> QED BY <2>1, <2>2 DEF SameRows
<1>3. ASSUME NEW d, SameRows(db, d), db.state[p] = "running", Do(d, checkComplete(p))
      PROVE  Checking
  BY <1>1, <1>3, CallTypes DEF Do, Checking, Checks, SameRows
<1>4. ASSUME NEW d, NEW fs \in SUBSET Flows, Do(d, takeFlows(p, fs)) PROVE Checking
  BY <1>1, <1>4, CallTypes, UncheckedCalls, CheckingCalls
<1>5. ASSUME NEW d, Do(d, <<>>) PROVE Checking
  BY <1>5, CheckingCalls
<1>6. SameRows(db, db) /\ FindOutgoingFlows(e) \in SUBSET Flows
  BY DEF SameRows, FindOutgoingFlows
<1>7. CASE NavigateStopped
  BY <1>5, <1>7 DEF NavigateStopped
<1>8. CASE handleOutgoingFlows
  <2>1. /\ db.state[p] = "running"
        /\ \/ Do(db, checkComplete(p))
           \/ Do(ConsumeOne(db, p, e), takeFlows(p, FindOutgoingFlows(e)))
    BY <1>8 DEF handleOutgoingFlows, At
  <2> QED BY <1>3, <1>4, <1>6, <2>1
<1>9. CASE handleEndEvent
  BY <1>2, <1>3, <1>9 DEF handleEndEvent, At
<1>10. CASE handleExclusiveGateway \/ handleInclusiveGateway
  <2>1. (\E d : Fail(d)) \/ \E d : \E fs \in SUBSET Flows : Do(d, takeFlows(p, fs))
    <3>1. CASE handleExclusiveGateway
      BY <1>6, <3>1 DEF handleExclusiveGateway, Decisive, DefaultOf
    <3>2. CASE handleInclusiveGateway
      BY <1>6, <3>2 DEF handleInclusiveGateway, DefaultOf
    <3> QED BY <1>10, <3>1, <3>2
  <2> QED BY <1>4, <2>1, CheckingCalls
<1>11. CASE handleParallelGateway
  <2>1. \/ \E d : Do(d, <<>>)
        \/ /\ db.state[p] = "running"
           /\ \E d : SameRows(db, d) /\ Do(d, Split(p, e))
    BY <1>2, <1>11 DEF handleParallelGateway, At
  <2>2. Split(p, e) = checkComplete(p) \/ Split(p, e) = takeFlows(p, FindOutgoingFlows(e))
    BY DEF Split
  <2> QED BY <1>3, <1>4, <1>5, <1>6, <2>1, <2>2
<1> QED BY <1>7, <1>8, <1>9, <1>10, <1>11

\* in takeSequenceFlow,
LEMMA TakeChecks ==
    ASSUME ThrowsGoOn, StackInv,
           \/ TakeToUserTask \/ TakeThrough \/ TakeToGateway \/ handleIntermediateCatchEvent
           \/ handleIntermediateThrowEvent \/ handleCallActivity \/ TakeFails
    PROVE  Checking
<1> DEFINE p == Top.instance
<1>0. TypeOK /\ db \in DB
  BY DEF StackInv, TypeOK
<1>1. ASSUME NEW f \in Flows, NEW types, Taking(f, types)
      PROVE  /\ p \in Instances /\ TargetRef[f] \in Elements
             /\ ElementType[TargetRef[f]] \in types
             /\ MoreFlows(f) \in Seq(Frame) /\ Unchecked(MoreFlows(f))
  BY <1>0, <1>1, TakingFacts, UncheckedCalls DEF MoreFlows
<1>2. CASE TakeToUserTask \/ handleIntermediateCatchEvent
  <2>1. PICK f \in Flows : \E types, d : Taking(f, types) /\ Do(d, MoreFlows(f))
    <3>1. CASE TakeToUserTask
      BY <3>1 DEF TakeToUserTask, CreateTask
    <3>2. CASE handleIntermediateCatchEvent
      BY <3>2 DEF handleIntermediateCatchEvent
    <3> QED BY <1>2, <3>1, <3>2
  <2> QED BY <1>1, <2>1, CheckingCalls
<1>3. CASE TakeThrough \/ TakeToGateway \/ handleCallActivity
  <2>1. \E f \in Flows, q \in Instances, e \in Elements : \E types :
           Taking(f, types) /\ \E d : Do(d, navigateFrom(q, e) \o MoreFlows(f))
    <3>1. CASE TakeThrough
      BY <1>1, <3>1 DEF TakeThrough
    <3>2. CASE TakeToGateway
      BY <1>1, <3>2 DEF TakeToGateway
    <3>3. CASE handleCallActivity
      <4>1. PICK f \in Flows, c \in Instances \ Roots :
              /\ Taking(f, {"callActivity"})
              /\ CalledElement[TargetRef[f]] # NoDefinition
              /\ \E d : Do(d, navigateFrom(c, StartEventID[CalledElement[TargetRef[f]]])
                                \o MoreFlows(f))
        BY <3>3 DEF handleCallActivity, Calling, CreateChild
      <4>2. StartEventID[CalledElement[TargetRef[f]]] \in Elements
        BY <1>1, <4>1, ElementsAssumption, DefinitionsAssumption
      <4> QED BY <4>1, <4>2
    <3> QED BY <1>3, <3>1, <3>2, <3>3
  <2>2. PICK f \in Flows, q \in Instances, e \in Elements :
           \E types, d : Taking(f, types) /\ Do(d, navigateFrom(q, e) \o MoreFlows(f))
    BY <2>1
  <2>3. navigateFrom(q, e) \in Seq(Frame) /\ Unchecked(navigateFrom(q, e))
    BY CallTypes, UncheckedCalls
  <2>4. /\ navigateFrom(q, e) \o MoreFlows(f) \in Seq(Frame)
        /\ Unchecked(navigateFrom(q, e) \o MoreFlows(f))
    BY <1>1, <2>2, <2>3, CallsType, UncheckedTwice
  <2> QED BY <2>2, <2>4, CheckingCalls
<1>4. CASE handleIntermediateThrowEvent
  <2> DEFINE out(e) == FindOutgoingFlows(e)
             subs(e) == IF SignalRef[e] = NoSignal THEN {}
                        ELSE ListSignalSubscriptions(db, SignalRef[e])
             onward(e) == IF out(e) = {} THEN checkComplete(p) ELSE takeFlows(p, out(e))
  <2>1. PICK f \in Flows :
          /\ Taking(f, {"intermediateThrowEvent"})
          /\ Do(db, fireSignals(subs(TargetRef[f])) \o onward(TargetRef[f]) \o MoreFlows(f))
    BY <1>4 DEF handleIntermediateThrowEvent
  <2> DEFINE e == TargetRef[f]
  <2>2. out(e) # {} /\ out(e) \in SUBSET Flows /\ p \in Instances
    BY <1>1, <2>1 DEF ThrowsGoOn, FindOutgoingFlows
  <2>3. onward(e) \in Seq(Frame) /\ Unchecked(onward(e))
    BY <2>2, CallTypes, UncheckedCalls
  <2>4. subs(e) \in SUBSET Subscription
    BY <1>0 DEF ListSignalSubscriptions, DB
  <2>5. fireSignals(subs(e)) \in Seq(Frame) /\ Unchecked(fireSignals(subs(e)))
    BY <2>4, SignalCallTypes, UncheckedCalls
  <2>6. Do(db, fireSignals(subs(e)) \o onward(e) \o MoreFlows(f))
    BY <2>1
  <2> HIDE DEF subs, onward
  <2>7. /\ fireSignals(subs(e)) \o onward(e) \in Seq(Frame)
        /\ Unchecked(fireSignals(subs(e)) \o onward(e))
    BY <2>3, <2>5, CallsType, UncheckedTwice
  <2>8. /\ fireSignals(subs(e)) \o onward(e) \o MoreFlows(f) \in Seq(Frame)
        /\ Unchecked(fireSignals(subs(e)) \o onward(e) \o MoreFlows(f))
    BY <1>1, <2>1, <2>7, CallsType, UncheckedTwice
  <2> QED BY <2>6, <2>8, CheckingCalls
<1>5. CASE TakeFails
  BY <1>5, CheckingCalls DEF TakeFails
<1> QED BY <1>2, <1>3, <1>4, <1>5

\* and in the rest.
LEMMA NavigateChecks ==
    ASSUME ThrowsGoOn, StackInv, Navigate
    PROVE  Checking
<1>0. db \in DB /\ stack # <<>>
  BY NavigateRuns DEF StackInv, TypeOK
<1>1. CASE CheckComplete
  <2> DEFINE by == db.caller[Top.instance]
  <2>1. Top.instance \in Instances
    BY <1>0, <1>1, TopOK DEF CheckComplete, Running, Onwards
  <2>2. \/ \E d : Do(d, <<>>)
        \/ by # NoInstance /\ \E d : Do(d, navigateFrom(by.instance, by.element))
    BY <1>1 DEF CheckComplete
  <2>3. by # NoInstance => by.instance \in Instances /\ by.element \in Elements
    BY <1>0, <2>1 DEF DB, Caller
  <2> HIDE DEF by
  <2> QED BY <2>2, <2>3, CheckingCalls
<1>2. CASE FireSignal
  <2>1. PICK x \in Top.subs :
          Do(db, triggerElement(x) \o deleteSubscription(x) \o fireSignals(Top.subs \ {x}))
    BY <1>2 DEF FireSignal
  <2>2. Top.subs \in SUBSET Subscription
    BY <1>0, TopOK
  <2>3. /\ triggerElement(x) \in Seq(Frame) /\ deleteSubscription(x) \in Seq(Frame)
        /\ fireSignals(Top.subs \ {x}) \in Seq(Frame)
    BY <2>2, SignalCallTypes
  <2>4. /\ triggerElement(x) \o deleteSubscription(x) \in Seq(Frame)
        /\ Unchecked(triggerElement(x) \o deleteSubscription(x))
    BY <2>3, UncheckedCalls, CallsType, UncheckedTwice
  <2>5. /\ triggerElement(x) \o deleteSubscription(x) \o fireSignals(Top.subs \ {x}) \in Seq(Frame)
        /\ Unchecked(triggerElement(x) \o deleteSubscription(x) \o fireSignals(Top.subs \ {x}))
    BY <2>3, <2>4, UncheckedCalls, CallsType, UncheckedTwice
  <2> QED BY <2>1, <2>5, CheckingCalls
<1>3. CASE DeleteSubscription
  <2>1. \E d : Do(d, <<>>)
    BY <1>3 DEF DeleteSubscription
  <2> QED BY <2>1, CheckingCalls
<1>4. CASE triggerEventElement
  <2>1. Top.instance \in Instances /\ Top.element \in Elements
    BY <1>4, TopOK DEF triggerEventElement, Running
  <2>2. \/ \E d : Do(d, <<>>)
        \/ \E d : Do(d, navigateFrom(Top.instance, Top.element))
    BY <1>4 DEF triggerEventElement
  <2> QED BY <2>1, <2>2, CheckingCalls
<1>5. CASE Commit
  <2>1. stack' = Rest /\ Rest \in Seq(Frame)
    BY <1>0, <1>5, TopType DEF Commit, StackInv
  <2>2. stack' = <<>> \o Rest /\ Checks(db', <<>>)
    BY <2>1, UncheckedCalls DEF Checks
  <2> QED BY <2>2 DEF Checking
<1> QED BY NavigateFromChecks, TakeChecks, <1>1, <1>2, <1>3, <1>4, <1>5 DEF Navigate

\* CheckInv is inductive.
LEMMA CheckStep ==
    ASSUME ThrowsGoOn, StackInv, TypeOK', CheckInv, [Next]_allVars
    PROVE  CheckInv'
<1>0. ASSUME stack' = <<>> PROVE CheckInv'
  BY <1>0 DEF CheckInv
<1>1. CASE UNCHANGED allVars
  BY <1>1 DEF allVars, CheckInv
<1>2. CASE Navigate
  BY <1>0, <1>2, NavigateRuns, NavigateChecks, CheckAfter DEF Checking
<1>3. CASE Serve
  <2>1. Served
    BY <1>3, TransactionEffect, WriteEffect DEF Serve, StackInv
  <2>2. CASE Unchecked(stack')
    BY <2>2 DEF CheckInv, Unchecked
  <2>3. CASE Starts \/ Completes
    <3>1. PICK p \in Instances, e \in Elements : stack' = navigateFrom(p, e) \o commit
      BY <2>3 DEF Starts, Completes
    <3>2. navigateFrom(p, e) \in Seq(Frame) /\ commit \in Seq(Frame)
      BY CallTypes, SignalCallTypes
    <3> QED BY <2>2, <3>1, <3>2, UncheckedCalls, UncheckedTwice
  <2>4. CASE Alerts
    BY <2>2, <2>4, UncheckedCalls DEF Alerts
  <2>5. CASE Touches \/ Holds \/ Terminates
    BY <1>0, <2>1, <2>5 DEF Served, Touches, Holds, Terminates
  <2> QED BY <2>1, <2>3, <2>4, <2>5 DEF Served
<1>4. CASE RequestFails
  BY <1>0, <1>4, RequestEnds
<1> QED BY <1>1, <1>2, <1>3, <1>4 DEF Next

\* The children that e in p still waits for.
Children(d, p, e) ==
    {c \in Instances : /\ d.caller[c] = [instance |-> p, element |-> e]
                       /\ d.state[c] # "completed"}

IsCall(e) == ElementType[e] = "callActivity"

\* A call activity of an instance that has not ended has a token for each of
\* them; an instance that does not exist has no caller.
Callers(d) ==
    /\ \A p \in Instances, e \in Elements :
           d.state[p] \notin EndedStates /\ IsCall(e) =>
               /\ IsFiniteSet(Children(d, p, e))
               /\ d.tokens[p][e] = Cardinality(Children(d, p, e))
    /\ \A c \in Instances : d.state[c] = "none" => d.caller[c] = NoInstance

CallerInv == Callers(db) /\ (saved # NoSnapshot => Callers(saved))

\* Instances and their callers are as before, or at least which have completed.
SameFamily(d, f) ==
    \A c \in Instances : /\ f.caller[c] = d.caller[c]
                         /\ f.state[c] = "completed" <=> d.state[c] = "completed"
                         /\ f.state[c] = "none" <=> d.state[c] = "none"

\* As long as the tokens at call activities stay, too.
LEMMA FamilyKeeps ==
    ASSUME NEW d, NEW f, Callers(d), SameFamily(d, f),
           \A p \in Instances : f.state[p] \notin EndedStates =>
               /\ d.state[p] \notin EndedStates
               /\ \A e \in Elements : IsCall(e) => f.tokens[p][e] = d.tokens[p][e]
    PROVE  Callers(f)
<1>1. \A p, e : Children(f, p, e) = Children(d, p, e)
  BY DEF SameFamily, Children
<1> QED BY <1>1 DEF Callers, SameFamily

\* A child is called.
LEMMA SpawnCallers ==
    ASSUME StackInv, Callers(db), NEW calls, Spawns(db', calls), db' \in DB
    PROVE  Callers(db')
<1> DEFINE top == Top.instance
<1>0. /\ db \in DB /\ Linked(db) /\ top \in Instances /\ Underway(db, top)
      /\ \A p \in Instances, e \in Elements : db.tokens[p][e] \in Nat
  <2>1. db \in DB /\ Linked(db) /\ stack # <<>>
    BY DEF StackInv, TypeOK, Spawns, Running
  <2> QED BY <2>1, TopOK, CountValues DEF Spawns, Running, Onwards
<1>1. PICK e \in Elements, c \in Instances :
        /\ IsCall(e) /\ db.state[c] = "none"
        /\ StateAt(db, db', c, "running")
        /\ \A q \in Instances :
               db'.caller[q] = IF q = c THEN [instance |-> top, element |-> e] ELSE db.caller[q]
        /\ TokensAt(db, db', top, e, db.tokens[top][e] + 1)
  <2>1. PICK e \in Elements, s \in Elements, c \in Instances, m \in Seq(Frame),
             counts \in PerElement :
          /\ ElementType[e] = "callActivity" /\ db.state[c] = "none"
          /\ Created(db, db', c, [instance |-> top, element |-> e], counts)
          /\ TokensAt(db, db', top, e, db.tokens[top][e] + 1)
    BY DEF Spawns
  <2> QED BY <2>1 DEF Created, IsCall
<1>2. db.caller[c] = NoInstance
  BY <1>1 DEF Callers
<1>3. ASSUME NEW p \in Instances, NEW x \in Elements, ~(p = top /\ x = e)
      PROVE  Children(db', p, x) = Children(db, p, x)
  <2>1. [instance |-> p, element |-> x] # [instance |-> top, element |-> e]
    <3>1. ASSUME [instance |-> p, element |-> x] = [instance |-> top, element |-> e]
          PROVE  p = top /\ x = e
      BY <3>1
    <3> QED BY <1>3, <3>1
  <2>2. [instance |-> p, element |-> x] # NoInstance
    BY StoreAssumption
  <2> QED BY <1>1, <1>2, <2>1, <2>2 DEF Children, StateAt
<1>4. Children(db', top, e) = Children(db, top, e) \cup {c} /\ c \notin Children(db, top, e)
  <2>1. [instance |-> top, element |-> e] # NoInstance
    BY <1>0, StoreAssumption
  <2> QED BY <1>1, <1>2, <2>1 DEF Children, StateAt
<1>5. ASSUME NEW p \in Instances, NEW x \in Elements, db'.state[p] \notin EndedStates, IsCall(x)
      PROVE  /\ IsFiniteSet(Children(db', p, x))
             /\ db'.tokens[p][x] = Cardinality(Children(db', p, x))
  <2>1. db.state[p] \notin EndedStates
    BY <1>1, <1>5 DEF StateAt
  <2>2. /\ IsFiniteSet(Children(db, p, x))
        /\ db.tokens[p][x] = Cardinality(Children(db, p, x))
    BY <1>5, <2>1 DEF Callers
  <2>3. CASE p = top /\ x = e
    <3>1. db'.tokens[top][e] = db.tokens[top][e] + 1
      BY <1>0, <1>1 DEF TokensAt
    <3>2. /\ IsFiniteSet(Children(db, top, e) \cup {c})
          /\ Cardinality(Children(db, top, e) \cup {c}) = Cardinality(Children(db, top, e)) + 1
      BY <1>4, <2>2, <2>3, FS_AddElement
    <3> QED BY <1>4, <2>2, <2>3, <3>1, <3>2
  <2>4. CASE ~(p = top /\ x = e)
    BY <1>1, <1>3, <2>2, <2>4 DEF TokensAt
  <2> QED BY <2>3, <2>4
<1>6. \A q \in Instances : db'.state[q] = "none" => db'.caller[q] = NoInstance
  BY <1>1 DEF StateAt, Callers
<1> QED BY <1>5, <1>6 DEF Callers

\* A child ends, and takes a token of its caller with it, if that still waits.
LEMMA EndCallers ==
    ASSUME StackInv, CheckInv, stack # <<>>, Callers(db), NEW calls, Ends(db', calls)
    PROVE  Callers(db')
<1> DEFINE c == Top.instance
           by == db.caller[c]
<1>0. /\ db \in DB /\ c \in Instances
      /\ \A p \in Instances, e \in Elements : db.tokens[p][e] \in Nat
  <2>1. db \in DB
    BY DEF StackInv, TypeOK
  <2> QED BY <2>1, TopOK, CountValues DEF Ends, Running, Onwards
<1>1. db.state[c] = "running"
  <2>1. 1 \in 1..Len(stack) /\ Top = stack[1] /\ Top.call = "checkComplete"
    BY DEF Top, Ends, Running, StackInv, TypeOK
  <2> QED BY <2>1 DEF CheckInv
<1>2. StateAt(db, db', c, "completed") /\ db'.caller = db.caller
  BY DEF Ends
<1>3. \A q \in Instances : db'.state[q] = "none" => db'.caller[q] = NoInstance
  BY <1>2 DEF StateAt, Callers
<1>4. ASSUME NEW p \in Instances, NEW e \in Elements, by # [instance |-> p, element |-> e]
      PROVE  Children(db', p, e) = Children(db, p, e)
  BY <1>2, <1>4 DEF Children, StateAt
<1>5. ASSUME NEW p \in Instances, NEW e \in Elements, db'.state[p] \notin EndedStates, IsCall(e)
      PROVE  /\ db.state[p] \notin EndedStates
             /\ IsFiniteSet(Children(db, p, e))
             /\ db.tokens[p][e] = Cardinality(Children(db, p, e))
  <2>1. db.state[p] \notin EndedStates
    BY <1>2, <1>5 DEF StateAt
  <2> QED BY <1>5, <2>1 DEF Callers
<1>6. CASE by = NoInstance
  <2>1. \A p \in Instances, e \in Elements : by # [instance |-> p, element |-> e]
    BY <1>6, StoreAssumption
  <2>2. db'.tokens = db.tokens
    BY <1>6 DEF Ends, SameTokens
  <2> QED BY <1>3, <1>4, <1>5, <2>1, <2>2 DEF Callers
<1>7. CASE by # NoInstance
  <2> DEFINE r == by.instance
             a == by.element
  <2>1. by \in Caller
    BY <1>0, <1>7 DEF DB
  <2>2. r \in Instances /\ a \in Elements /\ by = [instance |-> r, element |-> a]
    BY <2>1 DEF Caller
  <2>3. c \in Children(db, r, a) /\ Children(db', r, a) = Children(db, r, a) \ {c}
    BY <1>0, <1>1, <1>2, <2>2 DEF Children, StateAt
  <2>4. \/ db.tokens[r][a] = 0 /\ db'.tokens = db.tokens
        \/ TokensAt(db, db', r, a, OneLess(db.tokens[r][a]))
    BY <1>7 DEF Ends, SameTokens
  <2> HIDE DEF by, r, a, c
  <2>5. ASSUME NEW p \in Instances, NEW e \in Elements, db'.state[p] \notin EndedStates, IsCall(e)
        PROVE  /\ IsFiniteSet(Children(db', p, e))
               /\ db'.tokens[p][e] = Cardinality(Children(db', p, e))
    <3>1. CASE p = r /\ e = a
      <4>1. /\ IsFiniteSet(Children(db, r, a))
            /\ db.tokens[r][a] = Cardinality(Children(db, r, a))
        BY <1>5, <2>5, <3>1
      <4>2. db.tokens[r][a] # 0
        BY <2>3, <4>1, FS_EmptySet
      <4>3. db'.tokens[r][a] = db.tokens[r][a] - 1
        BY <1>0, <2>2, <2>4, <4>2 DEF TokensAt, OneLess
      <4>4. /\ IsFiniteSet(Children(db, r, a) \ {c})
            /\ Cardinality(Children(db, r, a) \ {c}) = Cardinality(Children(db, r, a)) - 1
        BY <2>3, <4>1, FS_RemoveElement
      <4> QED BY <2>3, <3>1, <4>1, <4>3, <4>4
    <3>2. CASE ~(p = r /\ e = a)
      <4>1. by # [instance |-> p, element |-> e]
        <5>1. ASSUME [instance |-> r, element |-> a] = [instance |-> p, element |-> e]
              PROVE  p = r /\ e = a
          BY <5>1
        <5> QED BY <2>2, <3>2, <5>1
      <4>2. db'.tokens[p][e] = db.tokens[p][e]
        BY <2>4, <3>2 DEF TokensAt
      <4> QED BY <1>4, <1>5, <2>5, <4>1, <4>2
    <3> QED BY <3>1, <3>2
  <2> QED BY <1>3, <2>5 DEF Callers
<1> QED BY <1>6, <1>7

\* Every effect keeps the count of the children.
LEMMA EffectCallers ==
    ASSUME StackInv, LeftInv, CheckInv, stack # <<>>, Callers(db), db' \in DB,
           NEW calls \in Seq(Frame), Effect(db', calls)
    PROVE  Callers(db')
<1>0. /\ db \in DB /\ Forward(db, db')
      /\ \A p \in Instances, e \in Elements : db.tokens[p][e] \in Nat
  <2>1. db \in DB
    BY DEF StackInv, TypeOK
  <2> QED BY <2>1, CountValues, EffectAdvances, AdvancingKeeps DEF Forward
<1>1. ASSUME SameRows(db, db'),
             \A p \in Instances, e \in Elements : IsCall(e) => db'.tokens[p][e] = db.tokens[p][e]
      PROVE  Callers(db')
  <2>1. SameFamily(db, db')
    BY <1>1 DEF SameRows, SameFamily
  <2>2. \A p \in Instances : db'.state[p] = db.state[p]
    BY <1>1 DEF SameRows
  <2> QED BY <1>1, <2>1, <2>2, FamilyKeeps
<1>2. CASE \/ Stops(db', calls) \/ Runs(db', calls) \/ Throws(db', calls) \/ Fires(db', calls)
  BY <1>1, <1>2 DEF Stops, Runs, Throws, Fires, SameRows
<1>3. CASE Waits(db', calls) \/ Unsubscribes(db', calls)
  BY <1>1, <1>3 DEF Waits, Unsubscribes, SameTokens
<1>4. CASE Passes(db', calls)
  <2> DEFINE q == Top.instance
             x == Top.element
  <2>1. PICK n \in Nat : TokensAt(db, db', q, x, n) /\ n <= db.tokens[q][x]
    BY <1>4 DEF Passes
  <2>2. q \in Instances /\ x \in Elements /\ Arriving(q, x)
    BY <1>4, TopOK DEF Passes, Running, Arriving
  <2>3. IsCall(x) => db.tokens[q][x] = 0
    BY <2>2 DEF LeftInv, IsHeld, IsCall
  <2> HIDE DEF q, x
  <2>4. \A p \in Instances, e \in Elements : IsCall(e) => db'.tokens[p][e] = db.tokens[p][e]
    BY <2>1, <2>2, <2>3 DEF TokensAt
  <2> QED BY <1>1, <1>4, <2>4 DEF Passes
<1>5. CASE Rests(db', calls)
  <2>1. PICK e \in Elements : /\ ElementType[e] \in {"userTask", "intermediateCatchEvent"}
                              /\ TokensAt(db, db', Top.instance, e, db.tokens[Top.instance][e] + 1)
    BY <1>5 DEF Rests
  <2> QED BY <1>1, <1>5, <2>1 DEF Rests, TokensAt, IsCall
<1>6. CASE Reaches(db', calls)
  <2>1. PICK g \in Elements : /\ ElementType[g] \in GatewayTypes
                              /\ Moved(db, db', Top.instance, g, db.tokens[Top.instance][g] + 1)
    BY <1>6 DEF Reaches
  <2> QED BY <1>1, <2>1 DEF Moved, TokensAt, IsCall, GatewayTypes
<1>7. CASE Triggers(db', calls)
  <2>1. IsListener(Top.element) /\ Top.element \in Elements
    BY <1>7, TopOK DEF Triggers, Running, FrameOK
  <2>2. ASSUME NEW p \in Instances, NEW e \in Elements, IsCall(e)
        PROVE  db'.tokens[p][e] = db.tokens[p][e]
    BY <1>7, <2>1, <2>2 DEF Triggers, IsListener, IsCall
  <2> QED BY <1>1, <1>7, <2>2 DEF Triggers
<1>8. CASE Spawns(db', calls) \/ Ends(db', calls)
  BY <1>8, SpawnCallers, EndCallers
<1> QED BY <1>2, <1>3, <1>4, <1>5, <1>6, <1>7, <1>8 DEF Effect

\* CallerInv is inductive.
LEMMA CallerStep ==
    ASSUME Undisturbed, StackInv, Recoverable => OpenInv, LeftInv, CheckInv, CallerInv,
           TypeOK', [Next]_allVars
    PROVE  CallerInv'
<1>0. /\ db \in DB /\ db' \in DB /\ db # NoSnapshot
      /\ Callers(db) /\ (saved # NoSnapshot => Callers(saved))
  BY EngineAssumption DEF StackInv, TypeOK, CallerInv
<1>1. CASE UNCHANGED <<db, stack, saved>>
  BY <1>0, <1>1 DEF CallerInv
<1>2. ASSUME NEW d, Fail(d), Callers(d) PROVE CallerInv'
  BY <1>0, <1>2 DEF Fail, CallerInv
<1>3. CASE RequestFails
  BY <1>0, <1>1, <1>2, <1>3, FailuresUndone
<1>4. CASE Commit
  BY <1>0, <1>4 DEF Commit, CallerInv
<1>5. ASSUME stack # <<>>, NEW calls \in Seq(Frame), saved' = saved, Effect(db', calls)
      PROVE  CallerInv'
  BY <1>0, <1>5, EffectCallers DEF CallerInv
<1>6. ASSUME NEW d \in DB, Fail(d), Loses(d) PROVE CallerInv'
  <2>1. /\ SameFamily(db, d)
        /\ \A p \in Instances : d.state[p] = db.state[p]
    BY <1>6 DEF Loses, SameRows, SameFamily
  <2>2. \A p \in Instances, e \in Elements : IsCall(e) => d.tokens[p][e] = db.tokens[p][e]
    BY <1>6 DEF Loses, IsCall
  <2> QED BY <1>0, <1>2, <1>6, <2>1, <2>2, FamilyKeeps
<1>7. CASE Serve
  <2>1. Served /\ Forward(db, db') /\ saved' \in {saved, db, NoSnapshot}
    BY <1>7, ServeForward, TransactionEffect, WriteEffect DEF Serve, StackInv
  <2>2. ASSUME SameFamily(db, db'),
               \A p \in Instances : db'.state[p] \notin EndedStates =>
                   \A e \in Elements : IsCall(e) => db'.tokens[p][e] = db.tokens[p][e]
        PROVE  CallerInv'
    <3>1. \A p \in Instances : db'.state[p] \notin EndedStates => db.state[p] \notin EndedStates
      BY <2>1 DEF Forward
    <3>2. Callers(db')
      BY <1>0, <2>2, <3>1, FamilyKeeps
    <3> QED BY <1>0, <2>1, <3>2 DEF CallerInv
  <2>3. CASE Starts
    <3>1. PICK p \in Instances : /\ db.state[p] = "none"
                                 /\ Created(db, db', p, NoInstance, Zeros)
                                 /\ SameTokens(db, db')
      BY <2>3 DEF Starts
    <3>2. db.caller[p] = NoInstance
      BY <1>0, <3>1 DEF Callers
    <3>3. /\ \A q \in Instances : db'.caller[q] = db.caller[q]
          /\ \A q \in Instances : q # p => db'.state[q] = db.state[q]
          /\ db'.state[p] = "running" /\ db'.tokens = db.tokens
      BY <3>1, <3>2 DEF Created, StateAt, SameTokens
    <3>4. Callers(db')
      <4>1. \A q, e : \A c \in Instances :
               c \in Children(db', q, e) <=>
                   \/ c \in Children(db, q, e)
        BY <3>1, <3>3 DEF Children
      <4>2. \A q, e : Children(db', q, e) = Children(db, q, e)
        BY <4>1 DEF Children
      <4> QED BY <1>0, <3>1, <3>3, <4>2 DEF Callers
    <3> QED BY <1>0, <2>1, <3>4 DEF CallerInv
  <2>4. CASE Completes
    <3>1. PICK p \in Instances, e \in Elements :
            /\ ElementType[e] = "userTask" /\ SameRows(db, db')
            /\ TokensAt(db, db', p, e, OneLess(db.tokens[p][e]))
      BY <2>4 DEF Completes
    <3> QED BY <2>2, <3>1 DEF SameRows, SameFamily, TokensAt, IsCall
  <2>5. CASE Touches \/ Alerts
    BY <2>2, <2>5 DEF Touches, Alerts, Same, SameRows, SameTokens, SameFamily
  <2>6. CASE Holds
    BY <2>2, <2>6 DEF Holds, StateAt, SameTokens, SameFamily
  <2>7. CASE Terminates
    BY <2>2, <2>7 DEF Terminates, StateAt, SameFamily
  <2> QED BY <2>1, <2>3, <2>4, <2>5, <2>6, <2>7 DEF Served
<1>8. CASE Navigate
  BY <1>4, <1>5, <1>6, <1>8, NavigateEffect, NavigateRuns DEF StackInv, Handled
<1> QED BY <1>1, <1>3, <1>7, <1>8 DEF Next, allVars

\* No user task or call activity is reached twice at once, throw events lead on,
\* and requests that die half way are undone, or there are none; then a call
\* activity of an instance that has not ended holds exactly one token for each
\* child instance that has not completed: in any definitions, whatever is
\* suspended or terminated.  Without a rollback, a checkComplete that stops after
\* completing the child leaves its caller waiting for ever (CallersAwaitChildren;
\* handleCallActivity and checkComplete).
THEOREM CallersKeepChildren ==
    ASSUME Undisturbed, ThrowsGoOn
    PROVE  Spec /\ []NothingShared => []CallersAwaitChildren
<1> DEFINE Open == Recoverable => OpenInv
<1>1. Init => LeftInv /\ CheckInv /\ CallerInv
  <2> SUFFICES ASSUME Init PROVE LeftInv /\ CheckInv /\ CallerInv
    OBVIOUS
  <2>1. /\ stack = <<>> /\ saved = NoSnapshot
        /\ \A p \in Instances : /\ db.state[p] = "none" /\ db.caller[p] = NoInstance
                                /\ \A e \in Elements : db.tokens[p][e] = 0
    BY DEF Init, EmptyDB, Zeros
  <2>2. ASSUME NEW p \in Instances, NEW e \in Elements
        PROVE  IsFiniteSet(Children(db, p, e)) /\ Cardinality(Children(db, p, e)) = 0
    <3>1. NoInstance # [instance |-> p, element |-> e]
      BY StoreAssumption
    <3>2. Children(db, p, e) = {}
      BY <2>1, <3>1 DEF Children
    <3> QED BY <3>2, FS_EmptySet
  <2> QED BY <2>1, <2>2 DEF LeftInv, Arriving, Running, CheckInv, CallerInv, Callers
<1>2. NothingShared /\ StackInv /\ LeftInv /\ TypeOK' /\ [Next]_allVars => LeftInv'
  BY LeftStep
<1>3. StackInv /\ CheckInv /\ TypeOK' /\ [Next]_allVars => CheckInv'
  BY CheckStep
<1>4. (StackInv /\ Open /\ LeftInv /\ CheckInv /\ CallerInv /\ TypeOK' /\ [Next]_allVars)
        => CallerInv'
  BY CallerStep
<1>5. CallerInv => CallersAwaitChildren
  <2> SUFFICES ASSUME CallerInv, NEW p \in Instances, NEW e \in Elements,
                      Live(Committed, p), IsCall(e)
               PROVE  Committed.tokens[p][e] = Cardinality(Children(Committed, p, e))
    BY DEF CallersAwaitChildren, Children, IsCall
  <2>1. Callers(Committed)
    BY DEF CallerInv, Committed
  <2> QED BY <2>1 DEF Callers, Live
<1> QED BY <1>1, <1>2, <1>3, <1>4, <1>5, OpenCorrect, StackCorrect, TypeCorrect, PTL DEF Spec

-----------------------------------------------------------------------------
(* Signal catch events. *)

\* Nobody completes a task of an instance in which a catch event waits for a
\* signal: CompleteTask deletes every subscription of the instance.
EventsWaitAlone ==
    Quiescent => \A p \in Instances, t \in Elements, e \in Elements :
        Live(db, p) /\ IsTask(t) /\ db.active[p][t] > 0 /\ IsWaiter(e) => db.tokens[p][e] = 0

Waiting(d, p, e) == d.state[p] = "running" /\ IsWaiter(e) /\ d.tokens[p][e] > 0

NoneSuspended(d) == \A p \in Instances : d.state[p] # "suspended"

\* In tables nobody is working on, whoever waits has a subscription;
Subscribed(d) ==
    \A p \in Instances, e \in Elements : Waiting(d, p, e) =>
        \E x \in d.subscriptions : x.instance = p /\ x.element = e

Triggering(p, e) ==
    Running("triggerEventElement") /\ Top.instance = p /\ Top.element = e

\* in the others one that will stay, until its signal is being delivered.
Listening ==
    \A p \in Instances, e \in Elements : Waiting(db, p, e) =>
        \E x \in db.subscriptions :
            x.instance = p /\ x.element = e /\ (~Doomed(stack, x) \/ Triggering(p, e))

WaitInv ==
    /\ NoneSuspended(db) /\ Listening
    /\ saved # NoSnapshot => NoneSuspended(saved) /\ Subscribed(saved)

\* Only FireSignal calls DeleteSignalSubscription.
NoDeletes(calls) == \A k \in 1..Len(calls) : calls[k].call # "deleteSubscription"

\* Two lists of calls without a deletion are one.
LEMMA NoDeletesTwice ==
    ASSUME NEW m \in Seq(Frame), NEW n \in Seq(Frame), NoDeletes(m), NoDeletes(n)
    PROVE  NoDeletes(m \o n)
BY DEF NoDeletes

\* The calls of the other handlers delete nothing.
LEMMA CallsDeleteNothing ==
    /\ NoDeletes(<<>>) /\ NoDeletes(commit)
    /\ \A p, e : NoDeletes(navigateFrom(p, e))
    /\ \A xs : NoDeletes(fireSignals(xs))
    /\ \A m, p : GoesOn(m, p) => NoDeletes(m)
<1> USE DEF NoDeletes, Call
<1>1. NoDeletes(<<>>)
  OBVIOUS
<1>2. NoDeletes(commit)
  BY DEF commit
<1>3. ASSUME NEW p, NEW e PROVE NoDeletes(navigateFrom(p, e))
  BY DEF navigateFrom
<1>4. ASSUME NEW xs PROVE NoDeletes(fireSignals(xs))
  BY DEF fireSignals
<1>5. ASSUME NEW m, NEW p, GoesOn(m, p) PROVE NoDeletes(m)
  BY <1>5 DEF GoesOn, Onwards
<1> QED BY <1>1, <1>2, <1>3, <1>4, <1>5

\* What two lists of calls delete, one of them does.
LEMMA DoomedTwice ==
    ASSUME NEW m \in Seq(Frame), NEW n \in Seq(Frame), NEW x, Doomed(m \o n, x)
    PROVE  Doomed(m, x) \/ Doomed(n, x)
<1>1. PICK k \in 1..Len(m \o n) : (m \o n)[k].call = "deleteSubscription" /\ x \in (m \o n)[k].subs
  BY DEF Doomed
<1>2. \/ k \in 1..Len(m) /\ (m \o n)[k] = m[k]
      \/ k - Len(m) \in 1..Len(n) /\ (m \o n)[k] = n[k - Len(m)]
  OBVIOUS
<1> QED BY <1>1, <1>2 DEF Doomed

\* After a handler's calls no more subscriptions are doomed than before, but
\* those its calls delete.
LEMMA DoomedAfter ==
    ASSUME NEW s \in Seq(Frame), s # <<>>, NEW calls \in Seq(Frame), NEW x,
           Doomed(calls \o Tail(s), x)
    PROVE  Doomed(s, x) \/ Doomed(calls, x)
<1>1. /\ Tail(s) \in Seq(Frame)
      /\ \A k \in 1..Len(Tail(s)) : k + 1 \in 1..Len(s) /\ Tail(s)[k] = s[k + 1]
  OBVIOUS
<1>2. Doomed(Tail(s), x) => Doomed(s, x)
  BY <1>1 DEF Doomed
<1> QED BY <1>1, <1>2, DoomedTwice

\* A handler that deletes nothing and makes nobody wait keeps Listening.
LEMMA ListeningKept ==
    ASSUME stack \in Seq(Frame), stack # <<>>, Listening,
           NEW calls \in Seq(Frame), NoDeletes(calls), stack' = calls \o Rest,
           db.subscriptions \subseteq db'.subscriptions,
           \A p \in Instances, e \in Elements :
               Waiting(db', p, e) => Waiting(db, p, e) /\ ~Triggering(p, e)
    PROVE  Listening'
<1> SUFFICES ASSUME NEW p \in Instances, NEW e \in Elements, Waiting(db', p, e)
             PROVE  \E x \in db'.subscriptions :
                        x.instance = p /\ x.element = e /\ ~Doomed(stack', x)
  BY DEF Listening
<1>1. PICK x \in db.subscriptions : x.instance = p /\ x.element = e /\ ~Doomed(stack, x)
  BY DEF Listening
<1>2. ~Doomed(calls, x)
  BY DEF Doomed, NoDeletes
<1>3. ~Doomed(stack', x)
  BY <1>1, <1>2, DoomedAfter DEF Rest
<1> QED BY <1>1, <1>3

\* Every effect keeps Listening.
LEMMA EffectListens ==
    ASSUME StackInv, stack # <<>>, NoneSuspended(db), Listening, db' \in DB,
           NEW calls \in Seq(Frame), stack' = calls \o Rest, Effect(db', calls)
    PROVE  NoneSuspended(db') /\ Listening'
<1>0. /\ db \in DB /\ Linked(db) /\ stack \in Seq(Frame) /\ Advances(db, db')
      /\ \A p \in Instances, e \in Elements : db.tokens[p][e] \in Nat
  <2>1. db \in DB /\ Linked(db) /\ stack \in Seq(Frame)
    BY DEF StackInv, TypeOK
  <2> QED BY <2>1, EffectAdvances, CountValues
<1>1. NoneSuspended(db')
  BY <1>0 DEF Advances, NoneSuspended
<1> SUFFICES Listening'
  BY <1>1
<1>2. ASSUME NoDeletes(calls), ~Running("triggerEventElement"), SameEvents(db, db'),
             \A p \in Instances, e \in Elements : Waiting(db', p, e) => Waiting(db, p, e)
      PROVE  Listening'
  BY <1>0, <1>2, ListeningKept DEF SameEvents, Triggering
<1>3. CASE Stops(db', calls)
  <2>1. \A p \in Instances, e \in Elements :
           Waiting(db', p, e) => Waiting(db, p, e) /\ ~Triggering(p, e)
    BY <1>3 DEF Stops, Waiting, Triggering, Running
  <2>2. NoDeletes(calls) /\ db.subscriptions \subseteq db'.subscriptions
    BY <1>3, CallsDeleteNothing DEF Stops
  <2> QED BY <1>0, <2>1, <2>2, ListeningKept
<1>4. CASE Passes(db', calls) \/ Waits(db', calls)
  <2>1. NoDeletes(calls) /\ ~Running("triggerEventElement") /\ SameEvents(db, db')
    BY <1>4, CallsDeleteNothing DEF Passes, Waits, Running
  <2>2. \A p \in Instances, e \in Elements :
           db'.state[p] = db.state[p] /\ db'.tokens[p][e] <= db.tokens[p][e]
    <3>1. CASE Passes(db', calls)
      BY <1>0, <3>1 DEF Passes, SameRows, TokensAt
    <3>2. CASE Waits(db', calls)
      BY <1>0, <3>2 DEF Waits, SameRows, SameTokens
    <3> QED BY <1>4, <3>1, <3>2
  <2>3. \A p \in Instances, e \in Elements : db'.tokens[p][e] \in Nat
    BY CountValues
  <2>4. \A p \in Instances, e \in Elements : Waiting(db', p, e) => Waiting(db, p, e)
    BY <1>0, <2>2, <2>3 DEF Waiting
  <2> QED BY <1>2, <2>1, <2>4
<1>5. CASE Rests(db', calls)
  <2> DEFINE q == Top.instance
  <2>1. PICK a \in Elements : /\ TokensAt(db, db', q, a, db.tokens[q][a] + 1)
                              /\ IsWaiter(a) => \E x \in db'.subscriptions : Awaits(x, q, a)
    BY <1>5 DEF Rests
  <2>2. /\ SameRows(db, db') /\ db.subscriptions \subseteq db'.subscriptions
        /\ NoDeletes(calls) /\ ~Running("triggerEventElement")
    BY <1>5, CallsDeleteNothing DEF Rests, Running
  <2> HIDE DEF q
  <2>3. ASSUME NEW x, ~Doomed(stack, x) PROVE ~Doomed(stack', x)
    <3>1. ~Doomed(calls, x)
      BY <2>2 DEF Doomed, NoDeletes
    <3> QED BY <1>0, <2>3, <3>1, DoomedAfter DEF Rest
  <2>4. ASSUME NEW p \in Instances, NEW e \in Elements, Waiting(db', p, e)
        PROVE  \E x \in db'.subscriptions :
                   x.instance = p /\ x.element = e /\ ~Doomed(stack, x)
    <3>1. CASE p = q /\ e = a
      BY <2>1, <2>4, <3>1 DEF Waiting, Awaits
    <3>2. CASE ~(p = q /\ e = a)
      <4>1. Waiting(db, p, e)
        BY <2>1, <2>2, <2>4, <3>2 DEF Waiting, SameRows, TokensAt
      <4> QED BY <2>2, <4>1 DEF Listening, Triggering
    <3> QED BY <3>1, <3>2
  <2> QED BY <2>3, <2>4 DEF Listening
<1>6. CASE Runs(db', calls) \/ Throws(db', calls)
  <2>1. db' = db /\ ~Running("triggerEventElement")
    BY <1>6 DEF Runs, Throws, Running
  <2>2. NoDeletes(calls)
    <3>1. CASE Runs(db', calls)
      <4>1. PICK e \in Elements, m \in Seq(Frame) :
              GoesOn(m, Top.instance) /\ calls = navigateFrom(Top.instance, e) \o m
        BY <3>1 DEF Runs
      <4>2. navigateFrom(Top.instance, e) \in Seq(Frame)
        BY <3>1, TopOK, CallTypes DEF Runs, Running, Onwards
      <4> QED BY <4>1, <4>2, CallsDeleteNothing, NoDeletesTwice
    <3>2. CASE Throws(db', calls)
      <4>1. PICK xs \in SUBSET db.subscriptions, m \in Seq(Frame) :
              GoesOn(m, Top.instance) /\ calls = fireSignals(xs) \o m
        BY <3>2 DEF Throws
      <4>2. xs \in SUBSET Subscription
        BY <1>0, <4>1 DEF DB
      <4> QED BY <4>1, <4>2, SignalCallTypes, CallsDeleteNothing, NoDeletesTwice
    <3> QED BY <1>6, <3>1, <3>2
  <2> QED BY <1>2, <2>1, <2>2 DEF SameEvents
<1>7. CASE Reaches(db', calls)
  <2>1. PICK g \in Elements, m \in Seq(Frame) :
          /\ ElementType[g] \in GatewayTypes
          /\ Moved(db, db', Top.instance, g, db.tokens[Top.instance][g] + 1)
          /\ GoesOn(m, Top.instance) /\ calls = navigateFrom(Top.instance, g) \o m
    BY <1>7 DEF Reaches
  <2>2. navigateFrom(Top.instance, g) \in Seq(Frame) /\ ~Running("triggerEventElement")
    BY <1>7, TopOK, CallTypes DEF Reaches, Running, Onwards
  <2>3. NoDeletes(calls)
    BY <2>1, <2>2, CallsDeleteNothing, NoDeletesTwice
  <2>4. ~IsWaiter(g)
    BY <2>1 DEF IsWaiter, GatewayTypes
  <2>5. /\ SameRows(db, db') /\ SameEvents(db, db')
        /\ TokensAt(db, db', Top.instance, g, db.tokens[Top.instance][g] + 1)
    BY <2>1 DEF Moved
  <2>6. \A p \in Instances, e \in Elements : Waiting(db', p, e) => Waiting(db, p, e)
    BY <2>4, <2>5 DEF Waiting, SameRows, TokensAt
  <2> QED BY <1>2, <2>2, <2>3, <2>5, <2>6
<1>8. CASE Spawns(db', calls)
  <2>1. PICK a \in Elements, s \in Elements, c \in Instances, m \in Seq(Frame),
             counts \in PerElement :
          /\ ElementType[a] = "callActivity" /\ db.state[c] = "none"
          /\ Created(db, db', c, [instance |-> Top.instance, element |-> a], counts)
          /\ TokensAt(db, db', Top.instance, a, db.tokens[Top.instance][a] + 1)
          /\ GoesOn(m, Top.instance) /\ calls = navigateFrom(c, s) \o m
    BY <1>8 DEF Spawns
  <2>2. navigateFrom(c, s) \in Seq(Frame) /\ ~Running("triggerEventElement")
    BY <1>8, CallTypes DEF Spawns, Running
  <2>3. NoDeletes(calls)
    BY <2>1, <2>2, CallsDeleteNothing, NoDeletesTwice
  <2>4. StateAt(db, db', c, "running") /\ SameEvents(db, db') /\ ~IsWaiter(a)
    BY <2>1 DEF Created, IsWaiter
  <2>5. \A e \in Elements : ~(db.tokens[c][e] > 0)
    BY <1>0, <2>1 DEF Linked
  <2>6. \A p \in Instances, e \in Elements : Waiting(db', p, e) => Waiting(db, p, e)
    <3>1. ASSUME NEW p \in Instances, NEW e \in Elements, IsWaiter(e)
          PROVE  db'.tokens[p][e] = db.tokens[p][e]
      BY <2>1, <2>4, <3>1 DEF TokensAt
    <3>2. \A p \in Instances : p # c => db'.state[p] = db.state[p]
      BY <2>4 DEF StateAt
    <3> QED BY <2>5, <3>1, <3>2 DEF Waiting
  <2> QED BY <1>2, <2>2, <2>3, <2>4, <2>6
<1>9. CASE Ends(db', calls)
  <2> DEFINE by == db.caller[Top.instance]
  <2>1. /\ StateAt(db, db', Top.instance, "completed") /\ SameEvents(db, db')
        /\ \/ SameTokens(db, db') /\ calls = <<>>
           \/ /\ by # NoInstance
              /\ TokensAt(db, db', by.instance, by.element,
                          OneLess(db.tokens[by.instance][by.element]))
              /\ calls = navigateFrom(by.instance, by.element)
    BY <1>9 DEF Ends
  <2>2. Top.instance \in Instances /\ ~Running("triggerEventElement")
    BY <1>9, TopOK DEF Ends, Running, Onwards
  <2>3. by # NoInstance => ~IsWaiter(by.element)
    BY <1>0, <2>2 DEF Linked, IsWaiter
  <2>4. NoDeletes(calls)
    BY <2>1, CallsDeleteNothing
  <2> HIDE DEF by
  <2>5. \A p \in Instances, e \in Elements : Waiting(db', p, e) => Waiting(db, p, e)
    BY <2>1, <2>3 DEF Waiting, StateAt, TokensAt, SameTokens
  <2> QED BY <1>2, <2>1, <2>2, <2>4, <2>5
<1>10. CASE Fires(db', calls)
  <2>1. PICK x \in Top.subs :
          calls = triggerElement(x) \o deleteSubscription(x) \o fireSignals(Top.subs \ {x})
    BY <1>10 DEF Fires
  <2>2. db' = db /\ Top.subs \in SUBSET Subscription /\ ~Running("triggerEventElement")
    BY <1>10, TopOK DEF Fires, Running
  <2>3. Triggering(x.instance, x.element)'
    <3>1. /\ deleteSubscription(x) \in Seq(Frame) /\ fireSignals(Top.subs \ {x}) \in Seq(Frame)
          /\ Rest \in Seq(Frame)
      BY <1>0, <2>2, SignalCallTypes DEF Rest
    <3>2. triggerElement(x) \in Seq(Frame) /\ Len(triggerElement(x)) = 1
      BY <2>2, SignalCallTypes DEF triggerElement
    <3>3. ASSUME NEW h \in Seq(Frame), Len(h) >= 1, NEW l \in Seq(Frame)
          PROVE  h \o l \in Seq(Frame) /\ Len(h \o l) >= 1 /\ Head(h \o l) = h[1] /\ (h \o l)[1] = h[1]
      <4>1. Len(h) \in Nat /\ Len(l) \in Nat
        OBVIOUS
      <4>2. Len(h \o l) = Len(h) + Len(l) /\ h \o l \in Seq(Frame)
        OBVIOUS
      <4>3. (h \o l)[1] = h[1]
        BY <3>3, <4>1
      <4> QED BY <3>3, <4>1, <4>2, <4>3
    <3> DEFINE first == triggerElement(x) \o deleteSubscription(x)
               all == first \o fireSignals(Top.subs \ {x})
    <3>4. first \in Seq(Frame) /\ Len(first) >= 1 /\ first[1] = triggerElement(x)[1]
      <4>1. Len(triggerElement(x)) >= 1
        BY <3>2
      <4> QED BY <3>1, <3>2, <3>3, <4>1
    <3> HIDE DEF first
    <3>5. all \in Seq(Frame) /\ Len(all) >= 1 /\ all[1] = first[1]
      BY <3>1, <3>3, <3>4
    <3> HIDE DEF all
    <3>6. Len(all \o Rest) >= 1 /\ Head(all \o Rest) = all[1]
      BY <3>1, <3>3, <3>5
    <3>7. stack' = all \o Rest
      BY <2>1 DEF all, first
    <3>8. stack' # <<>> /\ Top' = triggerElement(x)[1]
      BY <3>4, <3>5, <3>6, <3>7 DEF Top
    <3> QED BY <3>8 DEF Triggering, Running, triggerElement, Call
  <2>4. ASSUME NEW y, Doomed(calls, y) PROVE y = x
    <3>1. /\ triggerElement(x) \in Seq(Frame) /\ deleteSubscription(x) \in Seq(Frame)
          /\ fireSignals(Top.subs \ {x}) \in Seq(Frame)
      BY <2>2, SignalCallTypes
    <3>2. ~Doomed(triggerElement(x), y) /\ ~Doomed(fireSignals(Top.subs \ {x}), y)
      BY DEF Doomed, triggerElement, fireSignals, Call
    <3>3. Doomed(deleteSubscription(x), y) => y = x
      BY DEF Doomed, deleteSubscription, Call
    <3> QED BY <2>1, <2>4, <3>1, <3>2, <3>3, DoomedTwice, CallsType
  <2>5. ASSUME NEW p \in Instances, NEW e \in Elements, Waiting(db', p, e)
        PROVE  \E y \in db'.subscriptions :
                   y.instance = p /\ y.element = e /\ (~Doomed(stack', y) \/ Triggering(p, e)')
    <3>1. PICK y \in db.subscriptions : y.instance = p /\ y.element = e /\ ~Doomed(stack, y)
      BY <2>2, <2>5 DEF Listening, Triggering
    <3>2. Doomed(stack', y) => y = x
      BY <1>0, <2>4, <3>1, DoomedAfter DEF Rest
    <3> QED BY <2>2, <2>3, <3>1, <3>2
  <2> QED BY <2>5 DEF Listening
<1>11. CASE Unsubscribes(db', calls)
  <2>1. /\ SameRows(db, db') /\ SameTokens(db, db')
        /\ Running("deleteSubscription") /\ ~Running("triggerEventElement")
        /\ db.subscriptions \subseteq db'.subscriptions \cup Top.subs
        /\ NoDeletes(calls)
    BY <1>11, CallsDeleteNothing DEF Unsubscribes, Running
  <2>2. ASSUME NEW p \in Instances, NEW e \in Elements, Waiting(db', p, e)
        PROVE  \E y \in db'.subscriptions :
                   y.instance = p /\ y.element = e /\ ~Doomed(stack', y)
    <3>1. Waiting(db, p, e)
      BY <2>1, <2>2 DEF Waiting, SameRows, SameTokens
    <3>2. PICK y \in db.subscriptions : y.instance = p /\ y.element = e /\ ~Doomed(stack, y)
      BY <2>1, <3>1 DEF Listening, Triggering
    <3>3. 1 \in 1..Len(stack) /\ Top = stack[1]
      BY <1>0 DEF Top
    <3>4. y \notin Top.subs
      BY <2>1, <3>2, <3>3 DEF Doomed, Running
    <3>5. ~Doomed(calls, y)
      BY <2>1 DEF Doomed, NoDeletes
    <3> QED BY <1>0, <2>1, <3>2, <3>4, <3>5, DoomedAfter DEF Rest
  <2> QED BY <2>2 DEF Listening
<1>12. CASE Triggers(db', calls)
  <2>1. /\ SameRows(db, db') /\ SameEvents(db, db') /\ NoDeletes(calls)
        /\ db'.tokens[Top.instance][Top.element] = 0
        /\ \A p \in Instances, e \in Elements :
               db'.tokens[p][e] = db.tokens[p][e] \/ db'.tokens[p][e] = 0
    BY <1>12, CallsDeleteNothing DEF Triggers
  <2>2. \A p \in Instances, e \in Elements :
           Waiting(db', p, e) => Waiting(db, p, e) /\ ~Triggering(p, e)
    BY <2>1 DEF Waiting, SameRows, Triggering
  <2> QED BY <1>0, <2>1, <2>2, ListeningKept DEF SameEvents
<1> QED BY <1>1, <1>3, <1>4, <1>5, <1>6, <1>7, <1>8, <1>9, <1>10, <1>11, <1>12 DEF Effect

\* WaitInv is inductive.
LEMMA WaitStep ==
    ASSUME Undisturbed, "suspend" \notin Requests, EventsWaitAlone, StackInv,
           Recoverable => OpenInv, TypeOK', WaitInv, [Next]_allVars
    PROVE  WaitInv'
<1>0. /\ db \in DB /\ db' \in DB /\ db # NoSnapshot /\ Linked(db)
      /\ NoneSuspended(db) /\ Listening
      /\ saved # NoSnapshot => NoneSuspended(saved) /\ Subscribed(saved)
  BY EngineAssumption DEF StackInv, TypeOK, WaitInv
<1>1. CASE UNCHANGED <<db, stack, saved>>
  BY <1>0, <1>1 DEF WaitInv, Listening, Triggering, Running, Top
<1>2. Subscribed(db)
  BY <1>0 DEF Listening, Subscribed
<1>3. ASSUME stack' = <<>>, Subscribed(db') PROVE Listening'
  <2>1. \A x : ~Doomed(stack', x)
    BY <1>3 DEF Doomed
  <2> QED BY <1>3, <2>1 DEF Listening, Subscribed
<1>4. ASSUME NEW d, Fail(d), NoneSuspended(d), Subscribed(d) PROVE WaitInv'
  <2>1. stack' = <<>> /\ saved' = NoSnapshot /\ NoneSuspended(db') /\ Subscribed(db')
    BY <1>0, <1>4 DEF Fail
  <2> QED BY <1>3, <2>1 DEF WaitInv
<1>5. CASE RequestFails
  BY <1>0, <1>1, <1>2, <1>4, <1>5, FailuresUndone
<1>6. ASSUME NEW d \in DB, Fail(d), Loses(d) PROVE WaitInv'
  <2>1. \A p \in Instances, e \in Elements : Waiting(d, p, e) => Waiting(db, p, e)
    BY <1>6 DEF Loses, SameRows, Waiting
  <2>2. NoneSuspended(d) /\ Subscribed(d)
    BY <1>0, <1>2, <1>6, <2>1 DEF Loses, SameRows, SameEvents, NoneSuspended, Subscribed
  <2> QED BY <1>4, <1>6, <2>2
<1>7. ASSUME stack # <<>>, NEW calls \in Seq(Frame), stack' = calls \o Rest, saved' = saved,
             Effect(db', calls)
      PROVE  WaitInv'
  BY <1>0, <1>7, EffectListens DEF WaitInv
<1>8. CASE Commit
  <2>1. /\ db' = db /\ stack' = Rest /\ saved' = NoSnapshot /\ stack # <<>>
        /\ ~Running("triggerEventElement") /\ stack \in Seq(Frame)
    BY <1>8 DEF Commit, Running, StackInv, TypeOK
  <2>2. stack' = <<>> \o Rest /\ <<>> \in Seq(Frame)
    BY <2>1
  <2>3. Listening'
    BY <1>0, <2>1, <2>2, CallsDeleteNothing, ListeningKept DEF Triggering
  <2> QED BY <1>0, <2>1, <2>3 DEF WaitInv
<1>9. CASE Served
  <2>1. stack = <<>>
    BY <1>9 DEF Served
  <2>2. ASSUME NoDeletes(stack'), saved' \in {saved, db, NoSnapshot},
               NoneSuspended(db'), Subscribed(db')
        PROVE  WaitInv'
    <3>1. \A x : ~Doomed(stack', x)
      BY <2>2 DEF Doomed, NoDeletes
    <3>2. Listening'
      BY <2>2, <3>1 DEF Listening, Subscribed
    <3> QED BY <1>0, <1>2, <2>2, <3>2 DEF WaitInv
  <2>3. NoDeletes(<<>>)
    BY CallsDeleteNothing
  <2>4. ASSUME NEW p \in Instances, NEW e \in Elements
        PROVE  NoDeletes(navigateFrom(p, e) \o commit)
    BY CallTypes, SignalCallTypes, CallsDeleteNothing, NoDeletesTwice
  <2>5. CASE Starts
    <3>1. PICK p \in Instances, s \in Elements :
            /\ db.state[p] = "none" /\ Created(db, db', p, NoInstance, Zeros)
            /\ SameTokens(db, db') /\ stack' = navigateFrom(p, s) \o commit /\ SavedIfPossible
      BY <2>5 DEF Starts
    <3>2. \A e \in Elements : ~(db.tokens[p][e] > 0)
      BY <1>0, <3>1 DEF Linked
    <3>3. StateAt(db, db', p, "running") /\ SameEvents(db, db') /\ db'.tokens = db.tokens
      BY <3>1 DEF Created, SameTokens
    <3>4. \A q \in Instances, e \in Elements : Waiting(db', q, e) => Waiting(db, q, e)
      BY <3>2, <3>3 DEF StateAt, Waiting
    <3>5. NoneSuspended(db')
      BY <1>0, <3>3 DEF StateAt, NoneSuspended
    <3>6. Subscribed(db')
      BY <1>2, <3>3, <3>4 DEF SameEvents, Subscribed
    <3> QED BY <2>2, <2>4, <3>1, <3>5, <3>6 DEF SavedIfPossible
  <2>6. CASE Completes
    <3>1. PICK p \in Instances, t \in Elements :
            /\ IsTask(t) /\ db.active[p][t] > 0 /\ SameRows(db, db')
            /\ db'.subscriptions = {x \in db.subscriptions : x.instance # p}
            /\ TokensAt(db, db', p, t, OneLess(db.tokens[p][t]))
            /\ stack' = navigateFrom(p, t) \o commit /\ SavedIfPossible
      BY <2>6 DEF Completes, IsTask
    <3>2. ASSUME NEW q \in Instances, NEW e \in Elements, Waiting(db', q, e)
          PROVE  Waiting(db, q, e) /\ q # p
      <4>1. Waiting(db, q, e)
        BY <3>1, <3>2 DEF Waiting, SameRows, TokensAt, IsTask, IsWaiter
      <4>2. ASSUME q = p PROVE FALSE
        <5>1. db.tokens[p][e] = 0
          BY <2>1, <3>1, <4>1, <4>2 DEF EventsWaitAlone, Quiescent, Live, Waiting
        <5> QED BY <4>1, <4>2, <5>1 DEF Waiting
      <4> QED BY <4>1, <4>2
    <3>3. NoneSuspended(db') /\ Subscribed(db')
      BY <1>0, <1>2, <3>1, <3>2 DEF SameRows, NoneSuspended, Subscribed
    <3> QED BY <2>2, <2>4, <3>1, <3>3 DEF SavedIfPossible
  <2>7. CASE Touches
    <3>1. NoneSuspended(db') /\ Subscribed(db')
      BY <1>0, <1>2, <2>7 DEF Touches, Same, SameRows, SameEvents, SameTokens, NoneSuspended,
                              Subscribed, Waiting
    <3> QED BY <2>1, <2>2, <2>3, <2>7, <3>1 DEF Touches
  <2>8. CASE Holds
    BY <1>0, <2>8 DEF Holds, NoneSuspended
  <2>9. CASE Terminates
    <3>1. NoneSuspended(db') /\ Subscribed(db')
      BY <1>0, <1>2, <2>9 DEF Terminates, StateAt, SameEvents, NoneSuspended, Subscribed, Waiting
    <3> QED BY <2>1, <2>2, <2>3, <2>9, <3>1 DEF Terminates
  <2>10. CASE Alerts
    <3>1. NoDeletes(stack')
      BY <2>10, CallsDeleteNothing DEF Alerts
    <3> QED BY <1>0, <1>2, <2>2, <2>10, <3>1 DEF Alerts
  <2> QED BY <1>9, <2>5, <2>6, <2>7, <2>8, <2>9, <2>10 DEF Served
<1>10. CASE stack # <<>> /\ Handled
  BY <1>6, <1>7, <1>10 DEF Handled
<1> QED BY <1>1, <1>5, <1>8, <1>9, <1>10, NextEffect DEF StackInv, Happens, allVars

\* Whoever waits for a signal has a subscription, in any definitions, and
\* although a throw event may deliver signals while others are being delivered;
\* provided that nothing is suspended (a signal deletes the subscription of an
\* instance that is not running), that nobody completes a task of an instance
\* while a catch event of it waits, and that requests that die half way are
\* undone, or there are none: a catch event's token is made before its
\* subscription (WaitersSubscribed; fireSignal and CompleteTask).
THEOREM WaitersStaySubscribed ==
    ASSUME Undisturbed, "suspend" \notin Requests
    PROVE  Spec /\ []EventsWaitAlone => []WaitersSubscribed
<1> DEFINE Open == Recoverable => OpenInv
<1>1. Init => WaitInv
  <2> SUFFICES ASSUME Init PROVE WaitInv
    OBVIOUS
  <2>1. saved = NoSnapshot /\ \A p \in Instances : db.state[p] = "none"
    BY DEF Init, EmptyDB
  <2> QED BY <2>1 DEF WaitInv, NoneSuspended, Listening, Waiting
<1>2. EventsWaitAlone /\ StackInv /\ Open /\ WaitInv /\ TypeOK' /\ [Next]_allVars => WaitInv'
  BY WaitStep
<1>3. WaitInv => WaitersSubscribed
  <2> SUFFICES ASSUME WaitInv, NEW p \in Instances, NEW e \in Elements,
                      Live(Committed, p), IsWaiter(e), Committed.tokens[p][e] > 0
               PROVE  \E x \in Committed.subscriptions : x.instance = p /\ x.element = e
    BY DEF WaitersSubscribed, IsWaiter
  <2>1. NoneSuspended(Committed) /\ Subscribed(Committed)
    BY DEF WaitInv, Committed, Listening, Subscribed
  <2> QED BY <2>1 DEF NoneSuspended, Subscribed, Waiting, Live
<1> QED BY <1>1, <1>2, <1>3, OpenCorrect, StackCorrect, TypeCorrect, PTL DEF Spec

-----------------------------------------------------------------------------
(* Ended instances. *)

\* Flows are taken in running instances only: no branch of a fork ends its
\* instance while the others are still to be taken.
NothingLate == Running("takeSequenceFlow") => db.state[Top.instance] = "running"

\* Nothing has a token in an instance that has ended.
Dry(d) ==
    \A p \in Instances, e \in Elements : d.state[p] \in EndedStates => d.tokens[p][e] = 0

DryInv == Dry(db) /\ (saved # NoSnapshot => Dry(saved))

\* Taking tokens away, in instances that have ended or have none.
LEMMA DryKept ==
    ASSUME NEW d, NEW f, Dry(d),
           \A p \in Instances, e \in Elements : f.state[p] \in EndedStates =>
               /\ d.state[p] \in EndedStates \/ d.tokens[p][e] = 0
               /\ d.tokens[p][e] = 0 => f.tokens[p][e] = 0
    PROVE  Dry(f)
BY DEF Dry

\* Every effect does so.
LEMMA EffectDries ==
    ASSUME NothingLate, StackInv, stack # <<>>, Dry(db), NEW calls \in Seq(Frame),
           Effect(db', calls)
    PROVE  Dry(db')
<1>0. db \in DB /\ FrameOK(Top, db)
  BY TopOK DEF StackInv, TypeOK
<1>1. CASE \/ Stops(db', calls) \/ Waits(db', calls) \/ Runs(db', calls) \/ Throws(db', calls)
           \/ Fires(db', calls) \/ Unsubscribes(db', calls)
  <2>1. db'.state = db.state /\ db'.tokens = db.tokens
    BY <1>1 DEF Stops, Waits, Runs, Throws, Fires, Unsubscribes, SameRows, SameTokens
  <2> QED BY <2>1 DEF Dry
<1>2. CASE Passes(db', calls)
  <2>1. db.state[Top.instance] = "running" /\ db'.state = db.state
    BY <1>2 DEF Passes, SameRows
  <2>2. PICK n \in Nat : TokensAt(db, db', Top.instance, Top.element, n)
    BY <1>2 DEF Passes
  <2> QED BY <2>1, <2>2 DEF Dry, TokensAt
<1>3. CASE Rests(db', calls) \/ Reaches(db', calls)
  <2>1. db.state[Top.instance] = "running" /\ db'.state = db.state
    BY <1>3 DEF Rests, Reaches, Moved, SameRows, NothingLate
  <2>2. PICK e \in Elements : \E n : TokensAt(db, db', Top.instance, e, n)
    BY <1>3 DEF Rests, Reaches, Moved
  <2> QED BY <2>1, <2>2 DEF Dry, TokensAt
<1>4. CASE Spawns(db', calls)
  <2>1. PICK a \in Elements, c \in Instances :
          /\ StateAt(db, db', c, "running")
          /\ TokensAt(db, db', Top.instance, a, db.tokens[Top.instance][a] + 1)
    BY <1>4 DEF Spawns, Created
  <2>2. db.state[Top.instance] = "running"
    BY <1>4 DEF Spawns, NothingLate
  <2>3. \A p \in Instances : db'.state[p] \in EndedStates =>
           db.state[p] \in EndedStates /\ p # Top.instance
    BY <2>1, <2>2 DEF StateAt
  <2> QED BY <2>1, <2>3 DEF Dry, TokensAt
<1>5. CASE Ends(db', calls)
  <2> DEFINE by == db.caller[Top.instance]
  <2>1. /\ \A e \in Elements : db.tokens[Top.instance][e] = 0
        /\ StateAt(db, db', Top.instance, "completed")
        /\ \/ db'.tokens = db.tokens
           \/ TokensAt(db, db', by.instance, by.element,
                       OneLess(db.tokens[by.instance][by.element]))
    BY <1>5 DEF Ends, NoActiveTokens, SameTokens
  <2> HIDE DEF by
  <2>2. \A p \in Instances, e \in Elements : db.tokens[p][e] = 0 => db'.tokens[p][e] = 0
    BY <2>1 DEF TokensAt, OneLess
  <2>3. \A p \in Instances, e \in Elements :
           db'.state[p] \in EndedStates => db.state[p] \in EndedStates \/ db.tokens[p][e] = 0
    BY <2>1 DEF StateAt
  <2> QED BY <2>2, <2>3, DryKept
<1>6. CASE Triggers(db', calls)
  <2>1. /\ db'.state = db.state
        /\ \A p \in Instances, e \in Elements :
               db'.tokens[p][e] = db.tokens[p][e] \/ db'.tokens[p][e] = 0
    BY <1>6 DEF Triggers, SameRows
  <2> QED BY <2>1 DEF Dry
<1> QED BY <1>1, <1>2, <1>3, <1>4, <1>5, <1>6 DEF Effect

\* DryInv is inductive.
LEMMA DryStep ==
    ASSUME Undisturbed, NothingLate, StackInv, Recoverable => OpenInv, DryInv, [Next]_allVars
    PROVE  DryInv'
<1>0. db \in DB /\ db # NoSnapshot /\ Dry(db) /\ (saved # NoSnapshot => Dry(saved))
  BY EngineAssumption DEF StackInv, TypeOK, DryInv
<1>1. CASE UNCHANGED <<db, stack, saved>>
  BY <1>0, <1>1 DEF DryInv
<1>2. ASSUME NEW d, Fail(d), Dry(d) PROVE DryInv'
  BY <1>0, <1>2 DEF Fail, DryInv
<1>3. CASE RequestFails
  BY <1>0, <1>1, <1>2, <1>3, FailuresUndone
<1>4. CASE Commit
  BY <1>0, <1>4 DEF Commit, DryInv
<1>5. CASE stack # <<>> /\ Handled
  <2>1. ASSUME NEW calls \in Seq(Frame), saved' = saved, Effect(db', calls) PROVE DryInv'
    BY <1>0, <1>5, <2>1, EffectDries DEF DryInv
  <2>2. ASSUME NEW d \in DB, Fail(d), Loses(d) PROVE DryInv'
    <3>1. Dry(d)
      BY <1>0, <2>2 DEF Loses, SameRows, Dry
    <3> QED BY <1>2, <2>2, <3>1
  <2> QED BY <1>5, <2>1, <2>2 DEF Handled
<1>6. CASE Served
  <2>1. saved' \in {saved, db, NoSnapshot}
    BY <1>6 DEF Served, Starts, Completes, Touches, Holds, Terminates, Alerts, SavedIfPossible
  <2>2. CASE Starts
    <3>1. PICK p \in Instances : StateAt(db, db', p, "running") /\ db'.tokens = db.tokens
      BY <2>2 DEF Starts, Created, SameTokens
    <3>2. Dry(db')
      BY <1>0, <3>1 DEF StateAt, Dry
    <3> QED BY <1>0, <2>1, <3>2 DEF DryInv
  <2>3. CASE Completes
    <3>1. PICK p \in Instances, e \in Elements :
            db'.state = db.state /\ TokensAt(db, db', p, e, OneLess(db.tokens[p][e]))
      BY <2>3 DEF Completes, SameRows
    <3>2. Dry(db')
      BY <1>0, <3>1 DEF Dry, TokensAt, OneLess
    <3> QED BY <1>0, <2>1, <3>2 DEF DryInv
  <2>4. CASE Touches \/ Alerts
    <3>1. db'.state = db.state /\ db'.tokens = db.tokens
      BY <2>4 DEF Touches, Alerts, Same, SameRows, SameTokens
    <3> QED BY <1>0, <2>1, <3>1 DEF DryInv, Dry
  <2>5. CASE Holds
    <3>1. PICK p \in Instances, s \in LiveStates :
            StateAt(db, db', p, s) /\ db'.tokens = db.tokens
      BY <2>5 DEF Holds, SameTokens
    <3>2. Dry(db')
      BY <1>0, <3>1 DEF StateAt, Dry
    <3> QED BY <1>0, <2>1, <3>2 DEF DryInv
  <2>6. CASE Terminates
    <3>1. PICK p \in Instances :
            /\ StateAt(db, db', p, "terminated")
            /\ \A q \in Instances, x \in Elements :
                   db'.tokens[q][x] = IF q = p THEN 0 ELSE db.tokens[q][x]
      BY <2>6 DEF Terminates
    <3>2. Dry(db')
      BY <1>0, <3>1 DEF StateAt, Dry
    <3> QED BY <1>0, <2>1, <3>2 DEF DryInv
  <2> QED BY <1>6, <2>2, <2>3, <2>4, <2>5, <2>6 DEF Served
<1> QED BY <1>1, <1>3, <1>4, <1>5, <1>6, NextEffect DEF StackInv, Happens, allVars

\* At e in p no task is open that should not be: call activities are open while
\* they hold a token, terminated instances are closed.
Shut(d, p, e) ==
    /\ ~IsTask(e) => /\ d.unclaimed[p][e] = 0
                     /\ d.active[p][e] > 0 => IsCall(e) /\ d.tokens[p][e] > 0
    /\ d.state[p] = "terminated" => d.active[p][e] = 0 /\ "terminate" \in Requests

\* What is shut in d is shut in f.
Shuts(d, f) == \A p \in Instances, e \in Elements : Shut(d, p, e) => Shut(f, p, e)

\* Two such steps are one.
LEMMA ShutsTwice ==
    ASSUME NEW d, NEW f, NEW h, Shuts(d, f), Shuts(f, h)
    PROVE  Shuts(d, h)
BY DEF Shuts

\* Rows, counters and subscriptions only count if an instance is terminated.
LEMMA RowsShut ==
    ASSUME NEW d \in DB, NEW p \in Instances
    PROVE  /\ \A s : s # "terminated" => Shuts(d, SetState(d, p, s))
           /\ \A vals : Shuts(d, SetVariables(d, p, vals))
           /\ \A g \in Elements, n \in Nat : Shuts(d, SetArrived(d, p, g, n))
           /\ \A es, i : Shuts(d, CreateSubscriptions(d, p, es, i))
           /\ \A x : Shuts(d, DeleteSignalSubscription(d, x))
           /\ Shuts(d, DeleteSubscriptionsByInstance(d, p))
           /\ \A def, by, vals, counts :
                  Shuts(d, CreateProcessInstance(d, p, def, by, vals, counts))
<1>1. ASSUME NEW f, SameTokens(d, f), SameTasks(d, f),
             \A q \in Instances : f.state[q] = "terminated" => d.state[q] = "terminated"
      PROVE  Shuts(d, f)
  BY <1>1 DEF SameTokens, SameTasks, Shuts, Shut
<1>2. ASSUME NEW s, s # "terminated" PROVE Shuts(d, SetState(d, p, s))
  BY <1>1, <1>2, RowFields, TaskFields DEF StateAt
<1>3. ASSUME NEW vals PROVE Shuts(d, SetVariables(d, p, vals))
  <2>1. SameTokens(d, SetVariables(d, p, vals)) /\ SetVariables(d, p, vals).state = d.state
    BY DEF DB, SetVariables, SameTokens
  <2> QED BY <1>1, <2>1, TaskFields
<1>4. ASSUME NEW g \in Elements, NEW n \in Nat PROVE Shuts(d, SetArrived(d, p, g, n))
  BY <1>1, CounterFields, TaskFields DEF SameRows
<1>5. /\ \A es, i : Shuts(d, CreateSubscriptions(d, p, es, i))
      /\ \A x : Shuts(d, DeleteSignalSubscription(d, x))
      /\ Shuts(d, DeleteSubscriptionsByInstance(d, p))
  BY <1>1, SubscriptionFields, TaskFields DEF SameRows
<1>6. ASSUME NEW def, NEW by, NEW vals, NEW counts
      PROVE  Shuts(d, CreateProcessInstance(d, p, def, by, vals, counts))
  BY <1>1, CreateFields, TaskFields DEF Created, StateAt
<1> QED BY <1>2, <1>3, <1>4, <1>5, <1>6

\* The calls on tokens and activities, where they are made.
LEMMA CallsShut ==
    ASSUME NEW d \in DB, NEW p \in Instances, NEW e \in Elements
    PROVE  /\ Shuts(d, CreateToken(d, p, e))
           /\ ~IsCall(e) => Shuts(d, ConsumeOne(d, p, e)) /\ Shuts(d, ConsumeAt(d, p, e))
           /\ d.tokens[p][e] = 0 => Shuts(d, ConsumeOne(d, p, e))
           /\ Shuts(d, CompleteOne(d, p, e))
           /\ Shuts(d, CompleteAt(ConsumeOne(d, p, e), p, e))
           /\ Shuts(d, CompleteAt(ConsumeAt(d, p, e), p, e))
           /\ IsTask(e) => Shuts(d, CreateUnclaimed(d, p, e))
           /\ IsTask(e) => Shuts(d, SetUnclaimed(d, p, e, OneLess(d.unclaimed[p][e])))
           /\ IsTask(e) /\ d.state[p] # "terminated" => Shuts(d, CreateActive(d, p, e))
           /\ IsCall(e) /\ d.state[p] # "terminated" =>
                  Shuts(d, CreateToken(CreateActive(d, p, e), p, e))
<1>0. \A q \in Instances, x \in Elements :
         d.tokens[q][x] \in Nat /\ d.active[q][x] \in Nat /\ d.unclaimed[q][x] \in Nat
  BY CountValues
<1>1. ASSUME NEW f, NEW n, Moved(d, f, p, e, n), SameTasks(d, f),
             n > 0 \/ ~IsCall(e) \/ n = d.tokens[p][e]
      PROVE  Shuts(d, f)
  BY <1>1 DEF Moved, SameRows, TokensAt, SameTasks, Shuts, Shut
<1>2. Shuts(d, CreateToken(d, p, e))
  <2>1. d.tokens[p][e] + 1 > 0
    BY <1>0
  <2> QED BY <1>1, <2>1, TokenFields, TaskFields
<1>3. /\ ~IsCall(e) => Shuts(d, ConsumeOne(d, p, e)) /\ Shuts(d, ConsumeAt(d, p, e))
      /\ d.tokens[p][e] = 0 => Shuts(d, ConsumeOne(d, p, e))
  BY <1>1, TokenFields, TaskFields DEF OneLess
<1>4. ASSUME NEW f, NEW n, ActiveAt(d, f, p, e, n), SameRows(d, f),
             IsTask(e) \/ (n > 0 => d.active[p][e] > 0),
             d.state[p] = "terminated" /\ d.active[p][e] = 0 => n = 0
      PROVE  Shuts(d, f)
  BY <1>4 DEF ActiveAt, SameRows, Shuts, Shut
<1>5. Shuts(d, CompleteOne(d, p, e))
  <2>1. OneLess(d.active[p][e]) > 0 => d.active[p][e] > 0
    BY <1>0 DEF OneLess
  <2>2. d.active[p][e] = 0 => OneLess(d.active[p][e]) = 0
    BY DEF OneLess
  <2>3. SameRows(d, CompleteOne(d, p, e))
    BY ActivityFields DEF Same
  <2> QED BY <1>4, <2>1, <2>2, <2>3, TaskCalls
<1>6. IsTask(e) /\ d.state[p] # "terminated" => Shuts(d, CreateActive(d, p, e))
  <2>1. SameRows(d, CreateActive(d, p, e))
    BY ActivityFields DEF Same
  <2> QED BY <1>4, <2>1, TaskCalls
<1>7. ASSUME IsTask(e)
      PROVE  /\ Shuts(d, CreateUnclaimed(d, p, e))
             /\ Shuts(d, SetUnclaimed(d, p, e, OneLess(d.unclaimed[p][e])))
  <2>1. ASSUME NEW f, NEW n, UnclaimedAt(d, f, p, e, n), SameRows(d, f) PROVE Shuts(d, f)
    BY <1>7, <2>1 DEF UnclaimedAt, SameRows, Shuts, Shut
  <2>2. /\ SameRows(d, CreateUnclaimed(d, p, e))
        /\ SameRows(d, SetUnclaimed(d, p, e, OneLess(d.unclaimed[p][e])))
    BY ActivityFields DEF Same
  <2> QED BY <2>1, <2>2, TaskCalls
<1>8. ASSUME NEW f \in DB, NEW n, Moved(d, f, p, e, n), SameTasks(d, f)
      PROVE  Shuts(d, CompleteAt(f, p, e))
  <2> DEFINE h == CompleteAt(f, p, e)
  <2>1. ActiveAt(f, h, p, e, 0) /\ SameRows(f, h)
    BY TaskCalls, ActivityFields DEF Same
  <2> HIDE DEF h
  <2>2. Shuts(d, h)
    BY <1>8, <2>1 DEF ActiveAt, Moved, SameRows, TokensAt, SameTasks, Shuts, Shut
  <2> QED BY <2>2 DEF h
<1>9. /\ Shuts(d, CompleteAt(ConsumeOne(d, p, e), p, e))
      /\ Shuts(d, CompleteAt(ConsumeAt(d, p, e), p, e))
  BY <1>8, TokenTypes, TokenFields, TaskFields
<1>10. ASSUME IsCall(e), d.state[p] # "terminated"
       PROVE  Shuts(d, CreateToken(CreateActive(d, p, e), p, e))
  <2> DEFINE f == CreateActive(d, p, e)
             h == CreateToken(f, p, e)
  <2>1. f \in DB /\ ActiveAt(d, f, p, e, d.active[p][e] + 1) /\ SameRows(d, f)
    BY TaskCalls, ActivityTypes, ActivityFields DEF Same
  <2> HIDE DEF f
  <2>2. /\ SameTasks(f, h) /\ SameRows(f, h)
        /\ TokensAt(f, h, p, e, f.tokens[p][e] + 1)
    BY <2>1, TokenFields, TaskFields DEF Moved
  <2> HIDE DEF h
  <2>3. f.tokens[p][e] + 1 > 0
    BY <1>0, <2>1 DEF ActiveAt
  <2>4. ~IsTask(e)
    BY <1>10 DEF IsCall, IsTask
  <2>5. Shuts(d, h)
    BY <1>10, <2>1, <2>2, <2>3, <2>4
       DEF ActiveAt, SameTasks, SameRows, TokensAt, Shuts, Shut
  <2> QED BY <2>5 DEF f, h
<1> QED BY <1>2, <1>3, <1>5, <1>6, <1>7, <1>9, <1>10

\* A handler opens nothing that should be shut, or fails with such tables.
Shutting == \E d \in DB : Shuts(db, d) /\ (db' = d \/ Fail(d))

\* So does every handler that leaves such tables, whatever it calls.
LEMMA ShuttingCalls ==
    ASSUME NEW d \in DB, Shuts(db, d)
    PROVE  (\A calls : Do(d, calls) => Shutting) /\ (Fail(d) => Shutting)
BY DEF Do, Shutting

\* navigateFrom,
LEMMA NavigateFromShuts ==
    ASSUME StackInv, LeftInv,
           \/ NavigateStopped \/ handleOutgoingFlows \/ handleEndEvent
           \/ handleExclusiveGateway \/ handleParallelGateway \/ handleInclusiveGateway
    PROVE  Shutting
<1> DEFINE p == Top.instance
           e == Top.element
<1>0. db \in DB /\ Shuts(db, db) /\ Running("navigateFrom")
  BY DEF StackInv, TypeOK, Shuts, NavigateStopped, handleOutgoingFlows,
         handleEndEvent, handleExclusiveGateway, handleParallelGateway,
         handleInclusiveGateway, At
<1>1. p \in Instances /\ e \in Elements /\ Arriving(p, e)
  BY <1>0, TopOK DEF Running, Arriving
<1>2. ConsumeOne(db, p, e) \in DB /\ ConsumeAt(db, p, e) \in DB
  BY <1>0, <1>1, TokenTypes
<1>3. IsCall(e) => db.tokens[p][e] = 0
  BY <1>1 DEF LeftInv, IsHeld, IsCall
<1>4. Shuts(db, ConsumeOne(db, p, e)) /\ (~IsCall(e) => Shuts(db, ConsumeAt(db, p, e)))
  BY <1>0, <1>1, <1>3, CallsShut
<1>5. CASE NavigateStopped
  BY <1>0, <1>5, ShuttingCalls DEF NavigateStopped
<1>6. CASE handleOutgoingFlows
  <2>1. (\E calls : Do(db, calls)) \/ (\E calls : Do(ConsumeOne(db, p, e), calls))
    BY <1>6 DEF handleOutgoingFlows
  <2> QED BY <1>0, <1>2, <1>4, <2>1, ShuttingCalls
<1>7. CASE \/ handleEndEvent \/ handleExclusiveGateway \/ handleInclusiveGateway
  <2>1. ~IsCall(e)
    BY <1>7 DEF handleEndEvent, handleExclusiveGateway, handleInclusiveGateway, At, IsCall
  <2>2. \/ \E calls : Do(ConsumeAt(db, p, e), calls)
        \/ Fail(db) \/ Fail(ConsumeAt(db, p, e))
    BY <1>7 DEF handleEndEvent, handleExclusiveGateway, handleInclusiveGateway
  <2> QED BY <1>0, <1>2, <1>4, <2>1, <2>2, ShuttingCalls
<1>8. CASE handleParallelGateway
  <2> DEFINE n == db.arrived[p][e] + 1
             consumed == ConsumeAt(db, p, e)
  <2>1. ~IsCall(e)
    BY <1>8 DEF handleParallelGateway, At, IsCall
  <2>2. n \in Nat
    BY <1>0, <1>1, CountValues
  <2>3. consumed \in DB /\ Shuts(db, consumed)
    BY <1>2, <1>4, <2>1
  <2>4. \/ \E calls : Do(SetArrived(db, p, e, n), calls)
        \/ \E calls : Do(SetArrived(consumed, p, e, 0), calls)
        \/ \E calls : Do(consumed, calls)
    BY <1>8 DEF handleParallelGateway
  <2> HIDE DEF consumed, n
  <2>5. /\ SetArrived(db, p, e, n) \in DB /\ Shuts(db, SetArrived(db, p, e, n))
        /\ SetArrived(consumed, p, e, 0) \in DB /\ Shuts(consumed, SetArrived(consumed, p, e, 0))
    BY <1>0, <1>1, <2>2, <2>3, InstanceUpdateTypes, RowsShut
  <2> QED BY <2>3, <2>4, <2>5, ShuttingCalls, ShutsTwice
<1> QED BY <1>5, <1>6, <1>7, <1>8

\* takeSequenceFlow,
LEMMA TakeShuts ==
    ASSUME NothingLate, StackInv,
           \/ TakeToUserTask \/ TakeThrough \/ TakeToGateway \/ handleIntermediateCatchEvent
           \/ handleIntermediateThrowEvent \/ TakeFails
    PROVE  Shutting
<1> DEFINE p == Top.instance
<1>0. TypeOK /\ db \in DB /\ Shuts(db, db)
  BY DEF StackInv, TypeOK, Shuts
<1>1. ASSUME NEW f \in Flows, NEW types, Taking(f, types)
      PROVE  /\ p \in Instances /\ TargetRef[f] \in Elements
             /\ CreateToken(db, p, TargetRef[f]) \in DB
             /\ Shuts(db, CreateToken(db, p, TargetRef[f]))
  BY <1>0, <1>1, TakingFacts, TokenTypes, CallsShut
<1>2. CASE TakeToUserTask
  <2> DEFINE reached(e) == CreateToken(db, p, e)
             created(e) ==
               IF e \in CandidateTasks
               THEN CreateUnclaimed(reached(e), p, e)
               ELSE CreateActive(reached(e), p, e)
  <2>1. PICK f \in Flows, i \in SubscriptionIDs :
          /\ Taking(f, {"userTask"})
          /\ Do(CreateSubscriptions(created(TargetRef[f]), p, BoundarySignals(TargetRef[f]), i),
                MoreFlows(f))
    BY <1>2 DEF TakeToUserTask, CreateTask
  <2> DEFINE e == TargetRef[f]
  <2>2. p \in Instances /\ e \in Elements /\ reached(e) \in DB /\ Shuts(db, reached(e))
    BY <1>1, <2>1
  <2>3. IsTask(e) /\ reached(e).state[p] # "terminated"
    <3>1. IsTask(e) /\ db.state[p] = "running"
      BY <2>1 DEF Taking, NothingLate, IsTask
    <3>2. reached(e).state = db.state
      BY <1>0, <2>2, TokenFields DEF Moved, SameRows
    <3> QED BY <3>1, <3>2
  <2> HIDE DEF reached
  <2>4. created(e) \in DB /\ Shuts(reached(e), created(e))
    BY <2>2, <2>3, ActivityTypes, CallsShut
  <2> HIDE DEF created
  <2>5. BoundarySignals(e) \in SUBSET Elements
    BY DEF BoundarySignals
  <2> DEFINE d == CreateSubscriptions(created(e), p, BoundarySignals(e), i)
  <2>6. d \in DB /\ Shuts(created(e), d)
    BY <2>2, <2>4, <2>5, SubscriptionTypes, RowsShut
  <2>7. Do(d, MoreFlows(f))
    BY <2>1
  <2> HIDE DEF d
  <2> QED BY <2>2, <2>4, <2>6, <2>7, ShuttingCalls, ShutsTwice
<1>3. CASE TakeThrough \/ handleIntermediateThrowEvent \/ TakeFails
  <2>1. Fail(db) \/ \E calls : Do(db, calls)
    BY <1>3 DEF TakeThrough, handleIntermediateThrowEvent, TakeFails
  <2> QED BY <1>0, <2>1, ShuttingCalls
<1>4. CASE TakeToGateway
  <2>1. PICK f \in Flows :
          /\ Taking(f, GatewayTypes)
          /\ \E calls : Do(CreateToken(db, p, TargetRef[f]), calls)
    BY <1>4 DEF TakeToGateway
  <2> QED BY <1>1, <2>1, ShuttingCalls
<1>5. CASE handleIntermediateCatchEvent
  <2> DEFINE waited(e) == IF SignalRef[e] = NoSignal THEN {} ELSE {e}
  <2>1. PICK f \in Flows, i \in SubscriptionIDs :
          /\ Taking(f, {"intermediateCatchEvent"})
          /\ Do(CreateSubscriptions(CreateToken(db, p, TargetRef[f]), p,
                                    waited(TargetRef[f]), i),
                MoreFlows(f))
    BY <1>5 DEF handleIntermediateCatchEvent
  <2> DEFINE e == TargetRef[f]
             reached == CreateToken(db, p, e)
             d == CreateSubscriptions(reached, p, waited(e), i)
  <2>2. p \in Instances /\ e \in Elements /\ reached \in DB /\ Shuts(db, reached)
    BY <1>1, <2>1
  <2>3. waited(e) \in SUBSET Elements
    BY <2>2
  <2>4. Do(d, MoreFlows(f))
    BY <2>1
  <2> HIDE DEF reached, waited
  <2>5. d \in DB /\ Shuts(reached, d)
    BY <2>2, <2>3, SubscriptionTypes, RowsShut
  <2> HIDE DEF d
  <2> QED BY <2>2, <2>4, <2>5, ShuttingCalls, ShutsTwice
<1> QED BY <1>2, <1>3, <1>4, <1>5

\* a call of a child,
LEMMA SpawnShuts ==
    ASSUME NothingLate, StackInv, handleCallActivity
    PROVE  Shutting
<1> DEFINE p == Top.instance
           by(f) == [instance |-> p, element |-> TargetRef[f]]
           vals(f) == IF TargetRef[f] \in InheritVariables THEN db.variables[p] ELSE NoVariables
           counts(f) == IF TargetRef[f] \in InheritVariables THEN db.arrived[p] ELSE Zeros
           child(f, c) == CreateProcessInstance(db, c, CalledElement[TargetRef[f]],
                                                by(f), vals(f), counts(f))
           waiting(f, c) == CreateToken(CreateActive(child(f, c), p, TargetRef[f]),
                                        p, TargetRef[f])
<1>1. PICK f \in Flows, c \in Instances \ Roots :
        /\ Taking(f, {"callActivity"})
        /\ CalledElement[TargetRef[f]] # NoDefinition
        /\ \E calls : Do(waiting(f, c), calls)
  BY DEF handleCallActivity, Calling, CreateChild
<1> DEFINE e == TargetRef[f]
<1>2. db \in DB /\ p \in Instances /\ e \in Elements /\ IsCall(e) /\ db.state[p] = "running"
  BY <1>1, TakingFacts DEF StackInv, IsCall, Taking, NothingLate
<1>3. CalledElement[e] \in Definitions /\ by(f) \in Caller
  BY <1>1, <1>2, ElementsAssumption DEF Caller
<1>4. vals(f) \in Values /\ counts(f) \in PerElement
  <2>1. db.variables \in [Instances -> Values] /\ db.arrived \in [Instances -> PerElement]
    BY <1>2 DEF DB
  <2> QED BY <1>2, <2>1, NullsAssumption DEF Zeros
<1> HIDE DEF vals, counts
<1>5. child(f, c) \in DB /\ Shuts(db, child(f, c)) /\ child(f, c).state[p] = "running"
  <2>1. child(f, c) \in DB
    BY <1>2, <1>3, <1>4, CreateProcessInstanceType
  <2>2. Shuts(db, child(f, c))
    BY <1>2, RowsShut
  <2>3. StateAt(db, child(f, c), c, "running")
    BY <1>2, CreateFields DEF Created
  <2> QED BY <1>2, <2>1, <2>2, <2>3 DEF StateAt
<1> HIDE DEF child
<1>6. waiting(f, c) \in DB /\ Shuts(child(f, c), waiting(f, c))
  <2>1. CreateActive(child(f, c), p, e) \in DB
    BY <1>2, <1>5, ActivityTypes
  <2>2. waiting(f, c) \in DB
    BY <1>2, <2>1, TokenTypes
  <2> QED BY <1>2, <1>5, <2>2, CallsShut
<1> HIDE DEF waiting
<1> QED BY <1>1, <1>5, <1>6, ShuttingCalls, ShutsTwice

\* the end of an instance, which closes the activity of its caller,
LEMMA EndShuts ==
    ASSUME StackInv, CheckComplete
    PROVE  Shutting
<1> DEFINE p == Top.instance
           by == db.caller[p]
           completed == SetState(db, p, "completed")
           told == CompleteAt(ConsumeOne(completed, by.instance, by.element),
                              by.instance, by.element)
<1>0. db \in DB /\ Shuts(db, db) /\ p \in Instances
  <2>1. db \in DB /\ Shuts(db, db)
    BY DEF StackInv, TypeOK, Shuts
  <2> QED BY <2>1, TopOK DEF CheckComplete, Running, Onwards
<1>1. completed \in DB /\ Shuts(db, completed)
  BY <1>0, InstanceUpdateTypes, RowsShut
<1>2. \/ \E calls : Do(db, calls)
      \/ \E calls : Do(completed, calls)
      \/ by # NoInstance /\ \E calls : Do(told, calls)
  BY DEF CheckComplete
<1> HIDE DEF completed
<1>3. ASSUME by # NoInstance PROVE told \in DB /\ Shuts(completed, told)
  <2>1. by.instance \in Instances /\ by.element \in Elements
    BY <1>0, <1>3 DEF DB, Caller
  <2> HIDE DEF by
  <2>2. ConsumeOne(completed, by.instance, by.element) \in DB
    BY <1>1, <2>1, TokenTypes
  <2>3. told \in DB
    BY <2>1, <2>2, ActivityTypes
  <2> QED BY <1>1, <2>1, <2>3, CallsShut
<1> HIDE DEF told
<1> QED BY <1>0, <1>1, <1>2, <1>3, ShuttingCalls, ShutsTwice

\* and signals.
LEMMA SignalShuts ==
    ASSUME StackInv, FireSignal \/ DeleteSubscription \/ triggerEventElement \/ Commit
    PROVE  Shutting
<1>0. db \in DB /\ Shuts(db, db)
  BY DEF StackInv, TypeOK, Shuts
<1>1. CASE FireSignal
  BY <1>0, <1>1, ShuttingCalls DEF FireSignal
<1>2. CASE Commit
  BY <1>0, <1>2 DEF Commit, Shutting
<1>3. CASE DeleteSubscription
  <2>1. PICK x \in Top.subs : Do(DeleteSignalSubscription(db, x), <<>>)
    BY <1>3 DEF DeleteSubscription
  <2>2. Top.subs \in SUBSET Subscription
    BY <1>3, TopOK DEF DeleteSubscription, Running
  <2>3. x.instance \in Instances
    BY <2>1, <2>2 DEF Subscription
  <2>4. DeleteSignalSubscription(db, x) \in DB /\ Shuts(db, DeleteSignalSubscription(db, x))
    BY <1>0, <2>3, SubscriptionTypes, RowsShut
  <2> QED BY <2>1, <2>4, ShuttingCalls
<1>4. CASE triggerEventElement
  <2> DEFINE p == Top.instance
             e == Top.element
             a == AttachedToRef[e]
             d == Interrupt(p, e)
             f == ConsumeAt(d, p, e)
  <2>1. p \in Instances /\ e \in Elements /\ ~IsCall(e)
    <3>1. Running("triggerEventElement") /\ FrameOK(Top, db)
      BY <1>4, TopOK DEF triggerEventElement, Running
    <3> QED BY <3>1, TopOK DEF Running, FrameOK, IsListener, IsCall
  <2>2. d \in DB /\ Shuts(db, d)
    <3>1. CASE d = db
      BY <1>0, <3>1
    <3>2. CASE a # NoElement /\ d = CompleteAt(ConsumeAt(db, p, a), p, a)
      <4>1. a \in Elements
        BY <2>1, <3>2, ElementsAssumption
      <4>2. ConsumeAt(db, p, a) \in DB
        BY <1>0, <2>1, <4>1, TokenTypes
      <4>3. CompleteAt(ConsumeAt(db, p, a), p, a) \in DB
        BY <2>1, <4>1, <4>2, ActivityTypes
      <4> QED BY <1>0, <2>1, <3>2, <4>1, <4>3, CallsShut
    <3> QED BY <3>1, <3>2 DEF Interrupt, Interrupts
  <2>3. (\E calls : Do(f, calls)) \/ (\E calls : Do(db, calls))
    BY <1>4 DEF triggerEventElement
  <2> HIDE DEF d
  <2>4. f \in DB /\ Shuts(d, f)
    BY <2>1, <2>2, TokenTypes, CallsShut
  <2> HIDE DEF f
  <2> QED BY <1>0, <2>2, <2>3, <2>4, ShuttingCalls, ShutsTwice
<1> QED BY <1>1, <1>2, <1>3, <1>4

\* Every handler does so.
LEMMA NavigateShuts ==
    ASSUME NothingLate, StackInv, LeftInv, Navigate
    PROVE  Shutting
BY NavigateFromShuts, TakeShuts, SpawnShuts, EndShuts, SignalShuts DEF Navigate

Closed(d) == \A p \in Instances, e \in Elements : Shut(d, p, e)

ShutInv == Closed(db) /\ (saved # NoSnapshot => Closed(saved))

\* ShutInv is inductive.
LEMMA ShutStep ==
    ASSUME ~({"claim", "terminate"} \subseteq Requests),
           Undisturbed, NothingLate, StackInv, Recoverable => OpenInv, LeftInv, ShutInv,
           [Next]_allVars
    PROVE  ShutInv'
<1>0. db \in DB /\ db # NoSnapshot /\ Closed(db) /\ (saved # NoSnapshot => Closed(saved))
  BY EngineAssumption DEF StackInv, TypeOK, ShutInv
<1>1. CASE UNCHANGED <<db, stack, saved>>
  BY <1>1 DEF ShutInv, Closed, Shut
<1>2. ASSUME NEW d, Shuts(db, d) PROVE Closed(d)
  BY <1>0, <1>2 DEF Shuts, Closed
<1>3. CASE Navigate
  <2>1. saved' \in {saved, NoSnapshot}
    BY <1>3, NavigateEffect DEF StackInv, Handled, Commit, Fail
  <2>2. PICK d \in DB : Shuts(db, d) /\ (db' = d \/ Fail(d))
    BY <1>3, NavigateShuts DEF Shutting
  <2>3. db' = d \/ (saved # NoSnapshot /\ db' = saved)
    BY <2>2 DEF Fail
  <2> QED BY <1>0, <1>2, <2>1, <2>2, <2>3 DEF ShutInv
<1>4. CASE RequestFails
  BY <1>0, <1>1, <1>4, FailuresUndone DEF Fail, ShutInv
<1>5. CASE Serve
  <2>1. saved' \in {saved, db, NoSnapshot}
    BY <1>5, ServeForward
  <2>2. ASSUME NEW d, Shuts(db, d), db' = d PROVE ShutInv'
    BY <1>0, <1>2, <2>1, <2>2 DEF ShutInv
  <2>3. CASE StartProcessInstance
    <3>1. PICK def \in Definitions, vals \in Values, p \in Roots :
            db' = CreateProcessInstance(db, p, def, NoInstance, vals, Zeros)
      BY <2>3 DEF StartProcessInstance, RunInTransaction
    <3>2. Shuts(db, CreateProcessInstance(db, p, def, NoInstance, vals, Zeros))
      BY <1>0, StoreAssumption, RowsShut
    <3> QED BY <2>2, <3>1, <3>2
  <2>4. ASSUME NEW p \in Instances, NEW e \in Elements, CompleteTask(p, e) PROVE ShutInv'
    <3> DEFINE f == CompleteOne(db, p, e)
               g(vals) == SetVariables(f, p, vals)
               h(vals) == ConsumeOne(g(vals), p, e)
    <3>1. PICK vals \in Values : db' = DeleteSubscriptionsByInstance(h(vals), p)
      BY <2>4 DEF CompleteTask, Completable, RunInTransaction
    <3>2. ~IsCall(e)
      BY <2>4 DEF CompleteTask, Completable, IsCall
    <3>3. f \in DB /\ Shuts(db, f)
      BY <1>0, ActivityTypes, CallsShut
    <3> HIDE DEF f
    <3>4. g(vals) \in DB /\ Shuts(f, g(vals))
      BY <3>3, InstanceUpdateTypes, RowsShut
    <3> HIDE DEF g
    <3>5. h(vals) \in DB /\ Shuts(g(vals), h(vals))
      BY <3>2, <3>4, TokenTypes, CallsShut
    <3> HIDE DEF h
    <3>6. Shuts(h(vals), DeleteSubscriptionsByInstance(h(vals), p))
      BY <3>5, RowsShut
    <3>7. Shuts(db, DeleteSubscriptionsByInstance(h(vals), p))
      BY <3>3, <3>4, <3>5, <3>6, ShutsTwice
    <3> QED BY <2>2, <3>1, <3>7
  <2>5. CASE ClaimTask
    <3>1. PICK p \in Instances, e \in Elements :
            "claim" \in Requests /\ db.unclaimed[p][e] > 0 /\ db' = Claim(db, p, e)
      BY <2>5 DEF ClaimTask, Receive, Write
    <3> DEFINE n == OneLess(db.unclaimed[p][e])
               f == SetUnclaimed(db, p, e, n)
    <3>2. IsTask(e) /\ db.state[p] # "terminated"
      <4>1. Shut(db, p, e)
        BY <1>0, <3>1 DEF Closed
      <4> QED BY <3>1, <4>1 DEF Shut
    <3>3. n \in Nat
      BY <1>0, <3>1, CountValues, OneLessType
    <3>4. f \in DB /\ f.state = db.state /\ Shuts(db, f)
      <4>1. f \in DB /\ Shuts(db, f)
        BY <1>0, <3>2, <3>3, CountTypes, CallsShut
      <4>2. f.state = db.state
        BY <1>0, ActivityFields DEF Same, SameRows
      <4> QED BY <4>1, <4>2
    <3>5. db' = CreateActive(f, p, e)
      BY <3>1 DEF Claim
    <3> HIDE DEF f
    <3>6. Shuts(f, CreateActive(f, p, e))
      BY <3>2, <3>4, CallsShut
    <3>7. Shuts(db, CreateActive(f, p, e))
      BY <3>4, <3>6, ShutsTwice
    <3> QED BY <2>2, <3>5, <3>7
  <2>6. CASE UnclaimTask
    <3>1. PICK p \in Instances, e \in CandidateTasks :
            db.active[p][e] > 0 /\ db' = Unclaim(db, p, e)
      BY <2>6 DEF UnclaimTask, Write
    <3> DEFINE f == CompleteOne(db, p, e)
    <3>2. e \in Elements /\ IsTask(e)
      BY ElementsAssumption DEF IsTask
    <3>3. f \in DB /\ Shuts(db, f)
      BY <1>0, <3>2, ActivityTypes, CallsShut
    <3>4. db' = CreateUnclaimed(f, p, e)
      BY <3>1 DEF Unclaim
    <3> HIDE DEF f
    <3>5. Shuts(f, CreateUnclaimed(f, p, e))
      BY <3>2, <3>3, CallsShut
    <3>6. Shuts(db, CreateUnclaimed(f, p, e))
      BY <3>3, <3>5, ShutsTwice
    <3> QED BY <2>2, <3>4, <3>6
  <2>7. CASE SuspendProcessInstance \/ ResumeProcessInstance
    <3>1. PICK p \in Instances, s \in LiveStates : db' = SetState(db, p, s)
      BY <2>7 DEF SuspendProcessInstance, ResumeProcessInstance, Write
    <3>2. Shuts(db, SetState(db, p, s))
      BY <1>0, RowsShut
    <3> QED BY <2>2, <3>1, <3>2
  <2>8. CASE TerminateProcessInstance
    <3>1. PICK p \in Instances :
            db' = SetState(CompleteAll(ConsumeAll(db, p), p), p, "terminated")
      BY <2>8 DEF TerminateProcessInstance, Write
    <3>2. "terminate" \in Requests
      BY <2>8 DEF TerminateProcessInstance, Receive
    <3>3. \A q \in Instances :
             IF q = p THEN /\ db'.active[q] = Zeros /\ db'.unclaimed[q] = db.unclaimed[q]
             ELSE /\ db'.state[q] = db.state[q] /\ db'.tokens[q] = db.tokens[q]
                  /\ db'.active[q] = db.active[q] /\ db'.unclaimed[q] = db.unclaimed[q]
      BY <1>0, <3>1 DEF SetState, CompleteAll, ConsumeAll, DB
    <3>4. \A e \in Elements : Zeros[e] = 0
      BY DEF Zeros
    <3>5. Closed(db')
      BY <1>0, <3>2, <3>3, <3>4 DEF Closed, Shut
    <3> QED BY <1>0, <2>1, <3>5 DEF ShutInv
  <2>9. CASE ReceiveSignal
    <3>1. db' = db /\ Shuts(db, db)
      BY <2>9 DEF ReceiveSignal, Shuts
    <3> QED BY <2>2, <3>1
  <2> QED BY <1>5, <2>3, <2>4, <2>5, <2>6, <2>7, <2>8, <2>9 DEF Serve
<1> QED BY <1>1, <1>3, <1>4, <1>5 DEF Next, allVars

\* Once an instance has ended, no token and no open task comes back to it: in
\* any definitions where no branch of a fork ends its instance early, unless a
\* task of a terminated instance may still be claimed, and where requests that
\* die half way are undone, or there are none (EndedIsDrained; checkComplete and
\* TerminateProcessInstance).
THEOREM EndedInstancesStayDrained ==
    ASSUME Undisturbed, NoPoolInterrupted, ~({"claim", "terminate"} \subseteq Requests)
    PROVE  Spec /\ []NothingShared /\ []NothingLate => []EndedIsDrained
<1> DEFINE Open == Recoverable => OpenInv
<1>1. Init => LeftInv /\ TaskInv /\ DryInv /\ ShutInv
  <2> SUFFICES ASSUME Init PROVE LeftInv /\ TaskInv /\ DryInv /\ ShutInv
    OBVIOUS
  <2>1. /\ stack = <<>> /\ saved = NoSnapshot
        /\ \A p \in Instances : db.state[p] = "none"
        /\ \A p \in Instances, e \in Elements :
               db.tokens[p][e] = 0 /\ db.active[p][e] = 0 /\ db.unclaimed[p][e] = 0
    BY DEF Init, EmptyDB, Zeros
  <2> QED BY <2>1 DEF LeftInv, Arriving, Running, TaskInv, Tasks, Balanced, DryInv, Dry,
             ShutInv, Closed, Shut
<1>2. NothingShared /\ StackInv /\ LeftInv /\ TypeOK' /\ [Next]_allVars => LeftInv'
  BY LeftStep
<1>3. NothingShared /\ StackInv /\ Open /\ LeftInv /\ TaskInv /\ [Next]_allVars => TaskInv'
  BY TaskStep
<1>4. NothingLate /\ StackInv /\ Open /\ DryInv /\ [Next]_allVars => DryInv'
  BY DryStep
<1>5. NothingLate /\ StackInv /\ Open /\ LeftInv /\ ShutInv /\ [Next]_allVars => ShutInv'
  BY ShutStep
<1>6. StackInv /\ TaskInv /\ DryInv /\ ShutInv => EndedIsDrained
  <2> SUFFICES ASSUME StackInv, TaskInv, DryInv, ShutInv, NEW p \in Instances,
                      Committed.state[p] \in EndedStates, NEW e \in Elements
               PROVE  /\ Committed.tokens[p][e] = 0 /\ Committed.active[p][e] = 0
                      /\ Committed.state[p] = "completed" => Committed.unclaimed[p][e] = 0
    BY DEF EndedIsDrained, NoActiveTokens
  <2>1. Committed \in DB /\ Tasks(Committed) /\ Dry(Committed) /\ Closed(Committed)
    BY DEF StackInv, TypeOK, TaskInv, DryInv, ShutInv, Committed
  <2>2. /\ Committed.tokens[p][e] = 0 /\ Shut(Committed, p, e)
        /\ Committed.active[p][e] \in Nat /\ Committed.unclaimed[p][e] \in Nat
    BY <2>1, CountValues DEF Dry, Closed
  <2>3. CASE Committed.state[p] = "terminated"
    BY <2>2, <2>3 DEF Shut
  <2>4. CASE Committed.state[p] # "terminated" /\ IsTask(e)
    <3>1. Committed.tokens[p][e] = Committed.active[p][e] + Committed.unclaimed[p][e]
      BY <2>1, <2>4 DEF Tasks, Balanced
    <3> QED BY <2>2, <3>1
  <2>5. CASE ~IsTask(e)
    BY <2>2, <2>5 DEF Shut
  <2> QED BY <2>3, <2>4, <2>5
<1> QED BY <1>1, <1>2, <1>3, <1>4, <1>5, <1>6, OpenCorrect, StackCorrect, TypeCorrect, PTL DEF Spec
=============================================================================
