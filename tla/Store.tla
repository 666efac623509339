-------------------------------- MODULE Store --------------------------------
(***************************************************************************)
(* The runtime tables behind storage.Store, as one record, and the storage  *)
(* calls the engine makes, each as a function from tables to tables.        *)
(*                                                                          *)
(* Tokens and activity instances of one process instance at one element are *)
(* interchangeable, so a table keeps how many there are.  Consumed tokens,  *)
(* completed activities and history are never read back by the operations   *)
(* modelled here and are left out; so are timer jobs, which nothing in the  *)
(* engine ever lists.                                                       *)
(***************************************************************************)
EXTENDS WorkflowDefinition

CONSTANTS
    Instances,        \* the process instance IDs there is room for (bound)
    Roots,            \* those of them StartProcessInstance may use (bound)
    NoInstance,
    SubscriptionIDs   \* pool of subscription numbers (bound on live ones)

ASSUME StoreAssumption ==
    /\ Roots \subseteq Instances
    /\ NoInstance \notin Instances \cup [instance : Instances, element : Elements]
    /\ SubscriptionIDs \subseteq Nat

LiveStates     == {"running", "suspended"}
EndedStates    == {"completed", "terminated"}
InstanceStates == LiveStates \cup EndedStates \cup {"none"}

Subscription == [instance : Instances, element : Elements, id : SubscriptionIDs]

\* The call activity that started an instance: ParentProcessInstanceID and
\* ParentActivityID; NoInstance for an instance nobody called.
Caller == [instance : Instances, element : Elements]

PerElement == [Elements -> Nat]

DB == [ state         : [Instances -> InstanceStates],
        definition    : [Instances -> Definitions \cup {NoDefinition}],
        caller        : [Instances -> Caller \cup {NoInstance}],
        variables     : [Instances -> Values],
        arrived       : [Instances -> PerElement],   \* __gw_arrived_<gateway>
        tokens        : [Instances -> PerElement],   \* active tokens
        active        : [Instances -> PerElement],   \* activities, "active"
        unclaimed     : [Instances -> PerElement],   \* activities, "unclaimed"
        subscriptions : SUBSET Subscription ]

Zeros == [e \in Elements |-> 0]

EmptyDB ==
    [ state         |-> [p \in Instances |-> "none"],
      definition    |-> [p \in Instances |-> NoDefinition],
      caller        |-> [p \in Instances |-> NoInstance],
      variables     |-> [p \in Instances |-> NoVariables],
      arrived       |-> [p \in Instances |-> Zeros],
      tokens        |-> [p \in Instances |-> Zeros],
      active        |-> [p \in Instances |-> Zeros],
      unclaimed     |-> [p \in Instances |-> Zeros],
      subscriptions |-> {} ]

-----------------------------------------------------------------------------
(* Process instances and their variables. *)

CreateProcessInstance(d, p, def, by, vals, counts) ==
    [d EXCEPT !.state[p] = "running", !.definition[p] = def, !.caller[p] = by,
              !.variables[p] = vals, !.arrived[p] = counts]

SetState(d, p, s) == [d EXCEPT !.state[p] = s]

SetVariables(d, p, vals) == [d EXCEPT !.variables[p] = vals]

SetArrived(d, p, g, n) == [d EXCEPT !.arrived[p][g] = n]

-----------------------------------------------------------------------------
(* Tokens: CreateToken, and UpdateToken(consumed) on what ListActiveTokens *)
(* returned: one token at an element, all of them, or all of an instance.  *)

SetTokens(d, p, e, n) == [d EXCEPT !.tokens[p][e] = n]

OneLess(n) == IF n = 0 THEN 0 ELSE n - 1

CreateToken(d, p, e) == SetTokens(d, p, e, d.tokens[p][e] + 1)

\* Mutant: consumes a token that may not be there.
ConsumeOne_Blind(d, p, e) == SetTokens(d, p, e, d.tokens[p][e] - 1)

ConsumeOne(d, p, e) == SetTokens(d, p, e, OneLess(d.tokens[p][e]))

\* Mutant: the loop over the tokens at an element stops after the first.
ConsumeAt_First(d, p, e) == ConsumeOne(d, p, e)

ConsumeAt(d, p, e) == SetTokens(d, p, e, 0)

ConsumeAll(d, p) == [d EXCEPT !.tokens[p] = Zeros]

\* Mutant: tokens waiting at user tasks are overlooked.
NoActiveTokens_Shallow(d, p) ==
    \A e \in Elements : ElementType[e] # "userTask" => d.tokens[p][e] = 0

NoActiveTokens(d, p) == \A e \in Elements : d.tokens[p][e] = 0

-----------------------------------------------------------------------------
(* Activity instances. *)

SetActive(d, p, e, n) == [d EXCEPT !.active[p][e] = n]

SetUnclaimed(d, p, e, n) == [d EXCEPT !.unclaimed[p][e] = n]

CreateActive(d, p, e) == SetActive(d, p, e, d.active[p][e] + 1)

CreateUnclaimed(d, p, e) == SetUnclaimed(d, p, e, d.unclaimed[p][e] + 1)

\* Mutant: completes every open task of the instance.
CompleteOne_All(d, p, e) == [d EXCEPT !.active[p] = Zeros]

CompleteOne(d, p, e) == SetActive(d, p, e, OneLess(d.active[p][e]))

CompleteAt(d, p, e) == SetActive(d, p, e, 0)

\* ListActiveActivities returns active activities only, not unclaimed ones.
CompleteAll(d, p) == [d EXCEPT !.active[p] = Zeros]

Claim(d, p, e) ==
    CreateActive(SetUnclaimed(d, p, e, OneLess(d.unclaimed[p][e])), p, e)

Unclaim(d, p, e) == CreateUnclaimed(CompleteOne(d, p, e), p, e)

-----------------------------------------------------------------------------
(* Signal subscriptions. *)

\* The subscriptions made when p arrives at the event elements es.
NewSubscriptions(p, es, i) == [instance : {p}, element : es, id : {i}]

CreateSubscriptions(d, p, es, i) ==
    [d EXCEPT !.subscriptions = @ \cup NewSubscriptions(p, es, i)]

ListSignalSubscriptions(d, s) == {x \in d.subscriptions : SignalRef[x.element] = s}

DeleteSignalSubscription(d, x) == [d EXCEPT !.subscriptions = @ \ {x}]

\* Mutants: the WHERE clause is missing, or the whole cleanup is.
DeleteSubscriptionsByInstance_Every(d, p) == [d EXCEPT !.subscriptions = {}]
DeleteSubscriptionsByInstance_None(d, p) == d

DeleteSubscriptionsByInstance(d, p) ==
    [d EXCEPT !.subscriptions = {x \in @ : x.instance # p}]
=============================================================================
