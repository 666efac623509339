-------------------------------- MODULE Engine --------------------------------
(***************************************************************************)
(* engine/engine.go: the requests the engine serves, on top of Navigator.   *)
(* Requests are served one at a time: a request starts when the call stack  *)
(* is empty and runs through Navigator's actions until it is empty again.   *)
(* (What concurrent requests do to one another is the subject of            *)
(* TaskConcurrency and MemoryLocker.)                                       *)
(*                                                                          *)
(* StartProcessInstance and CompleteTask run in a transaction, all other    *)
(* requests write straight to the store.                                    *)
(***************************************************************************)
EXTENDS Navigator

CONSTANTS
    Requests,        \* the kinds of request the environment makes
    Transactional,   \* TRUE for the SQL stores, FALSE for memstore
    MaxFaults        \* how many requests may fail half-way (bound)

VARIABLE faults      \* how many have

allVars == <<db, stack, saved, faults>>

ASSUME EngineAssumption ==
    /\ Transactional \in BOOLEAN
    /\ MaxFaults \in Nat
    /\ NoSnapshot \notin DB

Init ==
    /\ db = EmptyDB
    /\ stack = <<>>
    /\ saved = NoSnapshot
    /\ faults = 0

-----------------------------------------------------------------------------
\* A request of this kind arrives while none is being served.
Receive(r) == Quiescent /\ r \in Requests

\* Mutant: the writes go straight to the store.
RunInTransaction_None(d, calls) ==
    /\ db' = d
    /\ stack' = calls \o commit
    /\ saved' = NoSnapshot

\* RunInTransaction(fn): fn starts by turning the tables into d and calling
\* the navigator.  memstore has no rollback.
RunInTransaction(d, calls) ==
    /\ db' = d
    /\ stack' = calls \o commit
    /\ saved' = IF Transactional THEN db ELSE NoSnapshot

\* A request that only writes to the store.
Write(d) ==
    /\ db' = d
    /\ UNCHANGED <<stack, saved>>

StartProcessInstance ==
    \E def \in Definitions, vals \in Values, p \in Roots :
        /\ Receive("start")
        /\ db.state[p] = "none"
        /\ p = CHOOSE q \in Roots : db.state[q] = "none"
        /\ RunInTransaction(
               CreateProcessInstance(db, p, def, NoInstance, vals, Zeros),
               navigateFrom(p, StartEventID[def]))

\* Task e of p can be completed, whatever the state of p, with these variables.
Completable(p, e, vals) ==
    /\ ElementType[e] = "userTask"
    /\ db.active[p][e] > 0
    /\ vals \in (Values \ {NoVariables}) \cup {db.variables[p]}

\* Completes one active user task, drops one token there and every
\* subscription of the instance, and navigates on.
CompleteTask(p, e) ==
    \E vals \in Values :
        /\ Receive("complete")
        /\ Completable(p, e, vals)
        /\ LET completed == SetVariables(CompleteOne(db, p, e), p, vals)
           IN  RunInTransaction(
                   DeleteSubscriptionsByInstance(ConsumeOne(completed, p, e), p),
                   navigateFrom(p, e))

ClaimTask ==
    \E p \in Instances, e \in Elements :
        /\ Receive("claim")
        /\ db.unclaimed[p][e] > 0
        /\ Write(Claim(db, p, e))

\* Only tasks that were created with candidates can be given back.
UnclaimTask ==
    \E p \in Instances, e \in CandidateTasks :
        /\ Receive("unclaim")
        /\ db.active[p][e] > 0
        /\ Write(Unclaim(db, p, e))

SuspendProcessInstance ==
    \E p \in Instances :
        /\ Receive("suspend")
        /\ db.state[p] = "running"
        /\ Write(SetState(db, p, "suspended"))

\* Mutant: resumes whatever is not running.
ResumeProcessInstance_Any ==
    \E p \in Instances :
        /\ Receive("resume")
        /\ db.state[p] \notin {"none", "running"}
        /\ Write(SetState(db, p, "running"))

ResumeProcessInstance ==
    \E p \in Instances :
        /\ Receive("resume")
        /\ db.state[p] = "suspended"
        /\ Write(SetState(db, p, "running"))

\* Mutant: only the instance's own row is ended.
TerminateProcessInstance_RowOnly ==
    \E p \in Instances :
        /\ Receive("terminate")
        /\ db.state[p] \in LiveStates
        /\ Write(SetState(db, p, "terminated"))

\* Leaves unclaimed tasks, subscriptions and child instances alone.
TerminateProcessInstance ==
    \E p \in Instances :
        /\ Receive("terminate")
        /\ db.state[p] \in LiveStates
        /\ Write(SetState(CompleteAll(ConsumeAll(db, p), p), p, "terminated"))

\* ReceiveSignal and ReceiveMessage, outside any transaction.
ReceiveSignal ==
    \E s \in Signals :
        /\ Receive("signal")
        /\ stack' = fireSignals(ListSignalSubscriptions(db, s))
        /\ UNCHANGED <<db, saved>>

-----------------------------------------------------------------------------
(* Failures: a store call fails, the context is cancelled or the process dies. *)

\* CompleteTask writes the activity, the variables, the token and then the
\* subscriptions; a transaction undoes them.
CompleteTaskCut ==
    \E p \in Instances, e \in Elements, vals \in Values :
        LET completed == CompleteOne(db, p, e)
            merged == SetVariables(completed, p, vals)
        IN  /\ Receive("complete")
            /\ Completable(p, e, vals)
            /\ \E d \in {completed, merged, ConsumeOne(merged, p, e)} :
                   Write(IF Transactional THEN db ELSE d)

\* What is left of a row of counts by a loop that stops half-way.
Remaining(counts) ==
    LET held == {e \in Elements : counts[e] > 0}
        kept == {k \in [held -> UNION {0..counts[e] : e \in held}] :
                    \A e \in held : k[e] <= counts[e]}
    IN  {[e \in Elements |-> IF e \in held THEN k[e] ELSE 0] : k \in kept}

\* TerminateProcessInstance, outside any transaction: tokens, then activities,
\* and the instance's row at the end.
TerminateCut ==
    \E p \in Instances :
        /\ Receive("terminate")
        /\ db.state[p] \in LiveStates
        /\ \/ \E left \in Remaining(db.tokens[p]) : Write([db EXCEPT !.tokens[p] = left])
           \/ \E left \in Remaining(db.active[p]) :
                  Write([ConsumeAll(db, p) EXCEPT !.active[p] = left])

\* The request that is served, or the one that has just arrived, fails between
\* two handlers or within one.
RequestFails ==
    /\ faults < MaxFaults
    /\ faults' = faults + 1
    /\ \/ ~Quiescent /\ Fail(db)
       \/ HandlerCut
       \/ CompleteTaskCut
       \/ TerminateCut

-----------------------------------------------------------------------------
Serve ==
    \/ StartProcessInstance
    \/ \E p \in Instances, e \in Elements : CompleteTask(p, e)
    \/ ClaimTask
    \/ UnclaimTask
    \/ SuspendProcessInstance
    \/ ResumeProcessInstance
    \/ TerminateProcessInstance
    \/ ReceiveSignal

Next ==
    \/ Serve /\ UNCHANGED faults
    \/ Navigate /\ UNCHANGED faults
    \/ RequestFails

Spec == Init /\ [][Next]_allVars

\* A request that is being served runs on.
FairSpec == Spec /\ WF_vars(Navigate)

\* And people get around to their tasks: no open one is left forever.
AttendedSpec ==
    FairSpec /\ \A p \in Instances, e \in Elements : WF_vars(CompleteTask(p, e))

-----------------------------------------------------------------------------
(***************************************************************************)
(* Properties.  Between two steps of a request the tables are in motion;    *)
(* most properties are about what the rest of the world can see of them:    *)
(* the tables between requests, which a transaction keeps as its snapshot.  *)
(***************************************************************************)
Committed == IF saved = NoSnapshot THEN db ELSE saved

Settled == Quiescent \/ saved # NoSnapshot

Live(d, p) == d.state[p] \in LiveStates

\* The state variables have their types: the tables, the call stack and the
\* transaction's snapshot.
TypeOK ==
    /\ db \in DB
    /\ stack \in Seq(Frame)
    /\ saved \in DB \cup {NoSnapshot}
    /\ faults \in Nat

\* Tokens and tasks agree: at every user task of a live instance there are as
\* many tokens as open activities.  takeSequenceFlow makes them together, but
\* CompleteTask, handleOutgoingFlows, boundary events and rollbacks each touch
\* only one of the two at a time.
TasksHoldTokens ==
    Settled => \A p \in Instances, e \in Elements :
        (Live(Committed, p) /\ ElementType[e] = "userTask") =>
            Committed.tokens[p][e] = Committed.active[p][e] + Committed.unclaimed[p][e]

\* A running instance always has a token somewhere: navigation never drops the
\* last token without completing the instance (checkComplete).
RunningHasToken ==
    Settled => \A p \in Instances :
        Committed.state[p] = "running" => ~NoActiveTokens(Committed, p)

\* An ended instance is finished: no token and no open task is left in it when
\* checkComplete or TerminateProcessInstance closes it, and none comes back
\* through a child, a signal or a late request.
EndedIsDrained ==
    Settled => \A p \in Instances :
        Committed.state[p] \in EndedStates =>
            /\ NoActiveTokens(Committed, p)
            /\ \A e \in Elements : Committed.active[p][e] = 0
            /\ Committed.state[p] = "completed" =>
                   \A e \in Elements : Committed.unclaimed[p][e] = 0

\* No token rests at a gateway that does not wait: XOR and OR gateways are
\* passed, or the request that reached them is undone.  (What a fork still puts
\* into an instance that its first branch has completed is EndedIsDrained's.)
NoTokenStranded ==
    Settled => \A p \in Instances, g \in Elements :
        (/\ ElementType[g] \in {"exclusiveGateway", "inclusiveGateway"}
         /\ Committed.state[p] # "completed") =>
            Committed.tokens[p][g] = 0

\* Calls of the navigator to gateway g of p that have not run yet.
Approaching(p, g) ==
    Cardinality({k \in DOMAIN stack : /\ stack[k].call = "navigateFrom"
                                      /\ stack[k].instance = p
                                      /\ stack[k].element = g})

\* The join counter (a process variable) and the tokens parked at the join
\* always agree, up to tokens just placed there: handleParallelGateway counts
\* each token once and resets both together.
JoinCountsTokens ==
    \A p \in Instances, g \in Elements :
        (Live(db, p) /\ ElementType[g] = "parallelGateway" /\ countEffectiveIncoming(g) > 1) =>
            db.tokens[p][g] = db.arrived[p][g] + Approaching(p, g)

\* A join never holds as many arrivals as it waits for: the last one passes it
\* and resets the counter.
JoinNeverFull ==
    \A p \in Instances, g \in Elements : db.arrived[p][g] < countEffectiveIncoming(g)

\* An AND-join passes only with a token from each incoming flow: whenever a
\* step of handleParallelGateway empties the gateway and goes on.
JoinWaitsForAll ==
    [][\A p \in Instances, g \in Elements :
           LET incoming == Cardinality(FindIncomingFlows(g))
           IN  (/\ Running("navigateFrom") /\ Top.instance = p /\ Top.element = g
                /\ ElementType[g] = "parallelGateway" /\ incoming > 1
                /\ db.tokens[p][g] > 0 /\ db'.tokens[p][g] = 0
                /\ stack' # <<>>)
               => db.tokens[p][g] >= incoming]_allVars

\* A call activity holds one token per child instance that has not completed,
\* so no caller waits for a child that is done, and no child is forgotten.
CallersAwaitChildren ==
    Settled => \A p \in Instances, e \in Elements :
        (Live(Committed, p) /\ ElementType[e] = "callActivity") =>
            Committed.tokens[p][e] =
                Cardinality({c \in Instances :
                                /\ Committed.caller[c] = [instance |-> p, element |-> e]
                                /\ Committed.state[c] # "completed"})

\* Nobody is lost to a crash: a running instance has a token, or a subscription
\* through which the signal that was being delivered can be sent again.
\* fireSignal deletes a subscription only after navigation has gone on.
RunningCanGoOn ==
    Settled => \A p \in Instances :
        Committed.state[p] = "running" =>
            \/ ~NoActiveTokens(Committed, p)
            \/ \E x \in Committed.subscriptions : x.instance = p

\* Whoever waits at a signal catch event has a subscription to be woken by.
WaitersSubscribed ==
    Settled => \A p \in Instances, e \in Elements :
        (/\ Live(Committed, p)
         /\ ElementType[e] = "intermediateCatchEvent"
         /\ SignalRef[e] # NoSignal
         /\ Committed.tokens[p][e] > 0) =>
            \E x \in Committed.subscriptions : x.instance = p /\ x.element = e

\* A boundary event of a live instance listens exactly as long as its activity
\* is open: an open task can be interrupted, a finished one no longer can.  (A
\* crash between fireSignal's navigation and its DeleteSignalSubscription
\* leaves a subscription behind.)
BoundariesArmed ==
    (faults = 0 /\ Settled) => \A p \in Instances, e \in Elements :
        Live(Committed, p) => \A b \in BoundarySignals(e) :
            (\E x \in Committed.subscriptions : x.instance = p /\ x.element = b)
                <=> Committed.active[p][e] + Committed.unclaimed[p][e] > 0

\* An ended instance stays as it ended: no later request, signal, child or
\* parent revives it or changes how it ended.
EndedIsFinal ==
    [][\A p \in Instances : Committed.state[p] \in EndedStates =>
           Committed'.state[p] = Committed.state[p]]_allVars

\* Every request returns: the recursion of the navigator ends.
RequestReturns == ~Quiescent ~> Quiescent

\* If people do their tasks, every instance ends: no join, call activity or
\* boundary event loses what it waits for.
InstancesEnd ==
    \A p \in Instances :
        Committed.state[p] = "running" ~> Committed.state[p] \in EndedStates
=============================================================================
