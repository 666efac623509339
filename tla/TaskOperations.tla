---------------------------- MODULE TaskOperations ----------------------------
(***************************************************************************)
(* What people do with open user tasks besides completing them: additional  *)
(* signers, delegation, transfer, rejection, jumps, reclaims and timeouts.   *)
(*                                                                          *)
(* Tokens, activities and sign sessions are separate rows that every        *)
(* request updates by itself.  CompleteTask runs in a transaction and is one *)
(* step.  All other requests read what they need, and then make their store *)
(* calls one by one outside any transaction: such a request is a sequence   *)
(* of writes, which other requests may interleave and a crash may cut off.  *)
(*                                                                          *)
(* The processes are sequential: user tasks joined by service tasks and     *)
(* exclusive gateways.  Module Navigator shows how a token passes those     *)
(* within a request; here it arrives at once.  Assignees, reasons and other *)
(* process variables are left out; ActivityInstance IDs are positions.      *)
(***************************************************************************)
EXTENDS Naturals, Sequences, FiniteSets, SequencesExt

CONSTANTS
    Instances,        \* the process instances
    Elements, NoElement,
    ElementType,      \* element -> its type
    SequenceFlows,    \* the flows in definition order, <<source, target>>
    StartEventID,     \* instance -> the start event of its definition
    Broken,           \* elements whose outgoing condition cannot be evaluated
    JumpTargets,      \* the elements clients jump to
    Usages,           \* the ways in which clients may use the engine
    Workers,          \* the goroutines that serve requests
    MaxRequests,      \* bound on the requests other than CompleteTask
    MaxFaults,        \* bound on crashes
    MaxRejection,     \* the limit RejectTask reads
    MaxSigners,       \* bound on the assignees of one AddSign
    MaxActivities     \* bound on the activities, implied by the others

WaitTypes == {"userTask", "endEvent"}

ASSUME OperationsAssumption ==
    /\ NoElement \notin Elements
    /\ ElementType \in [Elements -> WaitTypes \cup {"startEvent", "serviceTask", "exclusiveGateway"}]
    /\ \A k \in DOMAIN SequenceFlows : SequenceFlows[k] \in Elements \X Elements
    /\ JumpTargets \subseteq Elements
    /\ StartEventID \in [Instances -> Elements]
    /\ \A u \in Usages : u.serial \in BOOLEAN
    /\ {MaxRequests, MaxFaults, MaxRejection, MaxSigners, MaxActivities} \subseteq Nat

FindIncomingFlows(e) == SelectSeq(SequenceFlows, LAMBDA f : f[2] = e)
FindOutgoingFlows(e) == SelectSeq(SequenceFlows, LAMBDA f : f[1] = e)

\* Wherever it comes to, a token that leaves e goes on until it waits.
Follows(S, e) ==
    \A f \in ToSet(SequenceFlows) :
        (f[1] = e \/ (f[1] \in S /\ ElementType[f[1]] \notin WaitTypes)) => f[2] \in S

\* The tasks and end events at which a token that leaves e may arrive.
Arrivals ==
    [e \in Elements |-> {t \in Elements : /\ ElementType[t] \in WaitTypes
                                         /\ \A S \in SUBSET Elements : Follows(S, e) => t \in S}]

\* The search against the flows shares one set of visited elements.
findPreviousUserTask[e \in Elements, visited \in SUBSET Elements] ==
    IF e \in visited THEN [found |-> NoElement, visited |-> visited]
    ELSE FoldLeft(LAMBDA acc, f :
                     IF acc.found # NoElement THEN acc
                     ELSE IF ElementType[f[1]] \in {"userTask", "startEvent"}
                          THEN [acc EXCEPT !.found = f[1]]
                     ELSE findPreviousUserTask[f[1], acc.visited],
                  [found |-> NoElement, visited |-> visited \cup {e}],
                  FindIncomingFlows(e))

findFirstUserTaskForward[e \in Elements, visited \in SUBSET Elements] ==
    IF e \in visited THEN [found |-> NoElement, visited |-> visited]
    ELSE IF ElementType[e] = "userTask" THEN [found |-> e, visited |-> visited \cup {e}]
    ELSE FoldLeft(LAMBDA acc, f :
                     IF acc.found # NoElement THEN acc
                     ELSE findFirstUserTaskForward[f[2], acc.visited],
                  [found |-> NoElement, visited |-> visited \cup {e}],
                  FindOutgoingFlows(e))

findInitiatorTask(i) ==
    LET flows == FindOutgoingFlows(StartEventID[i])
    IN  IF flows = <<>> THEN NoElement
        ELSE findFirstUserTaskForward[flows[1][2], {}].found

-----------------------------------------------------------------------------
(***************************************************************************)
(* The rows, as one record d, and what single store calls make of them.     *)
(***************************************************************************)
VARIABLES
    db,         \* the rows of all instances
    usage,      \* the kinds of requests clients make, and whether in turn
    todo,       \* worker -> the writes its request has still to make
    sweep,      \* the instances CheckTimeouts has still to visit, and the activities
                \* it has listed and not yet handled
    requests,   \* how many requests other than CompleteTask were made
    faults      \* how many requests were cut off

vars == <<db, usage, todo, sweep, requests, faults>>

NewActivityInstance(d, i, e, parent) ==
    [d EXCEPT !.acts = Append(@,
        [inst |-> i, element |-> e, state |-> "active", parent |-> parent,
         delegated |-> FALSE, term |-> 0, version |-> 0])]

NewToken(d, i, e) == [d EXCEPT !.tokens[i][e] = @ + 1]

\* All handlers consume "a" token at an element: the first one listed, if any.
ConsumeToken(d, i, e) == [d EXCEPT !.tokens[i][e] = IF @ = 0 THEN 0 ELSE @ - 1]

\* UpdateActivityInstance increments the version.
Completed(x) == [x EXCEPT !.state = "completed", !.version = @ + 1]

\* What ReclaimTask finds out from the completion times: the element that was
\* completed last, and the last one before that was another.
Remember(d, x) ==
    [d EXCEPT !.recent[x.inst] =
        IF @.last = x.element THEN @ ELSE [last |-> x.element, before |-> @.last]]

Complete(d, a) == [Remember(d, d.acts[a]) EXCEPT !.acts[a] = Completed(@)]

OpenSigns(d, a) == {b \in DOMAIN d.acts : d.acts[b].parent = a /\ d.acts[b].state = "active"}

hasPendingSigns(d, a) == OpenSigns(d, a) # {}

\* findSignID returns any of the sessions of a task: it iterates over a map.
findSignID(d, a) == {s \in d.sessions : s.parent = a}

\* The tasks of signers are at the element of their parent.
CompleteSigns(d, a) ==
    LET signs == OpenSigns(d, a)
    IN  IF signs = {} THEN d
        ELSE [Remember(d, d.acts[a]) EXCEPT
                !.acts = [b \in DOMAIN @ |-> IF b \in signs THEN Completed(@[b]) ELSE @[b]]]

-----------------------------------------------------------------------------
(* Navigation *)

checkComplete(d, i) ==
    IF \A e \in Elements : d.tokens[i][e] = 0
    THEN [d EXCEPT !.state[i] = "completed"] ELSE d

takeSequenceFlow(d, i, e) ==
    IF ElementType[e] = "endEvent" THEN checkComplete([d EXCEPT !.tokens[i][e] = 0], i)
    ELSE NewActivityInstance(NewToken(d, i, e), i, e, 0)

\* The states navigation may lead to; none if it fails.
navigateFrom(d, i, e) ==
    IF d.state[i] # "running" THEN {d}
    ELSE IF e \in Broken THEN {}
    ELSE IF ElementType[e] = "endEvent" THEN {takeSequenceFlow(d, i, e)}
    ELSE {takeSequenceFlow(ConsumeToken(d, i, e), i, t) : t \in Arrivals[e]}

-----------------------------------------------------------------------------
(* CompleteTask *)

\* Mutant: the session waits for one more.
Satisfied_OneMore(s) ==
    \/ s.strategy = "or" /\ s.approved >= 1
    \/ s.strategy = "and" /\ s.completed > s.total

Satisfied(s) ==
    \/ s.strategy = "or" /\ s.approved >= 1
    \/ s.strategy = "and" /\ s.completed >= s.total

\* Mutant: the tokens of the other signers stay.
EndSession_KeepTokens(d, s) ==
    LET p == d.acts[s.parent]
        closed == [CompleteSigns(d, s.parent) EXCEPT !.sessions = {t \in @ : t.id # s.id}]
    IN  IF p.state = "completed"
        THEN navigateFrom(NewToken(closed, p.inst, p.element), p.inst, p.element)
        ELSE {closed}

\* The session is over: the other signers need not sign any more, and of all
\* tokens at the element the one of the parent is kept, if it is still open.
EndSession(d, s) ==
    LET p == d.acts[s.parent]
        ended == p.state = "completed"
        closed == [CompleteSigns(d, s.parent) EXCEPT
                     !.tokens[p.inst][p.element] = IF ended \/ @ = 0 THEN 0 ELSE 1,
                     !.sessions = {t \in @ : t.id # s.id}]
    IN  IF ended THEN navigateFrom(NewToken(closed, p.inst, p.element), p.inst, p.element)
        ELSE {closed}

handleSignCompletion(d, a, approved) ==
    LET sessions == findSignID(d, d.acts[a].parent)
        Counted(s) == [s EXCEPT !.completed = @ + 1,
                                !.approved = IF approved THEN @ + 1 ELSE @]
        After(s) == [d EXCEPT !.sessions = (@ \ {s}) \cup {Counted(s)}]
    IN  IF sessions = {} THEN {d}
        ELSE UNION {IF Satisfied(Counted(s)) THEN EndSession(After(s), Counted(s))
                    ELSE {After(s)} : s \in sessions}

\* Mutant: a delegated task is passed on.
handleDelegateCompletion_Skip(d, a) == navigateFrom(d, d.acts[a].inst, d.acts[a].element)

\* Mutant: the token of the new activity is not created.
handleDelegateCompletion_NoToken(d, a) ==
    {NewActivityInstance(d, d.acts[a].inst, d.acts[a].element, 0)}

\* A delegated task goes back, as a new activity, to who delegated it.
handleDelegateCompletion(d, a) ==
    LET x == d.acts[a]
    IN  {NewToken(NewActivityInstance(d, x.inst, x.element, 0), x.inst, x.element)}

\* What CompleteTask may commit; nothing if it fails and is rolled back.
Completions(d, a, approved) ==
    LET x == d.acts[a]
        done == Complete(d, a)
        consumed == ConsumeToken(done, x.inst, x.element)
    IN  CASE x.parent # 0             -> handleSignCompletion(done, a, approved)
          [] x.parent = 0 /\ hasPendingSigns(done, a) -> {done}
          [] OTHER -> IF x.delegated THEN handleDelegateCompletion(consumed, a)
                      ELSE navigateFrom(consumed, x.inst, x.element)

\* Clients may make one request after the other.
Idle == \A w \in Workers : todo[w] = <<>>
InTurn == usage.serial => Idle

CompleteTask(a, approved) ==
    /\ InTurn
    /\ db.acts[a].state = "active"
    /\ db' \in Completions(db, a, approved)
    /\ UNCHANGED <<usage, todo, sweep, requests, faults>>

-----------------------------------------------------------------------------
(***************************************************************************)
(* The writes of the other requests.  An update of an activity carries the  *)
(* version that was read, and whether the request looks at the error it     *)
(* gets when the version has changed.                                       *)
(***************************************************************************)
Update(a, strict) == [op |-> "complete", act |-> a, version |-> db.acts[a].version, strict |-> strict]
Reassign(a, field, value) ==
    [op |-> "reassign", act |-> a, version |-> db.acts[a].version, strict |-> TRUE,
     field |-> field, value |-> value]
At(op, i, e) == [op |-> op, inst |-> i, element |-> e]
On(op, a) == [op |-> op, act |-> a]

Conflicts(d, w) == w.op \in {"complete", "reassign"} /\ d.acts[w.act].version # w.version

\* The update of an assignee or of a deadline.
Reassigned(x, w) ==
    [x EXCEPT !.version = @ + 1, !.term = IF w.field = "term" THEN w.value ELSE @]

Applied(d, w) ==
    CASE w.op = "complete"  -> IF Conflicts(d, w) THEN d ELSE Complete(d, w.act)
      [] w.op = "reassign"  -> IF Conflicts(d, w) THEN d
                               ELSE [d EXCEPT !.acts[w.act] = Reassigned(@, w)]
      [] w.op = "delegate"  -> [d EXCEPT !.acts[w.act].delegated = w.value]
      [] w.op = "consume"   -> ConsumeToken(d, w.inst, w.element)
      [] w.op = "drain"     -> [d EXCEPT !.tokens[w.inst] = [e \in Elements |-> 0]]
      [] w.op = "token"     -> NewToken(d, w.inst, w.element)
      [] w.op = "activity"  -> NewActivityInstance(d, w.inst, w.element, w.parent)
      [] w.op = "session"   -> [d EXCEPT !.sessions = @ \cup {w.session}]
      [] w.op = "credit"    -> [d EXCEPT !.sessions = {IF s.id = w.session.id THEN w.session ELSE s : s \in @}]
      [] w.op = "signs"     -> CompleteSigns(d, w.act)
      [] w.op = "sessions"  -> [d EXCEPT !.sessions = @ \ findSignID(d, w.act)]
      [] w.op = "rejection" -> [d EXCEPT !.rejections[w.inst] = w.count]
      [] w.op = "reject"    -> [d EXCEPT !.state[w.inst] = "rejected"]
      [] w.op = "navigate"  -> CHOOSE r \in navigateFrom(d, w.inst, w.element) : TRUE

\* A worker that has nothing to do takes up a request and makes its reads.
Serve(w, kind, writes) ==
    /\ kind \in usage.kinds
    /\ todo[w] = <<>>
    /\ usage.serial => Idle /\ w = CHOOSE v \in Workers : TRUE
    /\ requests < MaxRequests
    /\ requests' = requests + 1
    /\ todo' = [todo EXCEPT ![w] = writes]
    /\ UNCHANGED <<db, usage, sweep, faults>>

Active(a) == db.acts[a].state = "active"
Running(a) == db.state[db.acts[a].inst] = "running"
IsSign(a) == db.acts[a].parent # 0

AddSign(w, a, signType, strategy, n) ==
    LET i == db.acts[a].inst
        e == db.acts[a].element
        session == [id |-> <<w, requests>>, parent |-> a, strategy |-> strategy,
                    total |-> n, completed |-> 0, approved |-> 0]
        sign == <<[op |-> "activity", inst |-> i, element |-> e, parent |-> a], At("token", i, e)>>
    IN  /\ Active(a) /\ ~IsSign(a) /\ Running(a)
        /\ findSignID(db, a) # {} => "overlap" \in usage.kinds
        /\ Serve(w, strategy,
              <<[op |-> "session", session |-> session]>>
              \o FlattenSeq([k \in 1..n |-> sign])
              \o IF signType = "backward" THEN <<Update(a, FALSE), At("consume", i, e)>> ELSE <<>>)

RemoveSign(w, a, b) ==
    /\ Active(a) /\ b \in OpenSigns(db, a)
    /\ \E credit \in IF findSignID(db, a) = {} THEN {<<>>}
                     ELSE {<<[op |-> "credit", session |-> [s EXCEPT !.completed = @ + 1]]>>
                             : s \in findSignID(db, a)} :
          Serve(w, "remove",
                <<Update(b, FALSE), At("consume", db.acts[a].inst, db.acts[a].element)>> \o credit)

DelegateTask(w, a) ==
    /\ Active(a)
    /\ Serve(w, "delegate",
             <<[op |-> "delegate", act |-> a, value |-> TRUE], Reassign(a, "assignee", 0)>>)

TransferTask(w, a) ==
    /\ Active(a)
    /\ Serve(w, "transfer", <<Reassign(a, "assignee", 0)>>)

\* SetTimeout, with the time that passes until the activity expires.
SetTimeout(w, a, termMode) ==
    /\ Active(a)
    /\ Serve(w, "timeout", <<Reassign(a, "term", termMode)>>)

-----------------------------------------------------------------------------
(* Rework *)

Undelegate(a) == [op |-> "delegate", act |-> a, value |-> FALSE]

\* The activity made at a target is of type userTask whatever the target is.
Reopen(i, e) == <<At("token", i, e), [op |-> "activity", inst |-> i, element |-> e, parent |-> 0]>>

RejectTo(w, a, target) ==
    LET i == db.acts[a].inst
    IN  /\ target \in Elements
        /\ Serve(w, "reject",
              <<Update(a, FALSE), At("consume", i, db.acts[a].element)>>
              \o Reopen(i, target)
              \o <<[op |-> "rejection", inst |-> i, count |-> db.rejections[i] + 1], Undelegate(a)>>)

CanReject(a) ==
    /\ Active(a) /\ Running(a)
    /\ db.rejections[db.acts[a].inst] < MaxRejection

RejectPrevious(w, a) ==
    /\ CanReject(a)
    /\ RejectTo(w, a, findPreviousUserTask[db.acts[a].element, {}].found)

RejectInitiator(w, a) ==
    /\ CanReject(a)
    /\ RejectTo(w, a, findInitiatorTask(db.acts[a].inst))

RejectSpecific(w, a, target) ==
    /\ CanReject(a)
    /\ RejectTo(w, a, target)

RejectTerminate(w, a) ==
    LET i == db.acts[a].inst
    IN  /\ CanReject(a)
        /\ Serve(w, "reject",
              <<Update(a, FALSE), [op |-> "drain", inst |-> i], [op |-> "reject", inst |-> i]>>)

\* Tasks and end events get what they need to go on, other targets a bare token.
Enter(i, e) ==
    CASE ElementType[e] = "userTask" -> Reopen(i, e)
      [] ElementType[e] = "endEvent" -> <<At("token", i, e), At("navigate", i, e)>>
      [] OTHER -> <<At("token", i, e)>>

JumpTask(w, a, target) ==
    LET i == db.acts[a].inst
    IN  /\ Active(a) /\ ~IsSign(a)
        /\ Serve(w, "jump",
              <<Update(a, TRUE), At("consume", i, db.acts[a].element),
                On("signs", a), On("sessions", a), Undelegate(a)>>
              \o Enter(i, target))

\* The element of the task that was completed last, other than this one.
ReclaimTask(w, a) ==
    LET i == db.acts[a].inst
        target == IF db.recent[i].last # db.acts[a].element THEN db.recent[i].last ELSE db.recent[i].before
    IN  /\ Active(a) /\ ~IsSign(a)
        /\ target # NoElement
        /\ Serve(w, "reclaim",
              <<Update(a, FALSE), At("consume", i, db.acts[a].element)>>
              \o Reopen(i, target)
              \o <<On("signs", a), On("sessions", a), Undelegate(a)>>)

-----------------------------------------------------------------------------
(* Workers, and CheckTimeouts *)

\* Mutant: a conflict does not end the request.
Write_Anyway(w) ==
    /\ todo[w] # <<>>
    /\ db' = Applied(db, Head(todo[w]))
    /\ todo' = [todo EXCEPT ![w] = Tail(@)]
    /\ UNCHANGED <<usage, sweep, requests, faults>>

\* The next write of a request.  One that finds a newer version fails, and so
\* does the request, unless it ignores the error.
Write(w) ==
    LET head == Head(todo[w])
        stop == Conflicts(db, head) /\ head.strict
    IN  /\ todo[w] # <<>>
        /\ db' = Applied(db, head)
        /\ todo' = [todo EXCEPT ![w] = IF stop THEN <<>> ELSE Tail(@)]
        /\ UNCHANGED <<usage, sweep, requests, faults>>

\* The request ends early: a crash, or an error that is returned.
Crash(w) ==
    /\ "crash" \in usage.kinds
    /\ todo[w] # <<>>
    /\ faults < MaxFaults
    /\ faults' = faults + 1
    /\ todo' = [todo EXCEPT ![w] = <<>>]
    /\ UNCHANGED <<db, usage, sweep, requests>>

NoSweep == [left |-> {}, acts |-> <<>>]

Overdue(a) == db.acts[a].term # 0 /\ Active(a) /\ Running(a)

\* Mutant: tasks to be rejected are left alone.
CheckTimeouts_PassOnly ==
    LET left == IF sweep.left = {} THEN Instances ELSE sweep.left
    IN  /\ sweep.acts = <<>>
        /\ InTurn
        /\ \E i \in left :
              \E acts \in SetToSeqs({a \in DOMAIN db.acts : db.acts[a].inst = i /\ Overdue(a) /\ db.acts[a].term = 1}) :
                  sweep' = [left |-> left \ {i}, acts |-> acts]
        /\ UNCHANGED <<db, usage, todo, requests, faults>>

\* CheckTimeouts visits the instances one by one, lists the activities of each
\* and then handles the overdue ones, in the order in which the store returns
\* them.  Each instance has a definition of its own.
CheckTimeouts ==
    LET left == IF sweep.left = {} THEN Instances ELSE sweep.left
    IN  /\ sweep.acts = <<>>
        /\ InTurn
        /\ \E i \in left :
              \E acts \in SetToSeqs({a \in DOMAIN db.acts : db.acts[a].inst = i /\ Overdue(a)}) :
                  sweep' = [left |-> left \ {i}, acts |-> acts]
        /\ UNCHANGED <<db, usage, todo, requests, faults>>

\* autoCompleteTask and autoRejectTask.  An error ends the sweep.
AutoComplete ==
    LET a == Head(sweep.acts)
        after == IF Active(a) THEN Completions(db, a, db.acts[a].term = 1) ELSE {}
    IN  /\ sweep.acts # <<>>
        /\ InTurn
        /\ IF after = {} THEN sweep' = NoSweep /\ UNCHANGED db
           ELSE sweep' = [sweep EXCEPT !.acts = Tail(@)] /\ db' \in after
        /\ UNCHANGED <<usage, todo, requests, faults>>

-----------------------------------------------------------------------------
Init ==
    /\ db = [acts |-> <<>>,
             tokens |-> [i \in Instances |-> [e \in Elements |-> 0]],
             sessions |-> {},
             rejections |-> [i \in Instances |-> 0],
             recent |-> [i \in Instances |-> [last |-> NoElement, before |-> NoElement]],
             state |-> [i \in Instances |-> "new"]]
    /\ usage \in Usages
    /\ todo = [w \in Workers |-> <<>>]
    /\ sweep = NoSweep
    /\ requests = 0
    /\ faults = 0

StartProcessInstance(i) ==
    /\ db.state[i] = "new"
    /\ db' \in navigateFrom([db EXCEPT !.state[i] = "running"], i, StartEventID[i])
    /\ UNCHANGED <<usage, todo, sweep, requests, faults>>

Completing == \E a \in DOMAIN db.acts, approved \in BOOLEAN : CompleteTask(a, approved)

Requesting(w, a) ==
    \/ \E signType \in {"forward", "backward"}, strategy \in {"and", "or"}, n \in 1..MaxSigners :
          AddSign(w, a, signType, strategy, n)
    \/ \E b \in DOMAIN db.acts : RemoveSign(w, a, b)
    \/ DelegateTask(w, a)
    \/ TransferTask(w, a)
    \/ \E termMode \in {1, 2} : SetTimeout(w, a, termMode)
    \/ RejectPrevious(w, a)
    \/ RejectInitiator(w, a)
    \/ \E target \in Elements : RejectSpecific(w, a, target)
    \/ RejectTerminate(w, a)
    \/ \E target \in JumpTargets : JumpTask(w, a, target)
    \/ ReclaimTask(w, a)

Next ==
    \/ \E i \in Instances : StartProcessInstance(i)
    \/ Completing
    \/ \E w \in Workers : \E a \in DOMAIN db.acts : Requesting(w, a)
    \/ \E w \in Workers : Write(w) \/ Crash(w)
    \/ CheckTimeouts
    \/ AutoComplete

\* Goroutines that serve requests run on, and CheckTimeouts is called
\* "periodically (e.g., every 30s) by a background goroutine".
Spec ==
    /\ Init /\ [][Next]_vars
    /\ \A w \in Workers : WF_vars(Write(w))
    /\ WF_vars(CheckTimeouts) /\ WF_vars(AutoComplete)

-----------------------------------------------------------------------------
(* Properties *)

TypeOK ==
    /\ \A a \in DOMAIN db.acts :
          /\ db.acts[a].inst \in Instances /\ db.acts[a].element \in Elements
          /\ db.acts[a].state \in {"active", "completed"}
          /\ db.acts[a].parent \in 0..(a - 1)
          /\ db.acts[a].term \in 0..2 /\ db.acts[a].version \in Nat
    /\ db.tokens \in [Instances -> [Elements -> Nat]]
    /\ db.rejections \in [Instances -> Nat]
    /\ db.state \in [Instances -> {"new", "running", "completed", "rejected"}]
    /\ ToSet(sweep.acts) \subseteq DOMAIN db.acts /\ sweep.left \subseteq Instances
    /\ requests \in 0..MaxRequests /\ faults \in 0..MaxFaults

Open(i, e) == {a \in DOMAIN db.acts : Active(a) /\ db.acts[a].inst = i /\ db.acts[a].element = e}

\* Between requests every open task, signers' tasks included, has a token at
\* its element, so that completing it can never end the instance too early.
OpenTasksHaveTokens ==
    Idle => \A i \in Instances, e \in Elements : Cardinality(Open(i, e)) <= db.tokens[i][e]

\* Between requests no token waits where nobody has a task: such a token
\* would keep the instance from ever being complete (checkComplete).
NoTokenLeftBehind ==
    Idle => \A i \in Instances, e \in Elements : db.tokens[i][e] > 0 => Open(i, e) # {}

\* A sequential process is in progress at one element only, with one task of
\* its own and the tasks of signers: whatever sequence of signs, rejections,
\* jumps and reclaims has led there, and whoever races whom.
OnePlaceAtATime ==
    Idle => \A a, b \in DOMAIN db.acts :
        (Active(a) /\ Active(b) /\ db.acts[a].inst = db.acts[b].inst)
            => /\ db.acts[a].element = db.acts[b].element
               /\ a = b \/ IsSign(a) \/ IsSign(b)

\* A request that has been served leaves a running instance with work to do.
RunningHasOpenTask ==
    Idle => \A i \in Instances :
        db.state[i] = "running" => \E a \in DOMAIN db.acts : Active(a) /\ db.acts[a].inst = i

\* When a delegated task is completed, its element gets an open task again:
\* the delegator's.
DelegateReturns ==
    [][\A a \in DOMAIN db.acts, approved \in BOOLEAN :
          (CompleteTask(a, approved) /\ db.acts[a].delegated)
              => \E b \in DOMAIN db'.acts : /\ db'.acts[b].state = "active"
                                            /\ db'.acts[b].element = db.acts[a].element]_vars

\* An overdue task that can be completed does not stay open for ever, though a
\* sweep works on a stale list and stops at the first error.
OverdueHandled ==
    \A a \in 1..MaxActivities :
        (a \in DOMAIN db.acts /\ Overdue(a) /\ db.acts[a].element \notin Broken) ~> (a \in DOMAIN db.acts /\ ~Overdue(a))

\* If people go on completing tasks, every instance that was started ends.
InstancesEnd ==
    WF_vars(Completing) =>
        \A i \in Instances : db.state[i] = "running" ~> db.state[i] \in {"completed", "rejected"}
=============================================================================
