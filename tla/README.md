# Workflow-Go in TLA+

Specifications of the workflow engine in `src/`: modules that describe its parts,
configurations under which TLC checks them, and proofs that TLAPS checks. Source
lines in this file and in the modules refer to the commit in `src/`.

## 1. The system

Workflow-Go executes BPMN-like process definitions. A *definition* is a graph of
elements (events, tasks, gateways, call activities) joined by an ordered list of
sequence flows. A *process instance* is executed by moving *tokens* along the flows;
user tasks are *activity instances* that wait for a person. The engine is a library:
every API call runs in the caller's goroutine, and all of its state is in a store.

| component | source | state | operations |
|---|---|---|---|
| definitions | `spec/` | none (read-only) | `FindOutgoingFlows`, `FindIncomingFlows`, `Validate`, JSON |
| runtime models | `instance/` | rows for instances, activities, tokens, variables, subscriptions, timer jobs, history | constructors, `Complete` |
| store | `storage/storage.go`, `memstore`, `sqlstore`, `pgstore`, `mysqlstore` | the tables, `LockVersion` of activities | CRUD, `RunInTransaction`, queries |
| navigator | `engine/navigator.go` | only the call stack | `navigateFrom`, `handleOutgoingFlows`, `takeSequenceFlow`, `handleEndEvent`, `checkComplete` |
| gateways | `engine/gateway.go` | the join counter, a process variable `__gw_arrived_<id>` | XOR, AND, OR |
| events | `engine/event.go` | signal subscriptions, timer jobs | catch, throw, boundary, `fireSignal`, `triggerEventElement` |
| call activities | `engine/call_activity.go` | parent links of instances | start a child, `checkParentCompletion` |
| requests | `engine/engine.go`, `api/` | none | start, complete, claim, unclaim, suspend, resume, terminate, signal, and others |
| locks | `lock/` | a mutex and a map of held keys, goroutines, timers | `Lock`, `LockWithTTL`, `TryLock`, `Unlock` |
| signs | `engine/add_sign.go`, `delegate.go` | child activities of a task and their tokens | `AddSign`, `RemoveSign`, `DelegateTask`, completion |
| multi-instance | `engine/multi_instance.go` | loop counters as process variables | sequential and parallel loops |
| rework | `engine/reject.go`, `jump_urge.go`, `reclaim.go` | tokens and activities | `RejectTask`, `JumpTask`, `ReclaimTask` |
| timeouts, deployment | `engine/timeout.go`, `deployment.go` | due dates; versions of definitions | `CheckTimeouts`; `DeployProcessDefinition` |
| expressions, identity, queries, listeners | `expr/`, `identity/`, `api/query_impl.go`, `engine/listener.go` | none | evaluation, lookups, filters; listeners are never called |

**How they interact.** A request reads the store, then (start, complete) opens a
transaction through `runWithLock`/`RunInTransaction`, writes, and calls `navigateFrom`.
The navigator's functions call each other recursively: an outgoing flow is followed to
the next wait state before the next flow is taken; a throw event fires its signal, and
all that the signal wakes, before its own flows; an end event may complete the instance,
and completing it makes `checkParentCompletion` navigate in the caller. So one request can
walk through several instances. What people do with open tasks besides completing them (signs,
delegation, rejection, jumps, reclaims) makes its store calls one by one outside any
transaction. Nothing runs between requests but `CheckTimeouts`, which the host program is told
to call periodically (`timeout.go:13`); nothing calls `ListDueTimerJobs`.

**What is hard.**
- *Ordering inside the recursion.* Whether an instance is complete is asked while outer
  frames still have flows to take.
- *Counters beside the things they count.* Tokens and activities are separate rows; a join
  counts arrivals in a variable. Each handler updates some of them.
- *Partial failure.* A condition that cannot be evaluated, a store error or a crash ends a
  request half-way. SQL stores roll back; `memstore` does not; `ReceiveSignal`,
  suspend, resume, terminate and claims run outside any transaction.
- *Long sequences of legal calls.* Signs, delegations, rejections and jumps each keep their own
  rows beside the task's token, and each cleans up some of the others' rows.
- *Read, change, write back.* Loop counters, versions of definitions, sign sessions and instance
  rows are read in one step and written in a later one.
- *Lists that change while they are read.* Page by page, or by a sweep that works off a list.
- *Concurrency.* The state of a task is checked before the lock is taken; `LockVersion`
  is what protects it; `memstore` returns its own objects. The in-process lock races
  goroutines against cancellation and expiry.

**What makes each part correct.**
- definitions and gateways: a join passes with all the tokens it waits for, once, and is
  never left full; XOR and OR gateways keep no token.
- navigator, tasks: one token per open task; a running instance has a token; an ended
  one has neither token nor task and stays ended; every instance can end.
- call activities: a caller holds one token for each child that is not done.
- events: whoever waits for a signal is subscribed, boundary events listen just while their
  task is open, recursion ends, nobody is lost to a crash.
- requests on a task: they take effect one after the other; a task is completed once.
- signs, rework, delegation: between requests each open task has a token and each token a task;
  the process is at one place; a delegated task comes back; the instance can still end.
- multi-instance: every completion is counted once, the process goes on once, with the last.
- timeouts: what is overdue is handled in the end.
- deployment: versions are counted, an instance keeps its definition, later starts never get
  older versions; a client that walks the pages of a list misses nothing that was there.
- locks: mutual exclusion, no unlock of an unlocked mutex, no lock without an owner, every
  caller gets the lock in the end.

## 2. The modules

```
WorkflowDefinition <- Store <- Navigator <- Engine <- MCEngine (TLC)
                                              ^------ EngineProofs <- EngineTokenProofs
Locker (abstract)  <= MemoryLocker      <- MemoryLockerProofs
Task   (abstract)  <= TaskConcurrency   <- TaskConcurrencyProofs
TaskOperations                          <- MCTaskOperations (TLC), TaskOperationsProofs
Countdown (abstract) <= MultiInstance   <- MCMultiInstance (TLC), MultiInstanceProofs
Deployment <- Listing                   <- MCListing (TLC)
    ^------ DeploymentProofs <- ListingProofs (with Listing)
Paging <- Listing, Worklist
```
(`<-` is EXTENDS, `<=` is "is implemented by", an INSTANCE with a refinement mapping.)

**WorkflowDefinition.** The definitions as constants, and what `Validate` and the decoder
guarantee as assumptions. A sequence flow is its position in `SequenceFlows`, so `<` is the
order in which the engine visits flows. `countEffectiveIncoming` is the join size of
`gateway.go:226`. A condition is a table from valuations of the variables to its outcome
(none, true, false, error).

**Store.** The tables the engine reads and writes, as one record of type `DB`, and an
operator per store call. Tokens and activities are counted per instance and element:
`tokens`, `active`, `unclaimed` (rows of one kind at one element are not told apart by the
code that is modelled). `arrived` is the join counter; other variables are one value.

**Navigator.** One action per handler. The Go call stack is the variable `stack`: an action
pops its frame, makes the handler's store calls and pushes the calls the handler makes, in
their order; loops over flows or subscriptions are frames that hold what is left. An error
return (`Fail`) clears the stack and restores the snapshot `saved`, if the store has
transactions. A handler that makes several store calls can also stop after any of them:
`HandlerCut` has, for each such handler, the tables it may leave behind, where a loop over
rows has come as far as any number of them. (`navigator.go:190` has made the token and not
yet the activity at 207, `event.go:52` the token of a catch event and not its subscription at
77, `navigator.go:302` has completed a child and `call_activity.go:91` not yet consumed the
caller's token.) User tasks with `LoopCharacteristics` are in MultiInstance.

**Engine.** One action per request. A request arrives when the stack is empty, that is,
requests are served one at a time; what races between requests is modelled in the other
modules. `RequestFails` is a store error, a cancelled context or a crash, between two
handlers or within one (`HandlerCut`, and `CompleteTaskCut` and `TerminateCut` for the writes of
these two requests). A request that runs in a transaction is undone; of any other, and of
all on `memstore`, stays what had been written. Claims, suspend and resume make a single write,
so they fail before it or not at all. An error of a store call that the code ignores
(`engine.go:183`) is not modelled apart: the call succeeds, or the request is cut.

**MCEngine.** Eleven small definitions as constants: the order process of
`docs`/`SPEC.md` with user tasks and a sub-process (`order`, `shipping`), an approval with
candidates, gateways and a loop (`expense`), flows whose targets are not allowed (`broken`),
signals (`alert`), and the definitions of the divergences below.

**Locker / MemoryLocker.** `Locker` is what the interface in `lock.go` promises for one key:
callers wait, hold and release, `TryLock` does not wait, a cancelled `Lock` gets nothing.
`MemoryLocker` is `memory.go` step by step: the goroutine that waits for the mutex, the
channel it reports on, the `select`, the clean-up goroutine, the map entry, and the TTL
timer. `L` maps a caller to "holding" from the return of `Lock` to the start of `Unlock`.
The critical sections under `ml.mu` that do not block are single steps. Time is abstract: a
timer may expire at any moment.

**Task / TaskConcurrency.** `Task` is one user task with candidates: claimed by one user,
given back by anybody, completed once. `TaskConcurrency` runs any number of
`ClaimTask`, `UnclaimTask` and `CompleteTask` requests on it, with the read, the state
check, the lock, the versioned update, the commit, errors and retries as separate steps.
`Shared` is `memstore` (requests work on the stored object; the Go data race on its fields is
abstracted to atomic updates), `~Shared` are the SQL stores (copies; an updated row is
invisible and locked until the commit).

**TaskOperations.** Sequential processes (user tasks joined by service tasks and exclusive
gateways) with what `add_sign.go`, `delegate.go`, `reject.go`, `jump_urge.go`, `reclaim.go` and
`timeout.go` do to them. `db` holds activities, tokens counted per element, sign sessions, the
rejection counter and the state of each instance. `CompleteTask` runs in a transaction and is one
step, with `handleSignCompletion` and `handleDelegateCompletion` in it. Every other request makes
its reads when it is taken up (`Serve`) and becomes the sequence of its store calls in `todo`;
`Write` makes one of them. A write carries the version the request has read and whether the request
looks at the error of a conflict (`strict`): `JumpTask` does, `RejectTask` does not. `Crash` drops
the rest. `CheckTimeouts` visits instance after instance, lists the overdue activities of each and
completes them until one fails. `usage` says which kinds of requests the clients of a behaviour
make, and whether they wait for each other. Of process variables only those the handlers branch on
are there; assignees are not. A rejection counts against `MaxRejection`, the limit of
`reject.go:54`.

**Countdown / MultiInstance.** `Countdown` is what a multi-instance task promises: entered with n
instances, every completion counts, the process goes on with the last. `MultiInstance` is
`multi_instance.go` with the part of `navigateFrom` that calls it, in the process
start -> loop -> next, where *next* ends the process or goes back to the loop and another branch may
run beside. A completion reads its activity; then, under the lock, completes it, consumes tokens and
reads the counters; then writes them, starts the next instance or goes on. `setup` fixes the
definition (sequential or parallel, completion condition, branch) and the deployment (Locker or
none, whether the store lists activities in order of creation). The refinement maps *left* to
nrOfInstances - nrOfCompletedInstances of the latest loop.

**Deployment.** `DeployProcessDefinition` is two steps (look up the latest version, create the next),
and `Delete` one. A start by key is five, because deployments and deletions come between any two of
them: `StartProcessInstanceByKey` looks up the ID; `StartProcessInstance` reads the definition, outside
any transaction (`engine.go:72`); `CreateProcessInstance` gives the instance its time and creates it
(`engine.go:87`), visible at once in `memstore` and at the commit in SQL stores; `NavigateFromStart` reads
the definition once more (`navigator.go:47`), and if it is gone the request fails, which undoes the
creation in SQL stores only; `CommitStart` commits, whatever has been deleted since. The store deletes
what it is told to; the setup says what its clients tell it: nothing, definitions that have a successor
and no instances ("unused"), those of them of which no start is under way either ("idle"), or any.
A definition's ID is <<key, n>>, and its content is the struct that was deployed; `memstore`
keeps the struct, so deploying one again changes the row that is stored. The starting request
remembers how many instances there were, to state `StartsNeverFallBack`; the code does not.

**Paging, Listing, Worklist.** `Paging` are the pure functions of `PageRequest` and `NewPage`.
`Listing` composes `Deployment` with a client that walks the pages of the definitions or the
instances of a key: SQL stores count with one statement and read with another, in a defined order;
`memstore` does both under its lock, in the order of a Go map. Definitions are ordered by version and
instances by their start time, newest first; instances may commit in another order than they
started in, so a row can appear behind others. Start times differ. Lists without a filter by key
have ties (versions of different keys) and are not modelled. `Worklist` is
`ListMyPendingActivities` while nothing changes.

## 3. The runs

`tlc -config X.cfg M`. All runs say `CHECK_DEADLOCK FALSE`: the bounded number of instances is
used up in the end, and a definition may leave nothing to do; that systems do not stop too
early is stated by the liveness properties instead.

| run | what it checks | bounds |
|---|---|---|
| `order` | tokens, tasks, join counters and children agree (`TasksHoldTokens`, `RunningHasToken`, `JoinCountsTokens`, `JoinNeverFull`, `JoinWaitsForAll`, `CallersAwaitChildren`), and every instance ends (`InstancesEnd`) | two orders and their two children, two requests that fail, between handlers or within one |
| `expense` | no token is left at an XOR or OR gateway of an instance that is not completed (`NoTokenStranded`; what a fork puts into an instance its first branch has completed is a matter of `EndedIsDrained`) | two instances, one request that fails, five valuations, so that each branch, default and failing condition is taken |
| `control` | ended instances are empty and stay ended under suspend, resume, terminate | two orders with children, no transactions, two requests that fail anywhere |
| `alert` | waiters are subscribed, boundary events armed, lost tokens recoverable, requests return | two instances, so that a signal wakes several; two requests that fail, signals outside any transaction at any of their writes; four subscription IDs |
| `lock` | mutual exclusion and refinement of `Locker` under cancellation | three callers: a holder, a waiter and one that cancels |
| `lock_live` | the lock is always owned, no bad unlock, everybody gets it, with TTLs | two callers, repeated for ever |
| `approval` | open tasks have tokens and tokens tasks, the process is at one place (`OnePlaceAtATime`), delegated tasks come back, overdue tasks are handled, instances end | one instance, two workers, two requests besides completions, two signers, one crash; four kinds of usage: signs in turn, rework in turn, jumps that race, reassignments that race and crash |
| `loop` | loops pass once and with nothing open, sequential instances one after the other, counters agree, refinement of `Countdown`, all loops pass | two workers; 0 to 3 instances; a loop entered twice |
| `deploy` | versions are counted, instances keep their definition, starts never fall back; a walk has no gaps and misses nothing | two keys, two deployers, two starters, three deployments, two instances when a start begins; both kinds of store; idle definitions deleted; lists walked where nothing is deleted (`Listed`), in pages of one or two rows; `DefaultSize` is 2 instead of 20 so that a list can be longer |
| `task` | the token moves on once, completions navigate one at a time, refinement of `Task` | two claims, one unclaim, two completions, retried for ever |

Why the bounds are enough: the properties relate an instance to its caller, children and to one
other instance that a signal reaches, so two root instances and their children show each
interaction; counters (tokens, arrivals) are bounded by the definitions. With fewer
subscription IDs than subscriptions that may exist, a request could not go on:
`RequestReturns` fails then, so the bound is known to be large enough.

In `approval` two requests are enough for each to meet the leftovers of another; with three
requests (490,000 states) the invariants hold as well. In `loop` two completions race, and a third
instance makes the difference between "the last" and "the second". In `deploy` a third deployment
is what the loser of a race may be followed by, and what is left for the other key when a definition
that one start has in hand has been superseded.

`expense` is kept apart from suspending and terminating: `TerminateProcessInstance` leaves
unclaimed tasks open and `ClaimTask` does not look at the instance, so a task of a terminated
instance can still be claimed.

**Fairness.** `FairSpec` of Engine: a request that is being served runs on
(`WF_vars(Navigate)`), which a goroutine does. `AttendedSpec` adds that no open task is left
for ever by people; `InstancesEnd` is conditional on it. Requests that fail need no bound in
the code but have one here, `MaxFaults`. `FairSpec` of MemoryLocker: goroutines run; strong
fairness of the goroutine that waits for the mutex, because `sync.Mutex` hands itself to a
waiter that has starved for 1 ms; and callers without a TTL call `Unlock`. TaskOperations and
MultiInstance: goroutines that serve requests run on (`WF` of `Write` and `Serving`), and
`CheckTimeouts` is called again and again, which its comment asks of the host (`timeout.go:13`).
`InstancesEnd` and `LoopsPass` are conditional on people completing tasks (`WF_vars(Completing)`):
somebody goes on completing some task, not every single one.

**Divergences.** Each of these two runs checks one property that the repository states and the code
does not keep:

| run | statement | what happens |
|---|---|---|
| `early` | "When all tokens reach end events, the process instance completes" (`spec/elements.go:15`) | the first branch of a fork that ends completes the instance while the second has no token yet; its task is then created in a completed instance |
| `loop_early` | completionCondition is an "expression for early termination" (`spec/SPEC.md:231`) | the tasks left when the condition holds stay open (`multi_instance.go:184`); completing one makes the process go on once more |

More configurations of the same kind, to be run by hand with the module in front; each ends with
a violation. Where a property is named that the configuration does not list, it is put in its place:

| configuration | property | what happens |
|---|---|---|
| MCEngine `MCFulfil` | `JoinWaitsForAll` | "waits for ALL incoming tokens" (`spec/SPEC.md:129`): an incoming flow from a service task is not counted |
| `MCMemory` | `NoTokenStranded` | "no partial writes" (`mem_store.go:402`): `memstore` keeps what a failing request has written |
| `MCWait` | `WaitersSubscribed` | completing a task deletes all subscriptions of the instance (`engine.go:195`), also of a catch event in another branch |
| `MCMerge` | `EndedIsDrained` | with two tokens at one task a completion consumes both (`engine.go:181`, then `handleOutgoingFlows`) |
| `MCNested` | `JoinWaitsForAll` | a child that inherits variables inherits its caller's join counter (`call_activity.go:27`) |
| `MCPool` | `TasksHoldTokens` | an interrupting boundary event leaves an unclaimed task open (`event.go:173`) |
| `MCOrder`, `Transactional = FALSE` | `TasksHoldTokens`, `CallersAwaitChildren`, `JoinNeverFull` | a request that is cut off within a handler and not undone: a token without its task (`navigator.go:190`, 207), a child that is done and still waited for (`navigator.go:302`, `call_activity.go:91`), a join counted and not passed (`gateway.go:93`, 115) |
| `MCAlert`, `Transactional = FALSE` | `WaitersSubscribed` | a catch event has its token and not its subscription (`event.go:52`, 77) |
| `MCAlert`, `Requests` with `"terminate"` | `RunningCanGoOn` | a termination is cut off when the tokens are gone (`engine.go:323`); until it is repeated the instance runs without any |
| MemoryLocker `MCLockCancel` | `LockIsOwned` | "If we grabbed the lock after context cancellation, release it" (`memory.go:56`): the clean-up looks once; a mutex acquired later is never unlocked |
| `MCLockExpired` | `MutualExclusion` | the timer of an expired lock releases the lock of the next holder (`memory.go:98`) |
| TaskConcurrency `MCTaskTwice` | `CompletedOnce` | `memstore` compares an object's version with itself; two completions both succeed |
| MCTaskOperations `MCJumpSigns` | `NoTokenLeftBehind` | `JumpTask` completes the signers' tasks and leaves their tokens |
| `MCRejectSigns` | `OnePlaceAtATime` | `RejectTask` leaves the signers of the rejected task open |
| `MCJumpSigns`, `Usages <- RemovedSigns` | `NoTokenLeftBehind` | two of three signers have signed, the third is removed: nobody closes the session |
| `MCJumpSigns`, `Usages <- OverlappingSigns` | `NoTokenLeftBehind` | two sessions on one task: completions are counted for either (`add_sign.go:71`), and tokens of signers remain |
| `MCJumpSigns`, `Usages <- AnySign` | `NoTokenLeftBehind` | all signers of an OR session complete without approving: the session never ends and their tokens remain |
| `MCDelegateSigns` | `DelegateReturns` | signers of a delegated task: it is passed on and not returned |
| `MCRejectSigns`, `Usages <- ConcurrentRejects` | `OnePlaceAtATime` | two rejections race, the loser goes on all the same (`reject.go:101`) |
| `MCRejectSigns`, `Usages <- ConcurrentSigns` | `OnePlaceAtATime` | `AddSign` races the completion of the task |
| `MCRejectCrash` | `RunningHasOpenTask` | a rejection is cut off after the old task and before the new one |
| `MCStarved` | `OverdueHandled` | a task whose completion always fails ends each sweep (`timeout.go:43`) |
| MCMultiInstance `MCLoopUnlocked` | `LoopsPass` | without a Locker two completions read the same counters; one is lost |
| `MCLoopUnlocked`, `Setups <- UnorderedSetups` | `LoopsPass` | a loop entered again: the last completed activity of the list may be one of the first round (`navigator.go:90`) |
| `MCLoopBranch` | `EndsWithNothingOpen` | each completion of a parallel loop consumes two tokens (`engine.go:181`, `navigator.go:76`), and another branch ends the instance while tasks of the loop are open |
| MCListing `MCDeploy`, `PageSizes = {0}` | `WalkMissesNothing` | a page size of 0 means 20 rows (`workflow_interface.go:21`) but an offset of 0: every page is the first |
| `MCDeploy`, `Setups <- SQLSetups` | `WalkIsComplete` | rows inserted between the count and the page make the last page look like the end |
| `MCDeploy`, `Setups <- MemorySetups` | `WalkIsComplete` | `memstore` returns each page in another order |
| `MCDeploy`, `Setups <- UnusedSetups` | `InstancesKeepDefinition` | a definition that a start has read is superseded and deleted as unused; the instance is created all the same (`engine.go:72`, 87) |
| `MCDeploy`, `Setups <- DeleteSetups` | `InstancesKeepDefinition` | a definition with running instances is deleted |
| `MCDeploy`, `Setups <- AgainSetups` | `VersionsCount` | `memstore` shares the caller's struct: deploying it again rewrites the stored version |
| Worklist `MCWorklist` | `WorklistIsExact` | the offset is applied twice and unclaimed tasks are appended to every page (`query_impl.go:109`) |

The passing runs use definitions and settings without these constellations; what they
show holds under that restriction: in `order`, both branches of the fork wait at tasks
before the join, tasks have one incoming flow, and the child has no gateway of its caller's
name; in `order` and `alert` there are transactions, in `alert` no terminations, and no signal from
outside leads to another catch event; nobody waits there in a parallel branch and the task has no
candidates; the lock
is used either without cancellation or without TTL (`UnlockIsSafe` is proved with both); in
`approval`, signs are not mixed with rework or delegation, one AND session with at most two signers
is open at a time, signs and rejections come in turn, and jumps, delegations, transfers and timeouts
race; in `loop`, there is a Locker and no completion condition, a parallel loop has no branch beside
it and is entered again only on a store that keeps the order of its rows; in `deploy`, only idle
definitions are deleted, a struct is deployed again only to an SQL store, and the properties of the
walk are those of SQL stores.

## 4. The proofs

`tlapm M.tla`. The proofs hold for every definition, every number of instances, callers and
requests.

**EngineProofs.** `TypeCorrect`: the tables stay well-typed, counts never go below zero, and
every frame names existing instances, elements and flows. It is inductive as it stands; the
proof has a lemma per store call, per handler and per handler that is cut off. The lemmas about
`Bounded` (no counter is above what its join waits for) prepare `JoinsNeverFull`: each step that is
not a cut keeps it, since a child starts with the counters of its caller or with none.

**EngineTokenProofs.** What happens to tokens and instances in any set of definitions, any nesting of
call activities and throw events, when requests fail between handlers or within them. The first part reduces the eighteen actions of the navigator to
twelve *effects* on the tables and on the stack (`Passes`: navigateFrom leaves an element; `Rests`:
takeSequenceFlow puts a token where it waits; `Ends`: checkComplete completes an instance; and so on)
and the requests to six; `NextEffect` says that every step has one of them, or is a cut. All that is
said of a cut's tables is that they are `Torn`: well-typed, with callers in place and no instance's state
taken back. That is enough for the first row below, so `TypeCorrect`, `StackCorrect` and `EndedStaysEnded`
hold for every cut in every store; the other rows are about tables a cut does tear apart, and hold
because the snapshot comes back. The invariants are then proved effect by effect, each from those before it:

| invariant | says | why it is needed | theorem |
|---|---|---|---|
| `StackInv` | pending `takeSequenceFlow` and `checkComplete` calls belong to instances that are running or completed; `navigateFrom` is on top of the stack or not on it; a call that reaches a gateway has put a token there; subscriptions are for event elements, callers are call activities; ends in the snapshot are ends in the tables | without the first, `checkComplete` could complete a terminated instance | `StackCorrect`, `EndedStaysEnded` |
| `OpenInv` | every call but the last, the commit, runs inside an open transaction | a failing request restores the snapshot only while there is one | `RequestsAreUndone` |
| `JoinInv` | a join that has all its arrivals has passed; in the snapshot too | the snapshot may come back | `JoinsNeverFull` |
| `AgreeInv` | counter and tokens of a join agree, up to the token that just arrived; in the snapshot without exception | the snapshot may come back | `JoinsCount`, `JoinsWait` |
| `PassedInv` | at an XOR or OR gateway there is no token but the arriving one; in the snapshot none | a stopped navigateFrom keeps its token, but then the instance is completed (`StackInv`) | `GatewaysPassed` |
| `MovingInv` | a running instance has a token, or a call on the stack that will leave one or complete the instance | in the middle of a request tokens are consumed before new ones are made | `RunningInstancesHaveTokens` |
| `LeftInv` | when navigateFrom runs for a user task or a call activity, no token is left there | `handleOutgoingFlows` consumes one token more, which `CompleteTask` or `checkComplete` has consumed already (`engine.go:181`) | |
| `TaskInv` | in the tables and in the snapshot, user tasks of instances that were not terminated have as many tokens as active and unclaimed tasks, and unclaimed ones only where there are candidates | the snapshot may come back; `handleOutgoingFlows` must find no token (`LeftInv`) | `TasksKeepTokens` |
| `CheckInv` | `checkComplete` is called last by its handler, for a running instance, and runs at once | a check that ran late could find its instance completed and consume the token of another child | |
| `CallerInv` | a call activity has one token per child that has not completed; in the snapshot too | `checkComplete` takes the token in the same step in which the child completes (`CheckInv`) | `CallersKeepChildren` |
| `WaitInv` | nothing is suspended; who waits has a subscription, or a signal on the stack is about to take its token; pending deletions of subscriptions concern nobody who waits | `fireSignal` navigates before it deletes, so an instance may be back at the event when the old subscription goes | `WaitersStaySubscribed` |
| `DryInv` | an instance that has ended has no token | `checkComplete` sees to that when it completes one; later calls must not put one in | |
| `ShutInv` | only user tasks are ever unclaimed; a call activity is open only while it has a token; a terminated instance has nothing active | tells which activities can be open when the tokens are gone (`DryInv`, `TaskInv`) | `EndedInstancesStayDrained` |

Their assumptions, each with the reason it cannot be dropped:
- `EndedStaysEnded` and `StackCorrect`: none. They hold with and without transactions and for failures
  between and within handlers.
- `Recoverable` (a store with transactions, no signals from outside, and no terminations if requests may
  fail; `GatewaysPassed`, `RunningInstancesHaveTokens`, `RequestsAreUndone`): `memstore` keeps what a failing
  request has written (`MCMemory`), `ReceiveSignal` navigates outside any transaction, and a termination
  consumes tokens outside one.
- `Undisturbed` (`JoinsNeverFull`, `JoinsCount`, `JoinsWait`, `TasksKeepTokens`, `CallersKeepChildren`,
  `WaitersStaySubscribed`, `EndedInstancesStayDrained`): `Recoverable`, or no request fails for a reason that is
  not in the tables. A condition that cannot be evaluated may still stop a handler, in any store, and so may
  a target of the wrong type; what they leave does no harm to these properties. A cut within a handler that is not undone
  does: `MCOrder` and `MCAlert` with `Transactional = FALSE` show a token without its task, a caller without
  its child, a full join and a waiter without a subscription, and a catch that a signal from outside
  leads to can be cut in the same way in any store.
- `[]NothingInherited` (joins): a call activity that inherits variables is reached while no join of
  its caller waits. Otherwise the child starts with its caller's counters (`MCNested`). It holds
  where nothing inherits, and in `order`, whose call activity is behind the join.
- no flow from a service task into an AND gateway (`JoinsWait`): such flows are not counted (`MCFulfil`).
- no suspension (`RunningInstancesHaveTokens`): completing a task of a suspended instance consumes its
  token, and resuming does not bring it back (`engine.go:122`).
- `[]NothingShared` (`TasksKeepTokens`, `CallersKeepChildren`, `EndedInstancesStayDrained`): no user task
  or call activity holds two tokens. With two, a completion consumes both (`MCMerge`). TLC finds that it
  holds in `order`, `control`, `expense`, and in `alert` without failing requests; a signal that is delivered
  again after a crash brings a second token, and so does a join that passes early (`MCFulfil`).
- `NoPoolInterrupted` (`TasksKeepTokens`, `EndedInstancesStayDrained`): an interrupting boundary event
  leaves an unclaimed task open (`MCPool`).
- `ThrowsGoOn` (`CallersKeepChildren`): a throw event without outgoing flow would check for completion
  after the signals it has sent have navigated, when its instance may already be completed.
- `[]EventsWaitAlone` and no suspension (`WaitersStaySubscribed`): completing a task deletes the
  subscriptions of other branches (`MCWait`); a signal to a suspended instance stops in `navigateFrom`,
  and its subscription is deleted all the same.
- `[]NothingLate` (`EndedInstancesStayDrained`): flows are taken in running instances only; a branch of a
  fork that ends early completes the instance before the others have their tokens (`MCEarly`).
- not both terminating and claiming (`EndedInstancesStayDrained`): a task of a terminated instance stays
  unclaimed and can be claimed (`ClaimTask` does not look at the instance).

TLC has checked each of the hypotheses about behaviours on the configurations of `MCEngine`: they hold
in the passing ones except where stated above, and each of `MCMerge`, `MCPool`, `MCWait` and `MCEarly`
violates the one it is named with and no other.

**MemoryLockerProofs.** A claim to the locked mutex travels from hand to hand: a goroutine
that has acquired it, its message in the channel, a caller that has received it, the entry in
`holders`, and the first `Unlock` (a caller's or a timer's) that finds the entry. `LockInv` says
that there is at most one claim on its way, that none is while the entry is in the map, and that
the mutex is locked as long as there is one. From it follow `UnlocksAreSafe` (no `mu.Unlock()`
of an unlocked mutex, with or without TTLs and cancellations) and, without TTLs, where `HeldInv`
adds that no timer exists, that a holder's entry is in the map and that there is one holder at
most, `MutuallyExclusive` and `MemoryLockerImplementsLocker`, the refinement, action by action.

`LocksAreOwned` needs the converse, that a locked mutex has a claim, and holds without cancellation
(`MCLockCancel` shows the leak with it), with or without TTLs. Its `OwnedInv` says that a locked
mutex has a claim on its way or an entry in the map whose caller still holds the lock
(`LockIsClaimed`), and that a caller in `Lock` waits for the goroutine it has started, so that no
message is left that nobody reads (`LockAwaitsGoroutine`).

**TaskConcurrencyProofs.** `VersionInv`: a request that still sees the current version still
sees the state it found, at most one request is between its update and its commit, and the
number of navigations is one if the task is completed and zero otherwise. From it follow
`CompletedOnlyOnce` and `TaskImplemented` for the SQL stores. `LockSerializesNavigation`
holds for both kinds of store: whoever is past the lock is its owner.

**DeploymentProofs.** For any keys, deployers and starters. `StructsOnce` assumes that the store
copies what it is given or that nobody deploys a struct twice. `VersionInv` adds to `VersionsCount` that
structs in the store and in hand are ones that were deployed (`ContentsCounted`) and that a
deployment in progress holds a version whose predecessor is stored, as long as nothing is
deleted (`NextInLine`); then `VersionsCounted` follows. `DefinitionsKept` assumes `KeepsIdle`: only
definitions are deleted of which there is no instance and no start under way. That there is no instance
would not be enough (`UnusedSetups`), since a start reads the definition long before its instance can be seen.
`KeptInv` adds to `InstancesKeepDefinition` that what a start has read is still stored
(`StartsHoldDefinition`); a deployment disturbs neither because the primary key refuses a second row.
`StartsForward` needs only `KeepsUsed`, that no definition is deleted that instances use or that is the
latest. `StartInv` says that a request which has looked a version up has found one no older than those
of the instances it remembers (`LooksForward`), and that the latest version of a key is no older than
those of its instances (`KeepsUp`), since the latest is never deleted.

**MultiInstanceProofs.** For any number of workers, instances and rounds. `TypeCorrect` holds in every
setup. The others assume `Careful`: a Locker, no completion condition, a store that keeps the order of
activities if the loop may be entered again, and no branch beside a parallel loop; dropping any of
these is one of the violations of section 3. `LoopInv` relates four things that one completion changes
in two steps: the counters agree with the number of activities created and completed, where one that
is completed but not counted belongs to the owner of the lock (`Counters`); what that owner has read is
what is still stored (`Exclusive`); only the last loop has instances left (`EarlierDone`), and its
activities are last in the list (`Listed`), so that the last completed one is of this loop; and the
process is in the loop, behind it or at the end (`Placed`). From it follow `LoopsPassOnce`,
`InstancesInTurn`, `CountersCorrect`, `EndsClean` and, action by action, `LoopImplementsCountdown`.

**ListingProofs.** A walk over an SQL store, while definitions and instances are being added and none is
deleted. A page is a stretch of a sorted list, and a client that asks for the next one skips what it has
read. Instances that have started later and committed earlier than others must not upset that order:
`RowsInv` says that definitions have different versions and that the start times of instances, those of
open transactions included, differ (`TimesApart`). `WalkInv` says that of the rows there were when the
walk began, all that are listed before the page the client comes to next have been returned
(`FrontReturned`); wherever a row is added, it can only push others back, so the next page may overlap
and leaves no gap. Sorting never enters: the module says
which sequences a statement may return, not how they are made. `WalksHaveNoGaps` holds for any page sizes;
`WalksMissNothing` for sizes of at least one (`MCDeploy` with a size of 0 shows the other).

**TaskOperationsProofs.** What open tasks, tokens and instances have to do with each other while requests
that consist of many writes interleave, for any sequential process and any number of instances, workers
and requests. The inductive invariant `Inv` does not follow a list of writes through a fold. It says in
which *phase* a request is, seen from the writes it has left (`Shapes`): it does no harm; or it is `Armed`,
about to complete the task it has read; or it is `Away` with the token of one instance, between completing
the old task and making the new one. `Placed` says where the token is in each phase, and that no two
requests are away with the same instance; `Attended` that an instance with which nobody is away has one
task with one token or is over. An armed request that finds another version gives up (`strict`), or comes in
turn. Each write moves a request from one phase to the next. From it follow `OpenTasksKeepTokens`,
`TokensHaveTasks`, `InstancesAtOnePlace`, `RunningInstancesGoOn` and `DelegatedTasksReturn`. They assume:
- `NoSigns`, nobody adds signers: sessions leave tokens and tasks behind in the ways of `MCJumpSigns`,
  `MCRejectSigns` and `MCDelegateSigns`. (With at most two signers, in turn, the `approval` run checks them.)
- `Orderly`: a request that moves a token is not cut off (`MCRejectCrash`), and rejections and reclaims,
  which go on although the task has changed, come in turn (`MCRejectSigns` with `ConcurrentRejects`). Jumps,
  delegations, transfers, deadlines, sweeps and completions race freely.
- `TargetsWait`: clients jump to tasks and end events, since at any other element `JumpTask` leaves a
  token that nothing moves (`jump_urge.go:94`); end events have no condition that could fail.

Assumptions used: those named `...Assumption` in the modules (types of the constants,
distinctness of the null values, sets of flows and elements finite), which TLC evaluates in
every run.

**Only model-checked:**
- liveness (`InstancesEnd`, `RequestReturns`, `LockAcquired`, `OverdueHandled`, `LoopsPass`), which is
  beyond the prover;
- `BoundariesArmed`: who listens for a task depends on which other tasks are completed (a completion deletes
  every subscription of the instance), interrupted or left unclaimed, and on signals that are still on the
  stack; it holds for definitions in which no task with a boundary event has another one beside it;
- `RunningCanGoOn`: a signal outside a transaction that dies while it is in a called instance; the
  invariant would have to follow the chain of callers, which is an induction over the stack;
- the invariants of TaskOperations with signers: how many signatures a session still waits for is a
  cardinality over rows of two tables, which `RemoveSign` and `AddSign` change write by write; beyond
  two signers, or mixed with rework, they do not hold.

## 5. Not modelled

- Timers and messages: rows are written for timers and nothing fires them; nothing subscribes
  to or delivers messages. An element that waits for one is an element that waits.
- `UrgeTask` and `CcTask` write process variables that no code reads.
- Requests that race on instance rows (suspend, resume and terminate write back a copy without
  lock or version), and requests that race across instances: planned.
- Signs, rework and timeouts in processes with parallel branches: TaskOperations is sequential.
- The remaining filters of the queries (tenants, business keys, initiator, times) and the
  history: the stores differ in which filters they apply, which no property is about yet.
- Lists without a filter by key: they have ties, and rows are inserted in the middle.
- SQL text, connections, schemas, JSON, forms, templates, times, expression syntax, identity data,
  listeners: I/O or data no property depends on. The SQL stores are modelled as one. They differ
  in more than their dialect: the schema of `mysqlstore` has no `lock_version` column, which its
  statements use, and the activity inserts of `mysqlstore` and `pgstore` name the columns in one order
  and bind the values in another.
- `resolveCandidates` is the constant `CandidateTasks`: whether a task starts unclaimed.

## 6. Plan

Built so far, in this order: definitions, store, navigator, requests with their proofs; lock;
concurrent requests on one task; signs, delegation, rework and timeouts; multi-instance tasks;
deployment with its proofs, and lists; the proofs about tokens and about loops, about walks through
lists, and about requests on tasks.

Next modules:
1. *InstanceRows*: lost updates between suspend, resume, terminate and completion;
   requests that reach other instances whose locks they do not hold.
2. The filters of the queries, store by store, against one reference definition.

Next theorems: those of TaskOperations with signers in turn.
