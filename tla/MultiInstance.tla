---------------------------- MODULE MultiInstance ----------------------------
(***************************************************************************)
(* A user task with LoopCharacteristics: one activity for each item, all at  *)
(* once or one after the other.  How far a loop is, is kept in process       *)
(* variables that every completion reads, changes and writes back.          *)
(*                                                                          *)
(* The process is start -> loop -> next, from where it ends or goes back to  *)
(* the loop; another branch may run beside it.  A completion is three steps: *)
(* it reads the activity, then (under the instance's lock, if there is a     *)
(* Locker) completes it and reads the variables, then writes them and        *)
(* navigates.  The store rejects a write of a stale activity, as the SQL     *)
(* stores do.  Items and element variables are left out.                     *)
(***************************************************************************)
EXTENDS Integers, Sequences, FiniteSets

CONSTANTS
    Workers,       \* the goroutines that serve CompleteTask requests
    NoWorker,
    Counts,        \* the values resolveLoopCount may give
    Setups         \* definition and deployment: isSequential; threshold of a
                   \* completionCondition nrOfCompletedInstances >= threshold, 0
                   \* for none; whether there is a Locker; whether the store lists
                   \* activities in the order of creation; whether a branch runs
                   \* beside the loop; bound on how often the loop is entered

ASSUME LoopAssumption ==
    /\ NoWorker \notin Workers
    /\ Counts \subseteq Nat
    /\ Setups \subseteq [isSequential : BOOLEAN, threshold : Nat, locking : BOOLEAN,
                         ordered : BOOLEAN, branch : {0, 1}, entries : Nat]

VARIABLES
    setup,         \* the setup that runs
    acts,          \* the activities of the task: loop, LoopCounter, state
    tokens,        \* the tokens at the task
    loops,         \* the variables of each loop, in the order of entry, and how
                   \* often the process went on from it
    nexts,         \* the open tasks behind the loop, each with its token
    branch,        \* tokens of the other branch
    state,         \* the state of the process instance
    pc, task, seen,\* worker -> how far it is, its activity, the variables it has read
    lock           \* the worker that holds the lock of the instance

vars == <<setup, acts, tokens, loops, nexts, branch, state, pc, task, seen, lock>>
requestVars == <<pc, task, seen, lock>>

NewLoop(count) == [total |-> count, active |-> count, completed |-> 0, index |-> 0, passes |-> 0]
NewAct(loop, counter) == [loop |-> loop, counter |-> counter, state |-> "active"]
Active(a) == acts[a].state = "active"
LoopActs(l) == {a \in DOMAIN acts : acts[a].loop = l}

\* The variables of a loop, as a request reads them.
Variables(l) == [loop |-> l, read |-> loops[l]]

\* Whether a request can be served: the lock, if there is one, is free.
Free == setup.locking => lock = NoWorker

Init ==
    /\ setup \in Setups
    /\ acts = <<>> /\ loops = <<>>
    /\ tokens = 0 /\ nexts = 0 /\ branch = 0
    /\ state = "new"
    /\ pc = [w \in Workers |-> "idle"]
    /\ task = [w \in Workers |-> 0]
    /\ seen = [w \in Workers |-> [loop |-> 0, read |-> NewLoop(0)]]
    /\ lock = NoWorker

-----------------------------------------------------------------------------
(* Entering the task *)

startParallelInstances(loop, count) ==
    /\ tokens' = tokens + count
    /\ acts' = acts \o [k \in 1..count |-> NewAct(loop, k - 1)]

startSequentialInstance(loop, index) ==
    /\ tokens' = tokens + 1
    /\ acts' = Append(acts, NewAct(loop, index))

\* Mutant: an empty loop gets an activity all the same.
handleMultiInstanceTask_NoSkip(count) ==
    /\ loops' = Append(loops, NewLoop(count))
    /\ IF setup.isSequential THEN startSequentialInstance(Len(loops) + 1, 0)
       ELSE startParallelInstances(Len(loops) + 1, count)

\* Mutant: a sequential loop starts all its instances at once.
handleMultiInstanceTask_AllAtOnce(count) ==
    IF count = 0
    THEN /\ loops' = Append(loops, [NewLoop(0) EXCEPT !.passes = 1])
         /\ UNCHANGED <<acts, tokens>>
    ELSE /\ loops' = Append(loops, NewLoop(count))
         /\ startParallelInstances(Len(loops) + 1, count)

\* An empty loop is skipped.  The tasks opened behind the loop are left to
\* the caller: passes says how many.
handleMultiInstanceTask(count) ==
    IF count = 0
    THEN /\ loops' = Append(loops, [NewLoop(0) EXCEPT !.passes = 1])
         /\ UNCHANGED <<acts, tokens>>
    ELSE /\ loops' = Append(loops, NewLoop(count))
         /\ IF setup.isSequential THEN startSequentialInstance(Len(loops) + 1, 0)
            ELSE startParallelInstances(Len(loops) + 1, count)

\* A token arrives at the loop while the given number of other tasks behind
\* it is open.
EnterLoop(others) ==
    \E count \in Counts :
        /\ handleMultiInstanceTask(count)
        /\ nexts' = others + (IF count = 0 THEN 1 ELSE 0)

StartProcessInstance ==
    /\ state = "new"
    /\ state' = "running"
    /\ branch' = setup.branch
    /\ EnterLoop(0)
    /\ UNCHANGED <<setup, requestVars>>

-----------------------------------------------------------------------------
(* CompleteTask for an activity of the loop *)

\* GetActivityInstance and the checks on it, before the lock is taken.
GetActivityInstance(w, a) ==
    /\ pc[w] = "idle"
    /\ Active(a)
    /\ pc' = [pc EXCEPT ![w] = "complete"]
    /\ task' = [task EXCEPT ![w] = a]
    /\ UNCHANGED <<setup, acts, tokens, loops, nexts, branch, state, seen, lock>>

\* completedMI is the last completed one of the list of activities, not the
\* activity whose completion is being served.
CompletedMI(now) ==
    LET completed == {a \in DOMAIN now : now[a].state = "completed"}
    IN  IF setup.ordered THEN {a \in completed : \A b \in completed : b <= a} ELSE completed

\* A stale activity makes the request fail: the transaction is rolled back.
Conflict(w) ==
    /\ pc[w] = "complete" /\ Free
    /\ ~Active(task[w])
    /\ pc' = [pc EXCEPT ![w] = "idle"]
    /\ UNCHANGED <<setup, acts, tokens, loops, nexts, branch, state, task, seen, lock>>

\* Mutant: the variables are read before the lock is taken.
CompleteTask_ReadsEarly(w) ==
    LET now == [acts EXCEPT ![task[w]].state = "completed"]
    IN  /\ pc[w] = "complete"
        /\ Active(task[w])
        /\ acts' = now
        /\ tokens' = IF tokens >= 2 THEN tokens - 2 ELSE 0
        /\ \E a \in CompletedMI(now) :
              seen' = [seen EXCEPT ![w] = Variables(acts[a].loop)]
        /\ pc' = [pc EXCEPT ![w] = "advance"]
        /\ UNCHANGED <<setup, loops, nexts, branch, state, task, lock>>

\* CompleteTask consumes a token at the task, and navigateFrom, if the
\* instance is running, another.
CompleteTask(w) ==
    LET now == [acts EXCEPT ![task[w]].state = "completed"]
        left(n) == IF tokens >= n THEN tokens - n ELSE 0
    IN  /\ pc[w] = "complete" /\ Free
        /\ Active(task[w])
        /\ acts' = now
        /\ IF state # "running"
           THEN /\ tokens' = left(1)
                /\ pc' = [pc EXCEPT ![w] = "idle"]
                /\ UNCHANGED <<seen, lock>>
           ELSE /\ tokens' = left(2)
                /\ \E a \in CompletedMI(now) :
                      seen' = [seen EXCEPT ![w] = Variables(acts[a].loop)]
                /\ pc' = [pc EXCEPT ![w] = "advance"]
                /\ lock' = w
        /\ UNCHANGED <<setup, loops, nexts, branch, state, task>>

\* Mutant: the loop goes on one instance too early.
LoopDone_Early(s) == s.active - 1 <= 1 \/ s.completed + 1 >= s.total

\* Whether the loop is complete once one more instance is.
LoopDone(s) == s.active - 1 <= 0 \/ s.completed + 1 >= s.total

StartsNext(s) == setup.isSequential /\ s.index + 1 < s.total

\* The counters are written, the next instance is started or, if the loop is
\* done, every token left at the task is consumed and the process goes on.
advanceMultiInstance(w) ==
    LET l    == seen[w].loop
        s    == seen[w].read
        met  == setup.threshold > 0 /\ s.completed + 1 >= setup.threshold
        more == ~met /\ StartsNext(s)
        done == met \/ (~more /\ LoopDone(s))
    IN  /\ pc[w] = "advance"
        /\ loops' = [loops EXCEPT ![l] =
              [total     |-> @.total,
               active    |-> IF met THEN 0 ELSE s.active - 1,
               completed |-> s.completed + 1,
               index     |-> IF more THEN s.index + 1 ELSE @.index,
               passes    |-> IF done THEN @.passes + 1 ELSE @.passes]]
        /\ IF more
           THEN startSequentialInstance(l, s.index + 1)
           ELSE /\ tokens' = IF done THEN 0 ELSE tokens
                /\ UNCHANGED acts
        /\ nexts' = IF done THEN nexts + 1 ELSE nexts
        /\ pc' = [pc EXCEPT ![w] = "idle"]
        /\ lock' = NoWorker
        /\ UNCHANGED <<setup, branch, state, task, seen>>

-----------------------------------------------------------------------------
(* The rest of the process *)

\* handleEndEvent, with the tasks behind the loop and the tokens of the
\* branch as they are by then.
checkComplete(nextsNow, branchNow) ==
    state' = IF tokens + nextsNow + branchNow = 0 THEN "completed" ELSE state

\* The task behind the loop is completed: the process ends, or goes back.
CompleteNext ==
    /\ nexts > 0 /\ Free
    /\ \/ /\ nexts' = nexts - 1
          /\ IF state = "running" THEN checkComplete(nexts - 1, branch) ELSE UNCHANGED state
          /\ UNCHANGED <<acts, tokens, loops>>
       \/ /\ state = "running" /\ Len(loops) < setup.entries
          /\ EnterLoop(nexts - 1)
          /\ UNCHANGED state
    /\ UNCHANGED <<setup, branch, requestVars>>

\* The other branch comes to the end event.
FinishBranch ==
    /\ branch > 0 /\ state = "running" /\ Free
    /\ branch' = 0
    /\ checkComplete(nexts, 0)
    /\ UNCHANGED <<setup, acts, tokens, loops, nexts, requestVars>>

Completing == \E w \in Workers, a \in DOMAIN acts : GetActivityInstance(w, a)
Serving(w) == Conflict(w) \/ CompleteTask(w) \/ advanceMultiInstance(w)

Next ==
    \/ StartProcessInstance
    \/ Completing
    \/ \E w \in Workers : Serving(w)
    \/ CompleteNext
    \/ FinishBranch

\* Goroutines that serve requests run on.
Spec == Init /\ [][Next]_vars /\ \A w \in Workers : WF_vars(Serving(w))

-----------------------------------------------------------------------------
(* Properties *)

LoopVariables == [total : Nat, active : Int, completed : Nat, index : Nat, passes : Nat]
Activities == [loop : Nat, counter : Nat, state : {"active", "completed"}]

TypeOK ==
    /\ setup \in Setups
    /\ loops \in Seq(LoopVariables)
    /\ acts \in Seq(Activities)
    /\ \A a \in DOMAIN acts : acts[a].loop \in DOMAIN loops
    /\ tokens \in Nat /\ nexts \in Nat /\ branch \in {0, 1}
    /\ state \in {"new", "running", "completed"}
    /\ pc \in [Workers -> {"idle", "complete", "advance"}]
    /\ task \in [Workers -> Nat]
    /\ seen \in [Workers -> [loop : Nat, read : LoopVariables]]
    /\ \A w \in Workers : pc[w] # "idle" => task[w] \in DOMAIN acts
    /\ \A w \in Workers : pc[w] = "advance" => seen[w].loop \in DOMAIN loops
    /\ lock \in Workers \cup {NoWorker}

\* The process goes on from a loop at most once, and leaves no activity of it
\* open when it does, whoever completes what at the same time.
LoopPassesOnce ==
    \A l \in DOMAIN loops :
        /\ loops[l].passes <= 1
        /\ loops[l].passes = 1 => \A a \in LoopActs(l) : ~Active(a)

\* In a sequential loop an instance starts when the one before it has been
\* completed, and none starts twice.
OneAfterTheOther ==
    setup.isSequential =>
        \A a, b \in DOMAIN acts :
            (a < b /\ acts[a].loop = acts[b].loop) => ~Active(a) /\ acts[a].counter < acts[b].counter

\* Between completions nrOfCompletedInstances is the number of activities that
\* are completed, and nrOfActiveInstances what is left of nrOfInstances: each
\* completion is counted once and for the loop it belongs to.
CountersAgree ==
    (\A w \in Workers : pc[w] # "advance") =>
        \A l \in DOMAIN loops :
            /\ loops[l].completed = Cardinality({a \in LoopActs(l) : ~Active(a)})
            /\ loops[l].active = loops[l].total - loops[l].completed

\* The instance ends when nothing is left to do in it: no activity of a loop
\* is open, nor the task behind the loop, nor the other branch.
EndsWithNothingOpen ==
    state = "completed" => nexts = 0 /\ branch = 0 /\ \A a \in DOMAIN acts : ~Active(a)

\* If people go on completing their tasks, the process goes on from every loop
\* it has entered.
LoopsPass ==
    WF_vars(Completing) => \A l \in 1..2 : l \in DOMAIN loops ~> (l \in DOMAIN loops /\ loops[l].passes > 0)

\* The loop as a countdown: every completion counts, the last one passes.
Abstract ==
    INSTANCE Countdown WITH
        left <- IF loops = <<>> THEN 0 ELSE loops[Len(loops)].total - loops[Len(loops)].completed,
        passes <- Cardinality({l \in DOMAIN loops : loops[l].passes > 0})

\* Steps of a loop are steps of Countdown.
ImplementsCountdown == Abstract!Spec
=============================================================================
