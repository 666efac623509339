------------------------- MODULE MultiInstanceProofs -------------------------
(***************************************************************************)
(* Proofs about MultiInstance, for every number of workers, of instances    *)
(* and of rounds.                                                           *)
(***************************************************************************)
EXTENDS MultiInstance, FiniteSetTheorems, TLAPS

\* The setups for which a loop keeps its promises: a Locker, no
\* completionCondition, a store that keeps the order of activities if the
\* loop may be entered again, and no other branch beside a parallel loop.
Careful ==
    \A s \in Setups :
        /\ s.locking /\ s.threshold = 0
        /\ s.entries > 1 => s.ordered
        /\ s.branch = 1 => s.isSequential

-----------------------------------------------------------------------------
(* The inductive invariant *)

DoneActs(l) == {a \in LoopActs(l) : ~Active(a)}
Advancing(l) == \E w \in Workers : pc[w] = "advance" /\ seen[w].loop = l

\* How many activities of a loop have been created.
Started(l) ==
    IF setup.isSequential /\ loops[l].total > 0 THEN loops[l].index + 1 ELSE loops[l].total

\* The counters of a loop agree with its activities; a completion that holds
\* the lock is not counted yet.
Counted(l) ==
    /\ loops[l].completed <= loops[l].total
    /\ loops[l].active = loops[l].total - loops[l].completed
    /\ loops[l].passes = IF loops[l].completed = loops[l].total THEN 1 ELSE 0
    /\ Cardinality(LoopActs(l)) = Started(l)
    /\ Cardinality(DoneActs(l)) = loops[l].completed + (IF Advancing(l) THEN 1 ELSE 0)
    /\ setup.isSequential /\ loops[l].total > 0 =>
          loops[l].index = loops[l].completed - loops[l].passes

Counters == \A l \in DOMAIN loops : Counted(l)

\* Only the last loop can have instances left.
Unfinished == loops # <<>> /\ loops[Len(loops)].completed < loops[Len(loops)].total
EarlierDone == \A l \in DOMAIN loops : l < Len(loops) => loops[l].completed = loops[l].total

\* A worker past CompleteTask owns the lock and has read what is still stored.
Exclusive ==
    /\ \A w \in Workers : pc[w] = "advance" =>
          /\ lock = w
          /\ seen[w] = Variables(Len(loops))
          /\ Unfinished
    /\ lock # NoWorker => pc[lock] = "advance"

\* Activities are listed loop after loop, and a sequential loop has started
\* no instance beyond its index.
Listed ==
    /\ \A a, b \in DOMAIN acts : a < b => acts[a].loop <= acts[b].loop
    /\ setup.isSequential => \A a \in DOMAIN acts : acts[a].counter <= loops[acts[a].loop].index
    /\ Len(loops) > 1 => Len(loops) <= setup.entries

\* The process is in one place: in the loop, behind it, or at the end; the
\* token of an unfinished loop is there for the other branch to see.
Placed ==
    /\ state = "new" <=> loops = <<>>
    /\ state = "new" => tokens = 0 /\ nexts = 0 /\ branch = 0
    /\ branch <= setup.branch
    /\ state # "new" /\ ~Unfinished => tokens = 0
    /\ Unfinished => state = "running" /\ nexts = 0
    /\ Unfinished /\ setup.branch = 1 /\ lock = NoWorker => tokens > 0
    /\ nexts <= 1
    /\ state = "completed" => nexts = 0 /\ branch = 0

LoopInv == Counters /\ EarlierDone /\ Exclusive /\ Listed /\ OneAfterTheOther /\ Placed

-----------------------------------------------------------------------------
(* Sequences of loops and of activities *)

\* What appending one row does to a table.
LEMMA AppendedRow ==
    ASSUME NEW S, NEW rows \in Seq(S), NEW row \in S
    PROVE  /\ Append(rows, row) \in Seq(S)
           /\ DOMAIN Append(rows, row) = DOMAIN rows \cup {Len(rows) + 1}
           /\ Len(Append(rows, row)) = Len(rows) + 1
           /\ \A i \in DOMAIN rows : Append(rows, row)[i] = rows[i]
           /\ Append(rows, row)[Len(rows) + 1] = row
  OBVIOUS

\* What startParallelInstances appends: count activities of one loop.
LEMMA AppendedActs ==
    ASSUME NEW rows \in Seq(Activities), NEW loop \in Nat, NEW count \in Nat
    PROVE  LET now == rows \o [k \in 1..count |-> NewAct(loop, k - 1)]
           IN  /\ now \in Seq(Activities)
               /\ DOMAIN now = 1..(Len(rows) + count)
               /\ \A a \in DOMAIN rows : now[a] = rows[a]
               /\ \A a \in (Len(rows) + 1)..(Len(rows) + count) :
                     now[a] = NewAct(loop, a - Len(rows) - 1)
  <1> DEFINE new == [k \in 1..count |-> NewAct(loop, k - 1)]
  <1>1. \A k \in 1..count : NewAct(loop, k - 1) \in Activities
    BY DEF NewAct, Activities
  <1>2. new \in Seq(Activities) /\ Len(new) = count
    BY <1>1
  <1>3. \A k \in 1..count : new[k] = NewAct(loop, k - 1)
    OBVIOUS
  <1> HIDE DEF new
  <1>4. rows \o new \in Seq(Activities) /\ Len(rows \o new) = Len(rows) + count
    BY <1>2
  <1>5. DOMAIN (rows \o new) = 1..(Len(rows) + count)
    BY <1>4
  <1>6. \A a \in DOMAIN rows : (rows \o new)[a] = rows[a]
    BY <1>2
  <1>7. ASSUME NEW a \in (Len(rows) + 1)..(Len(rows) + count)
        PROVE  (rows \o new)[a] = NewAct(loop, a - Len(rows) - 1)
    <2>1. (rows \o new)[a] = new[a - Len(rows)]
      BY <1>2
    <2>2. a - Len(rows) \in 1..count
      OBVIOUS
    <2> QED BY <2>1, <2>2, <1>3
  <1> QED BY <1>4, <1>5, <1>6, <1>7 DEF new

-----------------------------------------------------------------------------
(* What the actions do *)

\* The variables of a loop just entered, and the number of its activities.
FirstVariables(count) == [NewLoop(count) EXCEPT !.passes = IF count = 0 THEN 1 ELSE 0]
FirstActs(count) == IF setup.isSequential /\ count > 0 THEN 1 ELSE count

\* Entering the loop appends its variables and its first activities.
Entered(others, count) ==
    /\ loops' = Append(loops, FirstVariables(count))
    /\ acts' \in Seq(Activities)
    /\ DOMAIN acts' = 1..(Len(acts) + FirstActs(count))
    /\ \A a \in DOMAIN acts : acts'[a] = acts[a]
    /\ \A a \in (Len(acts) + 1)..(Len(acts) + FirstActs(count)) :
          acts'[a] = NewAct(Len(loops) + 1, a - Len(acts) - 1)
    /\ tokens' = tokens + FirstActs(count)
    /\ nexts' = others + (IF count = 0 THEN 1 ELSE 0)

\* Loops have a number of instances.
LEMMA CountsAreNat == \A count \in Counts : count \in Nat
  BY LoopAssumption

\* Setups are typed.
LEMMA SetupType ==
    ASSUME setup \in Setups
    PROVE  /\ setup.isSequential \in BOOLEAN /\ setup.locking \in BOOLEAN /\ setup.ordered \in BOOLEAN
           /\ setup.threshold \in Nat /\ setup.branch \in {0, 1} /\ setup.entries \in Nat
  BY LoopAssumption

\* So are the variables of a loop just entered.
LEMMA FirstType ==
    ASSUME NEW count \in Nat
    PROVE  /\ FirstVariables(count) \in LoopVariables
           /\ FirstVariables(count).total = count
           /\ FirstVariables(count).active = count
           /\ FirstVariables(count).completed = 0
           /\ FirstVariables(count).index = 0
           /\ FirstVariables(count).passes = IF count = 0 THEN 1 ELSE 0
           /\ FirstActs(count) \in Nat
  BY DEF FirstVariables, FirstActs, NewLoop, LoopVariables

\* enterLoop enters it, sequential, parallel or empty.
LEMMA EnterLoopEffect ==
    ASSUME TypeOK, NEW others \in Nat, EnterLoop(others)
    PROVE  \E count \in Counts : Entered(others, count)
  <1>1. PICK count \in Counts :
            /\ handleMultiInstanceTask(count)
            /\ nexts' = others + (IF count = 0 THEN 1 ELSE 0)
    BY DEF EnterLoop
  <1>2. count \in Nat
    BY CountsAreNat
  <1>3. acts \in Seq(Activities) /\ Len(loops) + 1 \in Nat /\ tokens \in Nat
    BY DEF TypeOK
  <1>4. CASE count = 0
    <2>1. /\ loops' = Append(loops, [NewLoop(0) EXCEPT !.passes = 1])
          /\ acts' = acts /\ tokens' = tokens
      BY <1>1, <1>4 DEF handleMultiInstanceTask
    <2>2. FirstActs(count) = 0 /\ FirstVariables(count) = [NewLoop(0) EXCEPT !.passes = 1]
      BY <1>4 DEF FirstActs, FirstVariables
    <2> QED BY <2>1, <2>2, <1>1, <1>3, <1>4 DEF Entered
  <1>5. CASE count # 0 /\ setup.isSequential
    <2>1. /\ loops' = Append(loops, NewLoop(count))
          /\ tokens' = tokens + 1
          /\ acts' = Append(acts, NewAct(Len(loops) + 1, 0))
      BY <1>1, <1>5 DEF handleMultiInstanceTask, startSequentialInstance
    <2>2. FirstActs(count) = 1 /\ FirstVariables(count) = NewLoop(count)
      BY <1>2, <1>5 DEF FirstActs, FirstVariables, NewLoop
    <2>3. NewAct(Len(loops) + 1, 0) \in Activities
      BY <1>3 DEF NewAct, Activities
    <2>4. /\ acts' \in Seq(Activities)
          /\ DOMAIN acts' = 1..(Len(acts) + 1)
          /\ \A a \in DOMAIN acts : acts'[a] = acts[a]
          /\ acts'[Len(acts) + 1] = NewAct(Len(loops) + 1, 0)
      BY <1>3, <2>1, <2>3
    <2>5. \A a \in (Len(acts) + 1)..(Len(acts) + 1) : a = Len(acts) + 1 /\ a - Len(acts) - 1 = 0
      BY <1>3
    <2> QED BY <2>1, <2>2, <2>4, <2>5, <1>1 DEF Entered
  <1>6. CASE count # 0 /\ ~setup.isSequential
    <2>1. /\ loops' = Append(loops, NewLoop(count))
          /\ tokens' = tokens + count
          /\ acts' = acts \o [k \in 1..count |-> NewAct(Len(loops) + 1, k - 1)]
      BY <1>1, <1>6 DEF handleMultiInstanceTask, startParallelInstances
    <2>2. FirstActs(count) = count /\ FirstVariables(count) = NewLoop(count)
      BY <1>2, <1>6 DEF FirstActs, FirstVariables, NewLoop
    <2>3. /\ acts' \in Seq(Activities)
          /\ DOMAIN acts' = 1..(Len(acts) + count)
          /\ \A a \in DOMAIN acts : acts'[a] = acts[a]
          /\ \A a \in (Len(acts) + 1)..(Len(acts) + count) :
                acts'[a] = NewAct(Len(loops) + 1, a - Len(acts) - 1)
      BY <2>1, <1>2, <1>3, AppendedActs, Zenon
    <2> QED BY <2>1, <2>2, <2>3, <1>1 DEF Entered
  <1> QED BY <1>4, <1>5, <1>6

\* The decisions of advanceMultiInstance, and what they lead to.
Met(w) == setup.threshold > 0 /\ seen[w].read.completed + 1 >= setup.threshold
More(w) == ~Met(w) /\ StartsNext(seen[w].read)
Done(w) == Met(w) \/ (~More(w) /\ LoopDone(seen[w].read))

AdvancedLoop(w, l) ==
    [total     |-> loops[l].total,
     active    |-> IF Met(w) THEN 0 ELSE seen[w].read.active - 1,
     completed |-> seen[w].read.completed + 1,
     index     |-> IF More(w) THEN seen[w].read.index + 1 ELSE loops[l].index,
     passes    |-> IF Done(w) THEN loops[l].passes + 1 ELSE loops[l].passes]

Advanced(w, l) ==
    /\ pc[w] = "advance"
    /\ l = seen[w].loop /\ l \in DOMAIN loops
    /\ loops' = [loops EXCEPT ![l] = AdvancedLoop(w, l)]
    /\ More(w) => /\ acts' = Append(acts, NewAct(l, seen[w].read.index + 1))
                  /\ tokens' = tokens + 1
    /\ ~More(w) => acts' = acts /\ tokens' = IF Done(w) THEN 0 ELSE tokens
    /\ nexts' = IF Done(w) THEN nexts + 1 ELSE nexts
    /\ pc' = [pc EXCEPT ![w] = "idle"]
    /\ lock' = NoWorker
    /\ UNCHANGED <<setup, branch, state, task, seen>>

\* advanceMultiInstance counts, and ends the loop or starts an instance.
LEMMA AdvanceEffect ==
    ASSUME TypeOK, NEW w \in Workers, advanceMultiInstance(w)
    PROVE  Advanced(w, seen[w].loop)
  <1> DEFINE l == seen[w].loop
             s == seen[w].read
  <1>1. pc[w] = "advance" /\ l \in DOMAIN loops
    BY DEF advanceMultiInstance, TypeOK
  <1>3. loops' = [loops EXCEPT ![l] = AdvancedLoop(w, l)]
    BY <1>1 DEF advanceMultiInstance, Met, More, Done, AdvancedLoop
  <1>5. More(w) => /\ acts' = Append(acts, NewAct(l, s.index + 1))
                   /\ tokens' = tokens + 1
    BY DEF advanceMultiInstance, startSequentialInstance, More, Met
  <1>6. ~More(w) => acts' = acts /\ tokens' = IF Done(w) THEN 0 ELSE tokens
    BY DEF advanceMultiInstance, More, Met, Done
  <1>7. /\ nexts' = IF Done(w) THEN nexts + 1 ELSE nexts
        /\ pc' = [pc EXCEPT ![w] = "idle"]
        /\ lock' = NoWorker
        /\ UNCHANGED <<setup, branch, state, task, seen>>
    BY DEF advanceMultiInstance, More, Met, Done
  <1> QED BY <1>1, <1>3, <1>5, <1>6, <1>7 DEF Advanced

\* The activities once one of them is completed.
Completed(a) == [acts EXCEPT ![a].state = "completed"]

\* What completing an activity does to the table.
LEMMA CompletedActs ==
    ASSUME TypeOK, NEW a \in DOMAIN acts
    PROVE  /\ Completed(a) \in Seq(Activities)
           /\ DOMAIN Completed(a) = DOMAIN acts
           /\ Len(Completed(a)) = Len(acts)
           /\ \A b \in DOMAIN acts : /\ Completed(a)[b].loop = acts[b].loop
                                     /\ Completed(a)[b].counter = acts[b].counter
                                     /\ b # a => Completed(a)[b] = acts[b]
           /\ Completed(a)[a].state = "completed"
  <1>1. acts \in Seq(Activities) /\ acts[a] \in Activities
    BY DEF TypeOK
  <1>2. Completed(a) = [acts EXCEPT ![a] = [acts[a] EXCEPT !.state = "completed"]]
    BY DEF Completed
  <1>3. [acts[a] EXCEPT !.state = "completed"] \in Activities
    BY <1>1 DEF Activities
  <1>4. Completed(a) \in Seq(Activities) /\ Len(Completed(a)) = Len(acts)
    BY <1>1, <1>2, <1>3
  <1>5. DOMAIN Completed(a) = DOMAIN acts
    BY <1>1, <1>4
  <1>6. /\ Completed(a)[a].state = "completed"
        /\ Completed(a)[a].loop = acts[a].loop
        /\ Completed(a)[a].counter = acts[a].counter
    BY <1>1, <1>2, <1>3 DEF Activities
  <1>7. \A b \in DOMAIN acts : b # a => Completed(a)[b] = acts[b]
    BY <1>1, <1>2
  <1> QED BY <1>4, <1>5, <1>6, <1>7

-----------------------------------------------------------------------------
(* Types *)

\* The first state is typed.
LEMMA TypeInit == Init => TypeOK
  BY LoopAssumption DEF Init, TypeOK, NewLoop, LoopVariables, Activities

\* Entering the loop keeps the types,
LEMMA TypeEntered ==
    ASSUME TypeOK, NEW others \in Nat, EnterLoop(others)
    PROVE  /\ loops' \in Seq(LoopVariables)
           /\ acts' \in Seq(Activities)
           /\ \A a \in DOMAIN acts' : acts'[a].loop \in DOMAIN loops'
           /\ DOMAIN loops \subseteq DOMAIN loops'
           /\ DOMAIN acts \subseteq DOMAIN acts'
           /\ tokens' \in Nat /\ nexts' \in Nat
  <1>1. PICK count \in Counts : Entered(others, count)
    BY EnterLoopEffect
  <1>2. count \in Nat
    BY CountsAreNat
  <1>3. FirstVariables(count) \in LoopVariables /\ FirstActs(count) \in Nat
    BY <1>2, FirstType
  <1>4. /\ loops \in Seq(LoopVariables) /\ acts \in Seq(Activities) /\ tokens \in Nat
        /\ \A a \in DOMAIN acts : acts[a].loop \in DOMAIN loops
    BY DEF TypeOK
  <1>5. loops' \in Seq(LoopVariables) /\ DOMAIN loops' = DOMAIN loops \cup {Len(loops) + 1}
    BY <1>1, <1>3, <1>4, AppendedRow DEF Entered
  <1>6. acts' \in Seq(Activities) /\ DOMAIN acts \subseteq DOMAIN acts'
    BY <1>1, <1>3, <1>4 DEF Entered
  <1>7. ASSUME NEW a \in DOMAIN acts' PROVE acts'[a].loop \in DOMAIN loops'
    <2>1. CASE a \in DOMAIN acts
      BY <2>1, <1>1, <1>4, <1>5 DEF Entered
    <2>2. CASE a \notin DOMAIN acts
      <3>1. a \in (Len(acts) + 1)..(Len(acts) + FirstActs(count))
        BY <2>2, <1>1, <1>3, <1>4 DEF Entered
      <3>2. acts'[a] = NewAct(Len(loops) + 1, a - Len(acts) - 1)
        BY <3>1, <1>1 DEF Entered
      <3>3. acts'[a].loop = Len(loops) + 1
        BY <3>2 DEF NewAct
      <3> QED BY <3>3, <1>5
    <2> QED BY <2>1, <2>2
  <1>8. tokens' \in Nat /\ nexts' \in Nat
    BY <1>1, <1>3, <1>4 DEF Entered
  <1> QED BY <1>5, <1>6, <1>7, <1>8

\* so does starting the process,
LEMMA TypeStart == TypeOK /\ StartProcessInstance => TypeOK'
  <1> SUFFICES ASSUME TypeOK, StartProcessInstance PROVE TypeOK'
    OBVIOUS
  <1>1. EnterLoop(0) /\ setup' = setup /\ pc' = pc /\ task' = task /\ seen' = seen /\ lock' = lock
        /\ state' = "running" /\ branch' = setup.branch
    BY DEF StartProcessInstance, requestVars
  <1>2. branch' \in {0, 1}
    BY <1>1, SetupType DEF TypeOK
  <1> QED BY <1>1, <1>2, TypeEntered DEF TypeOK

\* completing an activity,
LEMMA TypeCompleteTask ==
    ASSUME TypeOK, NEW w \in Workers, CompleteTask(w)
    PROVE  TypeOK'
  <1> DEFINE now == [acts EXCEPT ![task[w]].state = "completed"]
             left(n) == IF tokens >= n THEN tokens - n ELSE 0
  <1>1. task[w] \in DOMAIN acts
    BY DEF TypeOK, CompleteTask
  <1>2. now \in Seq(Activities) /\ DOMAIN now = DOMAIN acts /\ \A b \in DOMAIN acts : now[b].loop = acts[b].loop
    BY <1>1, CompletedActs DEF Completed
  <1>3. acts' = now /\ UNCHANGED <<setup, loops, nexts, branch, state, task>>
    BY DEF CompleteTask
  <1>4. \A n \in {1, 2} : left(n) \in Nat
    BY DEF TypeOK
  <1>5. CASE state # "running"
    <2>1. tokens' = left(1) /\ pc' = [pc EXCEPT ![w] = "idle"] /\ seen' = seen /\ lock' = lock
      BY <1>5 DEF CompleteTask
    <2> HIDE DEF now, left
    <2> QED BY <2>1, <1>2, <1>3, <1>4 DEF TypeOK
  <1>6. CASE state = "running"
    <2>1. PICK a \in CompletedMI(now) : seen' = [seen EXCEPT ![w] = Variables(acts[a].loop)]
      BY <1>6 DEF CompleteTask
    <2>2. tokens' = left(2) /\ pc' = [pc EXCEPT ![w] = "advance"] /\ lock' = w
      BY <1>6 DEF CompleteTask
    <2>3. a \in DOMAIN acts
      BY <2>1, <1>2 DEF CompletedMI
    <2>4. acts[a].loop \in DOMAIN loops /\ acts[a].loop \in Nat /\ loops[acts[a].loop] \in LoopVariables
      BY <2>3 DEF TypeOK
    <2>5. Variables(acts[a].loop) \in [loop : Nat, read : LoopVariables]
          /\ Variables(acts[a].loop).loop \in DOMAIN loops
      BY <2>4 DEF Variables
    <2> HIDE DEF now, left
    <2>6. seen' \in [Workers -> [loop : Nat, read : LoopVariables]]
          /\ seen'[w].loop \in DOMAIN loops
          /\ \A v \in Workers : v # w => seen'[v] = seen[v]
      BY <2>1, <2>5 DEF TypeOK
    <2> QED BY <2>2, <2>6, <1>1, <1>2, <1>3, <1>4 DEF TypeOK
  <1> QED BY <1>5, <1>6

\* counting it,
LEMMA TypeAdvance ==
    ASSUME TypeOK, NEW w \in Workers, advanceMultiInstance(w)
    PROVE  TypeOK'
  <1> DEFINE l == seen[w].loop
             s == seen[w].read
  <1>1. Advanced(w, l)
    BY AdvanceEffect
  <1>2. /\ l \in DOMAIN loops /\ loops \in Seq(LoopVariables) /\ s \in LoopVariables
        /\ acts \in Seq(Activities) /\ tokens \in Nat /\ nexts \in Nat
        /\ l \in Nat /\ loops[l] \in LoopVariables
        /\ \A a \in DOMAIN acts : acts[a].loop \in DOMAIN loops
    BY <1>1 DEF TypeOK, Advanced
  <1> HIDE DEF l
  <1>a. /\ s.active \in Int /\ s.completed \in Nat /\ s.index \in Nat
        /\ loops[l].total \in Nat /\ loops[l].index \in Nat /\ loops[l].passes \in Nat
    BY <1>2 DEF LoopVariables
  <1>3. AdvancedLoop(w, l) \in LoopVariables
    BY <1>a DEF AdvancedLoop, LoopVariables
  <1>4. loops' \in Seq(LoopVariables) /\ DOMAIN loops' = DOMAIN loops
    BY <1>1, <1>2, <1>3 DEF Advanced
  <1>5. tokens' \in Nat /\ nexts' \in Nat
    BY <1>1, <1>2 DEF Advanced
  <1>6. /\ acts' \in Seq(Activities) /\ DOMAIN acts \subseteq DOMAIN acts'
        /\ \A a \in DOMAIN acts' : acts'[a].loop \in DOMAIN loops
    <2>1. CASE More(w)
      <3>1. acts' = Append(acts, NewAct(l, s.index + 1))
        BY <1>1, <2>1 DEF Advanced
      <3>2. NewAct(l, s.index + 1) \in Activities /\ NewAct(l, s.index + 1).loop = l
        BY <1>2, <1>a DEF NewAct, Activities
      <3> QED BY <3>1, <3>2, <1>2, AppendedRow
    <2>2. CASE ~More(w)
      BY <2>2, <1>1, <1>2 DEF Advanced
    <2> QED BY <2>1, <2>2
  <1> QED BY <1>1, <1>4, <1>5, <1>6 DEF TypeOK, Advanced

\* completing the task behind the loop,
LEMMA TypeCompleteNext == TypeOK /\ CompleteNext => TypeOK'
  <1> SUFFICES ASSUME TypeOK, CompleteNext PROVE TypeOK'
    OBVIOUS
  <1>1. nexts - 1 \in Nat /\ setup' = setup /\ branch' = branch /\ pc' = pc /\ task' = task
        /\ seen' = seen /\ lock' = lock
    BY DEF CompleteNext, TypeOK, requestVars
  <1>2. CASE nexts' = nexts - 1 /\ acts' = acts /\ tokens' = tokens /\ loops' = loops
             /\ state' \in {"completed", state}
    BY <1>1, <1>2 DEF TypeOK
  <1>3. CASE EnterLoop(nexts - 1) /\ state' = state
    BY <1>1, <1>3, TypeEntered DEF TypeOK
  <1> QED BY <1>2, <1>3 DEF CompleteNext, checkComplete

\* and every other step.
LEMMA TypeStep == TypeOK /\ [Next]_vars => TypeOK'
  <1> SUFFICES ASSUME TypeOK, [Next]_vars PROVE TypeOK'
    OBVIOUS
  <1>1. CASE StartProcessInstance
    BY <1>1, TypeStart
  <1>2. ASSUME NEW w \in Workers, NEW a \in DOMAIN acts, GetActivityInstance(w, a) PROVE TypeOK'
    BY <1>2 DEF GetActivityInstance, TypeOK
  <1>3. ASSUME NEW w \in Workers, Conflict(w) PROVE TypeOK'
    BY <1>3 DEF Conflict, TypeOK
  <1>4. ASSUME NEW w \in Workers, CompleteTask(w) PROVE TypeOK'
    BY <1>4, TypeCompleteTask
  <1>5. ASSUME NEW w \in Workers, advanceMultiInstance(w) PROVE TypeOK'
    BY <1>5, TypeAdvance
  <1>6. CASE CompleteNext
    BY <1>6, TypeCompleteNext
  <1>7. CASE FinishBranch
    BY <1>7 DEF FinishBranch, checkComplete, requestVars, TypeOK
  <1>8. CASE UNCHANGED vars
    BY <1>8 DEF vars, TypeOK
  <1> QED BY <1>1, <1>2, <1>3, <1>4, <1>5, <1>6, <1>7, <1>8 DEF Next, Completing, Serving

\* The variables of loops and requests keep their types in every setup, with
\* or without a Locker: no count goes below zero, and a request that has read
\* (navigator.go navigateFrom, multi_instance.go advanceMultiInstance) names a
\* loop and an activity that exist.
THEOREM TypeCorrect == Spec => []TypeOK
  BY TypeInit, TypeStep, PTL DEF Spec

-----------------------------------------------------------------------------
(* Counting activities *)

\* Activities of a loop can be counted.
LEMMA ActsFinite ==
    ASSUME TypeOK, NEW l
    PROVE  /\ IsFiniteSet(LoopActs(l))
           /\ IsFiniteSet(DoneActs(l))
           /\ DoneActs(l) \in SUBSET LoopActs(l)
           /\ Cardinality(LoopActs(l)) \in Nat
           /\ Cardinality(DoneActs(l)) \in Nat
  <1>1. DOMAIN acts = 1..Len(acts) /\ Len(acts) \in Nat
    BY DEF TypeOK
  <1>2. IsFiniteSet(DOMAIN acts)
    BY <1>1, FS_Interval
  <1>3. LoopActs(l) \in SUBSET DOMAIN acts /\ DoneActs(l) \in SUBSET LoopActs(l)
    BY DEF LoopActs, DoneActs
  <1>4. IsFiniteSet(LoopActs(l))
    BY <1>2, <1>3, FS_Subset
  <1>5. IsFiniteSet(DoneActs(l))
    BY <1>4, <1>3, FS_Subset
  <1> QED BY <1>3, <1>4, <1>5, FS_CardinalityType

\* If as many activities are completed as were created, none is open.
LEMMA NoneOpen ==
    ASSUME TypeOK, NEW l, Cardinality(DoneActs(l)) = Cardinality(LoopActs(l))
    PROVE  \A a \in LoopActs(l) : ~Active(a)
  <1>1. DoneActs(l) = LoopActs(l)
    BY ActsFinite, FS_Subset
  <1> QED BY <1>1 DEF DoneActs

\* The numbers of a loop.
LEMMA LoopFields ==
    ASSUME TypeOK, NEW l \in DOMAIN loops
    PROVE  /\ loops[l].total \in Nat /\ loops[l].active \in Int /\ loops[l].completed \in Nat
           /\ loops[l].index \in Nat /\ loops[l].passes \in Nat
           /\ l \in Nat /\ Len(loops) \in Nat /\ 1 <= l /\ l <= Len(loops)
           /\ Len(loops) \in DOMAIN loops /\ loops # <<>>
  <1>1. loops \in Seq(LoopVariables)
    BY DEF TypeOK
  <1>2. loops[l] \in LoopVariables /\ l \in 1..Len(loops) /\ Len(loops) \in Nat
    BY <1>1
  <1>3. /\ loops[l].total \in Nat /\ loops[l].active \in Int /\ loops[l].completed \in Nat
        /\ loops[l].index \in Nat /\ loops[l].passes \in Nat
    BY <1>2 DEF LoopVariables
  <1>4. loops # <<>> /\ Len(loops) \in DOMAIN loops
    BY <1>1, <1>2
  <1> QED BY <1>2, <1>3, <1>4

\* The numbers of an activity.
LEMMA ActFields ==
    ASSUME TypeOK, NEW a \in DOMAIN acts
    PROVE  acts[a].loop \in DOMAIN loops /\ acts[a].counter \in Nat
  <1>1. acts[a] \in Activities /\ acts[a].loop \in DOMAIN loops
    BY DEF TypeOK
  <1> QED BY <1>1 DEF Activities

\* Nobody is in the middle of a completion while the lock is free.
LEMMA NobodyAdvances ==
    ASSUME TypeOK, Exclusive, lock = NoWorker
    PROVE  /\ \A w \in Workers : pc[w] # "advance"
           /\ \A l : ~Advancing(l)
  BY LoopAssumption DEF Exclusive, Advancing

\* A loop that has counted all its instances has no open activity.
LEMMA CountedDone ==
    ASSUME TypeOK, LoopInv, NEW l \in DOMAIN loops, loops[l].completed = loops[l].total
    PROVE  \A a \in LoopActs(l) : ~Active(a)
  <1>1. ~Advancing(l)
    <2> SUFFICES ASSUME NEW w \in Workers, pc[w] = "advance", seen[w].loop = l PROVE FALSE
      BY DEF Advancing
    <2>1. seen[w] = Variables(Len(loops)) /\ Unfinished
      BY DEF LoopInv, Exclusive
    <2>2. l = Len(loops)
      BY <2>1 DEF Variables
    <2> QED BY <2>1, <2>2, LoopFields DEF Unfinished
  <1>2. Counted(l)
    BY DEF LoopInv, Counters
  <1>3. Cardinality(DoneActs(l)) = loops[l].completed
    BY <1>1, <1>2, LoopFields DEF Counted
  <1>4. Cardinality(LoopActs(l)) = loops[l].total
    <2>1. loops[l].passes = 1
      BY <1>2 DEF Counted
    <2> QED BY <1>2, <2>1, LoopFields DEF Counted, Started
  <1> QED BY <1>3, <1>4, NoneOpen

\* An open activity belongs to the last loop, which is not finished.
LEMMA OpenIsLast ==
    ASSUME TypeOK, LoopInv, NEW a \in DOMAIN acts, Active(a)
    PROVE  acts[a].loop = Len(loops) /\ Unfinished
  <1> DEFINE l == acts[a].loop
  <1>1. l \in DOMAIN loops /\ a \in LoopActs(l)
    BY DEF TypeOK, LoopActs
  <1>2. loops[l].completed # loops[l].total
    BY <1>1, CountedDone
  <1>3. ~(l < Len(loops))
    BY <1>1, <1>2 DEF LoopInv, EarlierDone
  <1>4. l = Len(loops)
    BY <1>1, <1>3, LoopFields
  <1>5. loops[l].completed <= loops[l].total
    BY <1>1 DEF LoopInv, Counters, Counted
  <1> QED BY <1>1, <1>2, <1>4, <1>5, LoopFields DEF Unfinished

-----------------------------------------------------------------------------
(* LoopInv, action by action *)

\* LoopInv holds at first,
LEMMA LoopInit == Init => LoopInv
  <1> SUFFICES ASSUME Init PROVE LoopInv
    OBVIOUS
  <1>1. /\ setup \in Setups /\ acts = <<>> /\ loops = <<>> /\ tokens = 0 /\ nexts = 0 /\ branch = 0
        /\ state = "new" /\ lock = NoWorker
        /\ \A w \in Workers : pc[w] = "idle"
    BY DEF Init
  <1>2. branch <= setup.branch
    BY <1>1, SetupType
  <1>3. ~Unfinished /\ DOMAIN loops = {} /\ DOMAIN acts = {} /\ Len(loops) = 0
    BY <1>1 DEF Unfinished
  <1>4. Counters /\ EarlierDone /\ OneAfterTheOther /\ Listed
    BY <1>3 DEF Counters, EarlierDone, OneAfterTheOther, Listed
  <1>5. Exclusive
    BY <1>1 DEF Exclusive
  <1>6. Placed
    BY <1>1, <1>2, <1>3 DEF Placed
  <1> QED BY <1>4, <1>5, <1>6 DEF LoopInv

\* Steps that leave the loops, their activities and the lock alone.
LEMMA SameLoops ==
    ASSUME TypeOK, LoopInv, UNCHANGED <<setup, acts, loops, seen, lock>>,
           \A w \in Workers : pc'[w] = "advance" <=> pc[w] = "advance"
    PROVE  /\ Counters' /\ EarlierDone' /\ Exclusive' /\ Listed' /\ OneAfterTheOther'
           /\ Unfinished' <=> Unfinished
  <1>1. \A l : LoopActs(l)' = LoopActs(l) /\ DoneActs(l)' = DoneActs(l)
    BY DEF LoopActs, DoneActs, Active
  <1>2. \A l : Advancing(l)' <=> Advancing(l)
    BY DEF Advancing
  <1>3. \A l \in DOMAIN loops : Counted(l)'
    BY <1>1, <1>2 DEF LoopInv, Counters, Counted, Started
  <1>4. Unfinished' <=> Unfinished
    BY DEF Unfinished
  <1>5. Counters' /\ EarlierDone'
    BY <1>3 DEF LoopInv, Counters, EarlierDone
  <1>6. Exclusive'
    <2>1. lock \in Workers => (pc'[lock] = "advance" <=> pc[lock] = "advance")
      OBVIOUS
    <2>2. lock # NoWorker => pc'[lock'] = "advance"
      BY <2>1 DEF LoopInv, Exclusive, TypeOK
    <2> QED BY <2>2, <1>4 DEF LoopInv, Exclusive, Variables
  <1>7. Listed' /\ OneAfterTheOther'
    BY DEF LoopInv, Listed, OneAfterTheOther, Active
  <1> QED BY <1>4, <1>5, <1>6, <1>7

\* when an activity is completed,
LEMMA LoopCompleteTask ==
    ASSUME Careful, TypeOK, LoopInv, NEW w \in Workers, CompleteTask(w)
    PROVE  LoopInv'
  <1> DEFINE a == task[w]
             n == Len(loops)
  <1>1. a \in DOMAIN acts /\ Active(a)
    BY DEF CompleteTask, TypeOK
  <1>2. acts[a].loop = n /\ Unfinished
    BY <1>1, OpenIsLast
  <1>3. state = "running" /\ nexts = 0
    BY <1>2 DEF LoopInv, Placed
  <1>4. lock = NoWorker
    BY DEF CompleteTask, Free, Careful, TypeOK
  <1>5. /\ UNCHANGED <<setup, loops, nexts, branch, state, task>>
        /\ acts' = Completed(a)
        /\ pc' = [pc EXCEPT ![w] = "advance"] /\ lock' = w
    BY <1>3 DEF CompleteTask, Completed
  <1>6. PICK c \in CompletedMI(Completed(a)) : seen' = [seen EXCEPT ![w] = Variables(acts[c].loop)]
    BY <1>3 DEF CompleteTask, Completed
  <1>7. /\ DOMAIN acts' = DOMAIN acts
        /\ \A b \in DOMAIN acts : /\ acts'[b].loop = acts[b].loop
                                  /\ acts'[b].counter = acts[b].counter
                                  /\ b # a => acts'[b] = acts[b]
        /\ acts'[a].state = "completed"
    BY <1>1, <1>5, CompletedActs
  <1>8. n \in DOMAIN loops /\ n \in Nat
    BY <1>1, LoopFields DEF TypeOK
  <1> HIDE DEF a, n
  \* completedMI, the last completed activity of the list, is one of this loop
  <1>9. acts[c].loop = n
    <2>1. c \in DOMAIN acts /\ acts[c].loop \in DOMAIN loops
      BY <1>5, <1>6, <1>7 DEF CompletedMI, TypeOK
    <2>2. CASE setup.ordered
      <3>1. a <= c
        BY <2>2, <1>1, <1>5, <1>6, <1>7 DEF CompletedMI
      <3>2. a \in Nat /\ c \in Nat
        BY <1>1, <2>1 DEF TypeOK
      <3>3. acts[a].loop <= acts[c].loop
        <4>1. CASE a = c
          BY <4>1, <2>1, LoopFields
        <4>2. CASE a < c
          BY <4>2, <1>1, <2>1 DEF LoopInv, Listed
        <4> QED BY <4>1, <4>2, <3>1, <3>2
      <3> QED BY <3>3, <1>2, <1>8, <2>1, LoopFields DEF n
    <2>3. CASE ~setup.ordered
      <3>1. setup.entries <= 1
        BY <2>3, SetupType DEF Careful, TypeOK
      <3>2. n <= 1
        BY <3>1, <1>8, SetupType DEF LoopInv, Listed, n, TypeOK
      <3> QED BY <3>2, <2>1, <1>8, LoopFields DEF n
    <2> QED BY <2>2, <2>3, SetupType DEF TypeOK
  <1>10. Unfinished' /\ EarlierDone'
    BY <1>2, <1>5 DEF Unfinished, LoopInv, EarlierDone
  <1>11. \A v \in Workers : pc[v] # "advance"
    BY <1>4, NobodyAdvances DEF LoopInv
  <1>12. seen'[w] = Variables(n) /\ Variables(n)' = Variables(n) /\ n' = n
    <2>1. seen'[w] = Variables(n)
      BY <1>6, <1>9 DEF TypeOK
    <2>2. Variables(n)' = Variables(n) /\ n' = n
      BY <1>5 DEF Variables, n
    <2> QED BY <2>1, <2>2
  <1>13. pc'[w] = "advance" /\ \A v \in Workers : v # w => pc'[v] # "advance"
    BY <1>5, <1>11 DEF TypeOK
  <1>14. Exclusive'
    BY <1>5, <1>10, <1>12, <1>13 DEF Exclusive, n
  <1>15. ASSUME NEW l \in DOMAIN loops PROVE Counted(l)'
    <2>1. Counted(l) /\ ~Advancing(l)
      BY <1>4, NobodyAdvances DEF LoopInv, Counters
    <2>2. Advancing(l)' <=> l = n
      BY <1>12, <1>13 DEF Advancing, Variables
    <2>3. LoopActs(l)' = LoopActs(l)
      BY <1>7 DEF LoopActs
    <2>4. CASE l = n
      <3>1. DoneActs(l)' = DoneActs(l) \cup {a}
        BY <2>3, <2>4, <1>1, <1>2, <1>7 DEF DoneActs, LoopActs, Active
      <3>2. a \notin DoneActs(l)
        BY <1>1 DEF DoneActs
      <3>3. Cardinality(DoneActs(l)') = Cardinality(DoneActs(l)) + 1
        BY <3>1, <3>2, ActsFinite, FS_AddElement
      <3> QED BY <3>3, <2>1, <2>2, <2>3, <2>4, <1>5, LoopFields DEF Counted, Started
    <2>5. CASE l # n
      <3>1. DoneActs(l)' = DoneActs(l)
        BY <2>3, <2>5, <1>1, <1>2, <1>7 DEF DoneActs, LoopActs, Active
      <3> QED BY <3>1, <2>1, <2>2, <2>3, <2>5, <1>5 DEF Counted, Started
    <2> QED BY <2>4, <2>5
  <1>16. Listed' /\ OneAfterTheOther'
    <2>1. \A b \in DOMAIN acts : Active(b)' => Active(b)
      BY <1>7 DEF Active
    <2> QED BY <2>1, <1>5, <1>7 DEF LoopInv, Listed, OneAfterTheOther
  <1>17. Placed'
    <2>1. lock' # NoWorker
      BY <1>5, LoopAssumption
    <2> QED BY <2>1, <1>3, <1>5, <1>10 DEF LoopInv, Placed
  <1> QED BY <1>5, <1>10, <1>14, <1>15, <1>16, <1>17 DEF LoopInv, Counters

\* when its completion is counted and the loop goes on or ends,
LEMMA LoopAdvance ==
    ASSUME Careful, TypeOK, LoopInv, NEW w \in Workers, advanceMultiInstance(w)
    PROVE  LoopInv'
  <1>n. PICK n : n = Len(loops)
    OBVIOUS
  <1> DEFINE old == loops[n]
  <1>1. Advanced(w, seen[w].loop) /\ TypeOK'
    BY AdvanceEffect, TypeAdvance
  <1>2. /\ pc[w] = "advance" /\ lock = w
        /\ seen[w] = Variables(n) /\ Unfinished
    BY <1>1, <1>n DEF Advanced, LoopInv, Exclusive
  <1>3. seen[w].loop = n /\ seen[w].read = old
    BY <1>2 DEF Variables
  <1>4. n \in DOMAIN loops /\ n \in Nat
    BY <1>1, <1>3, <1>n, LoopFields DEF Advanced
  <1>5. /\ old.total \in Nat /\ old.active \in Int /\ old.completed \in Nat
        /\ old.index \in Nat /\ old.passes \in Nat
        /\ old.completed < old.total
    BY <1>2, <1>4, <1>n, LoopFields DEF Unfinished
  <1>6. Counted(n)
    BY <1>4 DEF LoopInv, Counters
  <1>7. old.passes = 0 /\ old.active = old.total - old.completed
        /\ (setup.isSequential => old.index = old.completed)
    BY <1>5, <1>6 DEF Counted
  <1>8. ~Met(w)
    BY DEF Met, Careful, TypeOK
  <1>9. More(w) <=> setup.isSequential /\ old.completed + 1 < old.total
    BY <1>3, <1>5, <1>7, <1>8 DEF More, StartsNext
  <1>10. Done(w) <=> old.completed + 1 = old.total
    BY <1>3, <1>5, <1>7, <1>8, <1>9 DEF Done, LoopDone
  <1>11. /\ setup' = setup /\ branch' = branch /\ state' = state /\ lock' = NoWorker
         /\ pc' = [pc EXCEPT ![w] = "idle"] /\ seen' = seen
         /\ nexts' = IF Done(w) THEN nexts + 1 ELSE nexts
         /\ loops' = [loops EXCEPT ![n] = AdvancedLoop(w, n)]
         /\ More(w) => acts' = Append(acts, NewAct(n, old.index + 1)) /\ tokens' = tokens + 1
         /\ ~More(w) => acts' = acts /\ tokens' = IF Done(w) THEN 0 ELSE tokens
    BY <1>1, <1>3 DEF Advanced
  <1>12. /\ Len(loops') = n /\ DOMAIN loops' = DOMAIN loops
         /\ \A l \in DOMAIN loops : l # n => loops'[l] = loops[l]
         /\ loops'[n].total = old.total
         /\ loops'[n].active = old.active - 1
         /\ loops'[n].completed = old.completed + 1
         /\ loops'[n].index = IF More(w) THEN old.index + 1 ELSE old.index
         /\ loops'[n].passes = IF Done(w) THEN old.passes + 1 ELSE old.passes
    <2>1. loops \in Seq(LoopVariables)
      BY DEF TypeOK
    <2>2. Len(loops') = n /\ DOMAIN loops' = DOMAIN loops
      BY <2>1, <1>4, <1>11, <1>n
    <2>3. \A l \in DOMAIN loops : l # n => loops'[l] = loops[l]
      BY <2>1, <1>11
    <2>4. loops'[n] = AdvancedLoop(w, n)
      BY <2>1, <1>4, <1>11
    <2> QED BY <2>2, <2>3, <2>4, <1>3, <1>8 DEF AdvancedLoop
  <1>13. Advancing(n) /\ Cardinality(DoneActs(n)) = old.completed + 1
    <2>1. Advancing(n)
      BY <1>2, <1>3 DEF Advancing
    <2> QED BY <2>1, <1>6 DEF Counted
  \* the instance before the next one has been completed
  <1>14. (More(w) \/ Done(w)) => \A a \in LoopActs(n) : ~Active(a)
    <2> SUFFICES ASSUME More(w) \/ Done(w) PROVE \A a \in LoopActs(n) : ~Active(a)
      OBVIOUS
    <2>1. Cardinality(LoopActs(n)) = old.completed + 1
      BY <1>5, <1>6, <1>7, <1>9, <1>10 DEF Counted, Started
    <2> QED BY <2>1, <1>13, NoneOpen
  <1>15. \A v \in Workers : pc'[v] # "advance"
    BY <1>2, <1>11 DEF LoopInv, Exclusive, TypeOK
  <1>16. Exclusive'
    BY <1>11, <1>15 DEF Exclusive
  <1>17. EarlierDone' /\ (Unfinished' <=> ~Done(w))
    <2>1. EarlierDone'
      BY <1>12, <1>n DEF LoopInv, EarlierDone
    <2>2. loops' # <<>>
      BY <1>4, <1>12
    <2> QED BY <2>1, <2>2, <1>5, <1>10, <1>12 DEF Unfinished
  <1>18. /\ DOMAIN acts' = DOMAIN acts \cup (IF More(w) THEN {Len(acts) + 1} ELSE {})
         /\ Len(acts) \in Nat /\ DOMAIN acts = 1..Len(acts)
         /\ \A a \in DOMAIN acts : acts'[a] = acts[a]
         /\ More(w) => acts'[Len(acts) + 1] = NewAct(n, old.index + 1)
    <2>1. acts \in Seq(Activities) /\ NewAct(n, old.index + 1) \in Activities
      BY <1>4, <1>5 DEF TypeOK, NewAct, Activities
    <2>2. Len(acts) \in Nat /\ DOMAIN acts = 1..Len(acts)
      BY <2>1
    <2>3. CASE More(w)
      BY <2>1, <2>2, <2>3, <1>11, AppendedRow
    <2>4. CASE ~More(w)
      BY <2>2, <2>4, <1>11
    <2> QED BY <2>3, <2>4
  <1>19. ASSUME More(w)
         PROVE  acts'[Len(acts) + 1].loop = n /\ acts'[Len(acts) + 1].counter = old.index + 1
                /\ acts'[Len(acts) + 1].state = "active"
    BY <1>18, <1>19 DEF NewAct
  <1>20. \A l : DoneActs(l)' = DoneActs(l)
    BY <1>18, <1>19 DEF DoneActs, LoopActs, Active
  <1>21. \A l : ~Advancing(l)'
    BY <1>15 DEF Advancing
  <1>22. ASSUME NEW l \in DOMAIN loops PROVE Counted(l)'
    <2>1. CASE l # n
      <3>1. LoopActs(l)' = LoopActs(l)
        BY <2>1, <1>18, <1>19 DEF LoopActs
      <3>2. ~Advancing(l)
        BY <2>1, <1>2, <1>3 DEF LoopInv, Exclusive, Advancing
      <3>3. Counted(l)
        BY DEF LoopInv, Counters
      <3>4. loops'[l] = loops[l] /\ Cardinality(LoopActs(l)') = Cardinality(LoopActs(l))
            /\ Cardinality(DoneActs(l)') = Cardinality(DoneActs(l))
        BY <2>1, <3>1, <1>12, <1>20
      <3> QED BY <3>2, <3>3, <3>4, <1>11, <1>21 DEF Counted, Started
    <2>2. CASE l = n
      <3>1. Cardinality(DoneActs(n)') = old.completed + 1
        BY <1>13, <1>20
      <3>2. Cardinality(LoopActs(n)') = Cardinality(LoopActs(n)) + (IF More(w) THEN 1 ELSE 0)
        <4>1. CASE More(w)
          <5>1. LoopActs(n)' = LoopActs(n) \cup {Len(acts) + 1}
            BY <4>1, <1>18, <1>19 DEF LoopActs
          <5>2. Len(acts) + 1 \notin LoopActs(n)
            BY <1>18 DEF LoopActs
          <5> QED BY <4>1, <5>1, <5>2, ActsFinite, FS_AddElement
        <4>2. CASE ~More(w)
          <5>1. LoopActs(n)' = LoopActs(n)
            BY <4>2, <1>18 DEF LoopActs
          <5> QED BY <4>2, <5>1, ActsFinite
        <4> QED BY <4>1, <4>2
      <3>3. Cardinality(LoopActs(n)) = IF setup.isSequential THEN old.completed + 1 ELSE old.total
        BY <1>5, <1>6, <1>7 DEF Counted, Started
      <3>4. Cardinality(LoopActs(n)') = Started(n)'
        BY <3>2, <3>3, <1>5, <1>7, <1>9, <1>11, <1>12 DEF Started
      <3> QED BY <2>2, <3>1, <3>4, <1>5, <1>7, <1>9, <1>10, <1>11, <1>12, <1>21 DEF Counted
    <2> QED BY <2>1, <2>2
  <1>23. Counters'
    BY <1>12, <1>22 DEF Counters
  <1>24. Listed'
    <2>1. ASSUME NEW a \in DOMAIN acts', NEW b \in DOMAIN acts', a < b
          PROVE  acts'[a].loop <= acts'[b].loop
      <3>1. a \in DOMAIN acts /\ acts'[a] = acts[a]
        BY <2>1, <1>18
      <3>2. CASE b \in DOMAIN acts
        BY <2>1, <3>1, <3>2, <1>18 DEF LoopInv, Listed
      <3>3. CASE b \notin DOMAIN acts
        <4>1. acts'[b].loop = n
          BY <3>3, <1>18, <1>19
        <4>2. acts[a].loop \in DOMAIN loops
          BY <3>1 DEF TypeOK
        <4> QED BY <3>1, <4>1, <4>2, <1>n, LoopFields
      <3> QED BY <3>2, <3>3
    <2>2. ASSUME setup.isSequential, NEW a \in DOMAIN acts'
          PROVE  acts'[a].counter <= loops'[acts'[a].loop].index
      <3>1. CASE a \in DOMAIN acts
        <4>1. /\ acts'[a] = acts[a] /\ acts[a].loop \in DOMAIN loops /\ acts[a].counter \in Nat
              /\ acts[a].counter <= loops[acts[a].loop].index
          BY <2>2, <3>1, <1>18, ActFields DEF LoopInv, Listed
        <4>2. CASE acts[a].loop # n
          BY <4>1, <4>2, <1>12
        <4>3. CASE acts[a].loop = n
          BY <4>1, <4>3, <1>5, <1>12
        <4> QED BY <4>2, <4>3
      <3>2. CASE a \notin DOMAIN acts
        <4>1. More(w) /\ a = Len(acts) + 1
          BY <3>2, <1>18
        <4>2. acts'[a].loop = n /\ acts'[a].counter = old.index + 1
          BY <4>1, <1>19
        <4>3. loops'[n].index = old.index + 1
          BY <4>1, <1>12
        <4> QED BY <4>2, <4>3, <1>5
      <3> QED BY <3>1, <3>2
    <2>3. Len(loops') > 1 => Len(loops') <= setup'.entries
      BY <1>11, <1>12, <1>n DEF LoopInv, Listed
    <2> QED BY <2>1, <2>2, <2>3, <1>11 DEF Listed
  <1>25. OneAfterTheOther'
    <2> SUFFICES ASSUME setup.isSequential, NEW a \in DOMAIN acts', NEW b \in DOMAIN acts',
                        a < b, acts'[a].loop = acts'[b].loop
                 PROVE  ~Active(a)' /\ acts'[a].counter < acts'[b].counter
      BY <1>11 DEF OneAfterTheOther
    <2>1. a \in DOMAIN acts /\ acts'[a] = acts[a]
      BY <1>18
    <2>2. CASE b \in DOMAIN acts
      BY <2>1, <2>2, <1>18 DEF LoopInv, OneAfterTheOther, Active
    <2>3. CASE b \notin DOMAIN acts
      <3>1. More(w) /\ b = Len(acts) + 1
        BY <2>3, <1>18
      <3>2. acts[a].loop = n /\ acts'[b].counter = old.index + 1
        BY <2>1, <3>1, <1>19
      <3>3. ~Active(a)
        BY <2>1, <3>1, <3>2, <1>14 DEF LoopActs
      <3>4. acts[a].counter <= old.index /\ acts[a].counter \in Nat
        BY <2>1, <3>2, ActFields DEF LoopInv, Listed
      <3> QED BY <2>1, <3>2, <3>3, <3>4, <1>5 DEF Active
    <2> QED BY <2>2, <2>3
  <1>26. Placed'
    <2>1. state = "running" /\ nexts = 0 /\ loops # <<>> /\ loops' # <<>>
      BY <1>2, <1>4, <1>12 DEF LoopInv, Placed, Unfinished
    <2>2. branch' <= setup'.branch
      BY <1>11 DEF LoopInv, Placed
    <2>3. ~Unfinished' => tokens' = 0
      BY <1>5, <1>9, <1>10, <1>11, <1>17
    <2>4. Unfinished' => nexts' = 0
      BY <2>1, <1>11, <1>17
    <2>5. Unfinished' /\ setup.branch = 1 => tokens' > 0
      <3>1. setup.branch = 1 => setup.isSequential
        BY DEF Careful, TypeOK
      <3> QED BY <3>1, <1>5, <1>9, <1>10, <1>11, <1>17 DEF TypeOK
    <2>6. nexts' <= 1
      BY <2>1, <1>11
    <2> QED BY <2>1, <2>2, <2>3, <2>4, <2>5, <2>6, <1>11 DEF Placed
  <1> QED BY <1>16, <1>17, <1>23, <1>24, <1>25, <1>26 DEF LoopInv

\* A loop is entered when no other is under way.
LEMMA LoopEntered ==
    ASSUME TypeOK, LoopInv, EnterLoop(0), ~Unfinished, lock = NoWorker, tokens = 0,
           UNCHANGED <<setup, requestVars>>, state' = "running", branch' <= setup.branch,
           Len(loops) > 0 => Len(loops) < setup.entries
    PROVE  LoopInv'
  <1>1. PICK count \in Counts : Entered(0, count)
    BY EnterLoopEffect
  <1>2. count \in Nat
    BY CountsAreNat
  <1>n. PICK n : n = Len(loops) + 1
    OBVIOUS
  <1>k. PICK k : k = FirstActs(count)
    OBVIOUS
  <1>m. PICK m : m = Len(acts)
    OBVIOUS
  <1>3. /\ FirstVariables(count) \in LoopVariables
        /\ FirstVariables(count).total = count
        /\ FirstVariables(count).active = count
        /\ FirstVariables(count).completed = 0
        /\ FirstVariables(count).index = 0
        /\ FirstVariables(count).passes = IF count = 0 THEN 1 ELSE 0
        /\ k \in Nat
    BY <1>2, <1>k, FirstType
  <1>4. /\ n \in Nat /\ Len(loops') = n /\ n \notin DOMAIN loops
        /\ DOMAIN loops' = DOMAIN loops \cup {n}
        /\ \A l \in DOMAIN loops : loops'[l] = loops[l] /\ l < n
        /\ loops'[n] = FirstVariables(count)
    <2>1. loops \in Seq(LoopVariables) /\ Len(loops) \in Nat /\ DOMAIN loops = 1..Len(loops)
      BY DEF TypeOK
    <2>2. loops' = Append(loops, FirstVariables(count))
      BY <1>1 DEF Entered
    <2> QED BY <2>1, <2>2, <1>3, <1>n, AppendedRow
  <1>5. /\ m \in Nat /\ DOMAIN acts = 1..m
        /\ DOMAIN acts' = 1..(m + k)
        /\ \A a \in DOMAIN acts : acts'[a] = acts[a] /\ acts'[a].loop \in DOMAIN loops
        /\ tokens' = k /\ nexts' = IF count = 0 THEN 1 ELSE 0
    <2>1. m \in Nat /\ DOMAIN acts = 1..m
      BY <1>m DEF TypeOK
    <2> QED BY <2>1, <1>1, <1>3, <1>k, <1>m, ActFields DEF Entered
  <1>6. ASSUME NEW a \in DOMAIN acts', a \notin DOMAIN acts
        PROVE  /\ a \in (m + 1)..(m + k)
               /\ acts'[a].loop = n /\ acts'[a].counter = a - m - 1 /\ acts'[a].state = "active"
    <2>1. a \in (m + 1)..(m + k)
      BY <1>3, <1>5, <1>6
    <2>2. acts'[a] = NewAct(n, a - m - 1)
      BY <2>1, <1>1, <1>k, <1>m, <1>n DEF Entered
    <2> QED BY <2>1, <2>2 DEF NewAct
  <1>7. \A w \in Workers : pc[w] # "advance"
    BY NobodyAdvances DEF LoopInv
  <1>8. /\ setup' = setup /\ lock' = NoWorker /\ pc' = pc /\ seen' = seen
    BY DEF requestVars
  <1>9. \A l : ~Advancing(l)' /\ ~Advancing(l)
    BY <1>7, <1>8 DEF Advancing
  <1>10. Unfinished' <=> count > 0
    <2>1. loops' # <<>>
      BY <1>4
    <2> QED BY <2>1, <1>2, <1>3, <1>4 DEF Unfinished
  <1>11. ASSUME NEW l \in DOMAIN loops' PROVE Counted(l)'
    <2>1. CASE l \in DOMAIN loops
      <3>1. l # n
        BY <2>1, <1>4
      <3>2. LoopActs(l)' = LoopActs(l)
        BY <3>1, <1>3, <1>5, <1>6 DEF LoopActs
      <3>3. DoneActs(l)' = DoneActs(l)
        BY <3>2, <1>5 DEF DoneActs, LoopActs, Active
      <3>4. Counted(l) /\ loops'[l] = loops[l]
        BY <2>1, <1>4 DEF LoopInv, Counters
      <3> QED BY <3>2, <3>3, <3>4, <1>8, <1>9 DEF Counted, Started
    <2>2. CASE l = n
      <3>1. LoopActs(n)' = (m + 1)..(m + k)
        BY <1>3, <1>4, <1>5, <1>6 DEF LoopActs
      <3>2. Cardinality((m + 1)..(m + k)) = k
        BY <1>3, <1>5, FS_Interval
      <3>3. DoneActs(n)' = {}
        BY <3>1, <1>3, <1>5, <1>6 DEF DoneActs, Active
      <3>4. Cardinality(DoneActs(n)') = 0
        BY <3>3, FS_EmptySet
      <3>5. k = IF setup.isSequential /\ count > 0 THEN 1 ELSE count
        BY <1>k DEF FirstActs
      <3>6. Cardinality(LoopActs(n)') = Started(n)'
        BY <3>1, <3>2, <3>5, <1>3, <1>4, <1>8 DEF Started
      <3> QED BY <2>2, <3>4, <3>6, <1>2, <1>3, <1>4, <1>8, <1>9 DEF Counted
    <2> QED BY <2>1, <2>2, <1>4
  <1>12. EarlierDone'
    <2> SUFFICES ASSUME NEW l \in DOMAIN loops PROVE loops[l].completed = loops[l].total
      BY <1>4 DEF EarlierDone
    <2>1. CASE l < Len(loops)
      BY <2>1 DEF LoopInv, EarlierDone
    <2>2. CASE l = Len(loops)
      <3>1. loops[l].completed <= loops[l].total
        BY DEF LoopInv, Counters, Counted
      <3> QED BY <2>2, <3>1, LoopFields DEF Unfinished
    <2> QED BY <2>1, <2>2, LoopFields
  <1>13. Exclusive'
    BY <1>7, <1>8 DEF Exclusive
  <1>14. Listed'
    <2>1. ASSUME NEW a \in DOMAIN acts', NEW b \in DOMAIN acts', a < b
          PROVE  acts'[a].loop <= acts'[b].loop
      <3>1. CASE b \in DOMAIN acts
        <4>1. a \in DOMAIN acts
          BY <2>1, <3>1, <1>5, <1>3
        <4> QED BY <2>1, <3>1, <4>1, <1>5 DEF LoopInv, Listed
      <3>2. CASE b \notin DOMAIN acts
        <4>1. acts'[b].loop = n
          BY <3>2, <1>6
        <4>2. acts'[a].loop \in DOMAIN loops \cup {n}
          BY <1>5, <1>6
        <4>3. \A l \in DOMAIN loops : l <= n
          BY <1>4, LoopFields
        <4> QED BY <4>1, <4>2, <4>3, <1>4
      <3> QED BY <3>1, <3>2
    <2>2. ASSUME setup.isSequential, NEW a \in DOMAIN acts'
          PROVE  acts'[a].counter <= loops'[acts'[a].loop].index
      <3>1. CASE a \in DOMAIN acts
        BY <2>2, <3>1, <1>4, <1>5 DEF LoopInv, Listed
      <3>2. CASE a \notin DOMAIN acts
        <4>1. a = m + 1
          BY <2>2, <3>2, <1>2, <1>3, <1>5, <1>6, <1>k DEF FirstActs
        <4> QED BY <3>2, <4>1, <1>3, <1>4, <1>5, <1>6
      <3> QED BY <3>1, <3>2
    <2>3. Len(loops') > 1 => Len(loops') <= setup.entries
      BY <1>4, <1>n, SetupType DEF TypeOK
    <2> QED BY <2>1, <2>2, <2>3, <1>8 DEF Listed
  <1>15. OneAfterTheOther'
    <2> SUFFICES ASSUME setup.isSequential, NEW a \in DOMAIN acts', NEW b \in DOMAIN acts',
                        a < b, acts'[a].loop = acts'[b].loop
                 PROVE  ~Active(a)' /\ acts'[a].counter < acts'[b].counter
      BY <1>8 DEF OneAfterTheOther
    <2>1. CASE b \in DOMAIN acts
      <3>1. a \in DOMAIN acts
        BY <2>1, <1>3, <1>5
      <3> QED BY <2>1, <3>1, <1>5 DEF LoopInv, OneAfterTheOther, Active
    <2>2. CASE b \notin DOMAIN acts
      <3>1. b \in (m + 1)..(m + k) /\ acts'[b].loop = n
        BY <2>2, <1>6
      <3>2. k <= 1
        BY <3>1, <1>2, <1>3, <1>5, <1>k DEF FirstActs
      <3>3. a \in DOMAIN acts
        BY <3>1, <3>2, <1>3, <1>5
      <3> QED BY <3>1, <3>3, <1>4, <1>5
    <2> QED BY <2>1, <2>2
  <1>16. Placed'
    <2>1. loops' # <<>>
      BY <1>4
    <2>2. count > 0 => k > 0
      BY <1>2, <1>k DEF FirstActs
    <2>3. count = 0 => k = 0
      BY <1>k DEF FirstActs
    <2> QED BY <2>1, <2>2, <2>3, <1>2, <1>5, <1>8, <1>10 DEF Placed
  <1> QED BY <1>11, <1>12, <1>13, <1>14, <1>15, <1>16 DEF LoopInv, Counters

\* when the process starts,
LEMMA LoopStart == Careful /\ TypeOK /\ LoopInv /\ StartProcessInstance => LoopInv'
  <1> SUFFICES ASSUME Careful, TypeOK, LoopInv, StartProcessInstance PROVE LoopInv'
    OBVIOUS
  <1>1. /\ state = "new" /\ state' = "running" /\ branch' = setup.branch
        /\ EnterLoop(0) /\ UNCHANGED <<setup, requestVars>>
    BY DEF StartProcessInstance
  <1>2. loops = <<>> /\ tokens = 0 /\ ~Unfinished
    BY <1>1 DEF LoopInv, Placed, Unfinished
  <1>3. lock = NoWorker
    BY <1>2 DEF LoopInv, Exclusive, TypeOK
  <1>4. branch' <= setup.branch
    BY <1>1, SetupType DEF TypeOK
  <1>5. ~(Len(loops) > 0)
    BY <1>2
  <1> QED BY <1>1, <1>2, <1>3, <1>4, <1>5, LoopEntered

\* when the process goes back to the loop or ends,
LEMMA LoopCompleteNext == Careful /\ TypeOK /\ LoopInv /\ CompleteNext => LoopInv'
  <1> SUFFICES ASSUME Careful, TypeOK, LoopInv, CompleteNext PROVE LoopInv'
    OBVIOUS
  <1>1. nexts = 1 /\ UNCHANGED <<setup, branch, requestVars>>
    BY DEF CompleteNext, LoopInv, Placed, TypeOK
  <1>2. lock = NoWorker
    BY DEF CompleteNext, Free, Careful, TypeOK
  <1>3. ~Unfinished /\ state # "new" /\ loops # <<>> /\ tokens = 0
    BY <1>1 DEF LoopInv, Placed
  <1>4. CASE nexts' = nexts - 1 /\ UNCHANGED <<acts, tokens, loops>>
             /\ (state' = state \/ (state' = "completed" /\ tokens + (nexts - 1) + branch = 0))
    <2>1. pc' = pc /\ seen' = seen /\ lock' = lock
      BY <1>1 DEF requestVars
    <2>2. /\ Counters' /\ EarlierDone' /\ Exclusive' /\ Listed' /\ OneAfterTheOther'
          /\ ~Unfinished'
      BY <2>1, <1>1, <1>3, <1>4, SameLoops
    <2>3. nexts' = 0 /\ branch \in {0, 1}
      BY <1>1, <1>4 DEF TypeOK
    <2>4. state' = "completed" => branch' = 0
      BY <2>3, <1>1, <1>3, <1>4 DEF LoopInv, Placed
    <2>5. Placed'
      BY <2>2, <2>3, <2>4, <1>1, <1>3, <1>4 DEF LoopInv, Placed
    <2> QED BY <2>2, <2>5 DEF LoopInv
  <1>5. CASE state = "running" /\ Len(loops) < setup.entries /\ EnterLoop(nexts - 1) /\ state' = state
    <2>1. EnterLoop(0)
      BY <1>1, <1>5
    <2>2. branch' <= setup.branch
      BY <1>1 DEF LoopInv, Placed
    <2> QED BY <2>1, <2>2, <1>1, <1>2, <1>3, <1>5, LoopEntered
  <1> QED BY <1>4, <1>5 DEF CompleteNext, checkComplete

\* when the other branch ends,
LEMMA LoopFinishBranch == Careful /\ TypeOK /\ LoopInv /\ FinishBranch => LoopInv'
  <1> SUFFICES ASSUME Careful, TypeOK, LoopInv, FinishBranch PROVE LoopInv'
    OBVIOUS
  <1>1. /\ branch > 0 /\ branch' = 0 /\ state = "running"
        /\ UNCHANGED <<setup, acts, tokens, loops, nexts>> /\ pc' = pc /\ seen' = seen /\ lock' = lock
        /\ state' = IF tokens + nexts + 0 = 0 THEN "completed" ELSE state
    BY DEF FinishBranch, checkComplete, requestVars
  <1>2. lock = NoWorker
    BY DEF FinishBranch, Free, Careful, TypeOK
  <1>3. setup.branch = 1
    BY <1>1, SetupType DEF LoopInv, Placed, TypeOK
  <1>4. /\ Counters' /\ EarlierDone' /\ Exclusive' /\ Listed' /\ OneAfterTheOther'
        /\ Unfinished' <=> Unfinished
    BY <1>1, SameLoops
  <1>5. Unfinished => tokens > 0
    BY <1>2, <1>3 DEF LoopInv, Placed
  <1>6. state' = "completed" => ~Unfinished /\ nexts = 0
    BY <1>1, <1>5 DEF TypeOK
  <1>7. Placed'
    BY <1>1, <1>3, <1>4, <1>6 DEF LoopInv, Placed
  <1> QED BY <1>4, <1>7 DEF LoopInv

\* and after every step.
LEMMA LoopStep == Careful /\ TypeOK /\ LoopInv /\ [Next]_vars => LoopInv'
  <1> SUFFICES ASSUME Careful, TypeOK, LoopInv, [Next]_vars PROVE LoopInv'
    OBVIOUS
  <1>1. CASE StartProcessInstance
    BY <1>1, LoopStart
  <1>2. ASSUME NEW w \in Workers, pc[w] # "advance", pc'[w] # "advance",
               \A v \in Workers : v # w => pc'[v] = pc[v],
               UNCHANGED <<setup, acts, tokens, loops, nexts, branch, state, seen, lock>>
        PROVE  LoopInv'
    <2>1. /\ Counters' /\ EarlierDone' /\ Exclusive' /\ Listed' /\ OneAfterTheOther'
          /\ Unfinished' <=> Unfinished
      BY <1>2, SameLoops
    <2>2. Placed'
      BY <2>1, <1>2 DEF LoopInv, Placed
    <2> QED BY <2>1, <2>2 DEF LoopInv
  <1>3. ASSUME NEW w \in Workers, NEW a \in DOMAIN acts, GetActivityInstance(w, a) PROVE LoopInv'
    BY <1>2, <1>3 DEF GetActivityInstance, TypeOK
  <1>4. ASSUME NEW w \in Workers, Conflict(w) PROVE LoopInv'
    BY <1>2, <1>4 DEF Conflict, TypeOK
  <1>5. ASSUME NEW w \in Workers, CompleteTask(w) PROVE LoopInv'
    BY <1>5, LoopCompleteTask
  <1>6. ASSUME NEW w \in Workers, advanceMultiInstance(w) PROVE LoopInv'
    BY <1>6, LoopAdvance
  <1>7. CASE CompleteNext
    BY <1>7, LoopCompleteNext
  <1>8. CASE FinishBranch
    BY <1>8, LoopFinishBranch
  <1>9. CASE UNCHANGED vars
    <2>1. /\ Counters' /\ EarlierDone' /\ Exclusive' /\ Listed' /\ OneAfterTheOther'
          /\ Unfinished' <=> Unfinished
      BY <1>9, SameLoops DEF vars
    <2>2. Placed'
      BY <2>1, <1>9 DEF LoopInv, Placed, vars
    <2> QED BY <2>1, <2>2 DEF LoopInv
  <1> QED BY <1>1, <1>3, <1>4, <1>5, <1>6, <1>7, <1>8, <1>9 DEF Next, Completing, Serving

\* LoopInv in every state.
LEMMA LoopInvariant == ASSUME Careful PROVE Spec => [](TypeOK /\ LoopInv)
  <1>1. Init => TypeOK /\ LoopInv
    BY TypeInit, LoopInit
  <1>2. TypeOK /\ LoopInv /\ [Next]_vars => (TypeOK /\ LoopInv)'
    BY TypeStep, LoopStep
  <1> QED BY <1>1, <1>2, PTL DEF Spec

-----------------------------------------------------------------------------
(* What follows *)

\* Whatever workers complete at the same time, the process goes on from a loop
\* once, and then no activity of it is open (multi_instance.go
\* advanceMultiInstance): the counters it decides by cannot be read twice.
THEOREM LoopsPassOnce == ASSUME Careful PROVE Spec => []LoopPassesOnce
  <1>1. TypeOK /\ LoopInv => LoopPassesOnce
    <2> SUFFICES ASSUME TypeOK, LoopInv, NEW l \in DOMAIN loops
                 PROVE  /\ loops[l].passes <= 1
                        /\ loops[l].passes = 1 => \A a \in LoopActs(l) : ~Active(a)
      BY DEF LoopPassesOnce
    <2>1. loops[l].passes = IF loops[l].completed = loops[l].total THEN 1 ELSE 0
      BY DEF LoopInv, Counters, Counted
    <2> QED BY <2>1, CountedDone
  <1> QED BY <1>1, LoopInvariant, PTL

\* A sequential loop has one open activity at a time, and starts each index
\* once (multi_instance.go startSequentialInstance).
THEOREM InstancesInTurn == ASSUME Careful PROVE Spec => []OneAfterTheOther
  <1>1. TypeOK /\ LoopInv => OneAfterTheOther
    BY DEF LoopInv
  <1> QED BY <1>1, LoopInvariant, PTL

\* While no completion is under way the counters in the variables are the
\* numbers of the activities they stand for: none is lost or counted twice.
THEOREM CountersCorrect == ASSUME Careful PROVE Spec => []CountersAgree
  <1>1. TypeOK /\ LoopInv => CountersAgree
    <2> SUFFICES ASSUME TypeOK, LoopInv, \A w \in Workers : pc[w] # "advance", NEW l \in DOMAIN loops
                 PROVE  /\ loops[l].completed = Cardinality({a \in LoopActs(l) : ~Active(a)})
                        /\ loops[l].active = loops[l].total - loops[l].completed
      BY DEF CountersAgree
    <2>1. Counted(l) /\ ~Advancing(l)
      BY DEF LoopInv, Counters, Advancing
    <2> QED BY <2>1, LoopFields DEF Counted, DoneActs
  <1> QED BY <1>1, LoopInvariant, PTL

\* An instance that has ended has nothing left to do (navigator.go
\* handleEndEvent): the count of tokens never misses an open activity.
THEOREM EndsClean == ASSUME Careful PROVE Spec => []EndsWithNothingOpen
  <1>1. TypeOK /\ LoopInv => EndsWithNothingOpen
    <2> SUFFICES ASSUME TypeOK, LoopInv, state = "completed"
                 PROVE  nexts = 0 /\ branch = 0 /\ \A a \in DOMAIN acts : ~Active(a)
      BY DEF EndsWithNothingOpen
    <2>1. nexts = 0 /\ branch = 0 /\ ~Unfinished
      BY DEF LoopInv, Placed
    <2> QED BY <2>1, OpenIsLast
  <1> QED BY <1>1, LoopInvariant, PTL

-----------------------------------------------------------------------------
(* The loop implements Countdown *)

Left == IF loops = <<>> THEN 0 ELSE loops[Len(loops)].total - loops[Len(loops)].completed
PassedLoops == {l \in DOMAIN loops : loops[l].passes > 0}

\* Completions can be counted.
LEMMA PassedFinite ==
    ASSUME TypeOK
    PROVE  IsFiniteSet(PassedLoops) /\ Cardinality(PassedLoops) \in Nat
  <1>1. DOMAIN loops = 1..Len(loops) /\ Len(loops) \in Nat
    BY DEF TypeOK
  <1>2. PassedLoops \in SUBSET DOMAIN loops
    BY DEF PassedLoops
  <1>3. IsFiniteSet(DOMAIN loops)
    BY <1>1, FS_Interval
  <1>4. IsFiniteSet(PassedLoops)
    BY <1>2, <1>3, FS_Subset
  <1> QED BY <1>4, FS_CardinalityType

\* While the loops stay as they are, Countdown stutters.
LEMMA SameLoopsStutter ==
    ASSUME loops' = loops
    PROVE  UNCHANGED Abstract!vars
  BY DEF Abstract!vars

\* Entering the loop is Enter(count).
LEMMA EnterRefines ==
    ASSUME TypeOK, LoopInv, ~Unfinished, NEW others \in Nat, EnterLoop(others)
    PROVE  \E count \in Counts : Abstract!Enter(count)
  <1>1. PICK count \in Counts : Entered(others, count)
    BY EnterLoopEffect
  <1>n. PICK n : n = Len(loops) + 1
    OBVIOUS
  <1>2. count \in Nat
    BY CountsAreNat
  <1>3. /\ FirstVariables(count) \in LoopVariables
        /\ FirstVariables(count).total = count
        /\ FirstVariables(count).completed = 0
        /\ FirstVariables(count).passes = IF count = 0 THEN 1 ELSE 0
    BY <1>2, FirstType
  <1>4. /\ Len(loops') = n /\ loops' # <<>> /\ n \notin DOMAIN loops
        /\ DOMAIN loops' = DOMAIN loops \cup {n}
        /\ \A l \in DOMAIN loops : loops'[l] = loops[l]
        /\ loops'[n] = FirstVariables(count)
    <2>1. loops \in Seq(LoopVariables) /\ Len(loops) \in Nat /\ DOMAIN loops = 1..Len(loops)
      BY DEF TypeOK
    <2>2. loops' = Append(loops, FirstVariables(count))
      BY <1>1 DEF Entered
    <2> QED BY <2>1, <2>2, <1>3, <1>n, AppendedRow
  <1>5. Left = 0
    <2>1. CASE loops = <<>>
      BY <2>1 DEF Left
    <2>2. CASE loops # <<>>
      <3>1. Len(loops) \in DOMAIN loops
        BY <2>2 DEF TypeOK
      <3>2. loops[Len(loops)].completed <= loops[Len(loops)].total
        BY <3>1 DEF LoopInv, Counters, Counted
      <3> QED BY <2>2, <3>1, <3>2, LoopFields DEF Left, Unfinished
    <2> QED BY <2>1, <2>2
  <1>6. Left' = count
    BY <1>2, <1>3, <1>4 DEF Left
  <1>7. PassedLoops' = IF count = 0 THEN PassedLoops \cup {n} ELSE PassedLoops
    BY <1>3, <1>4 DEF PassedLoops
  <1>8. n \notin PassedLoops
    BY <1>4 DEF PassedLoops
  <1>9. Cardinality(PassedLoops') = IF count = 0 THEN Cardinality(PassedLoops) + 1 ELSE Cardinality(PassedLoops)
    BY <1>7, <1>8, PassedFinite, FS_AddElement
  <1> QED BY <1>5, <1>6, <1>9 DEF Abstract!Enter, Left, PassedLoops

\* An advance is Count.
LEMMA AdvanceRefines ==
    ASSUME Careful, TypeOK, LoopInv, NEW w \in Workers, advanceMultiInstance(w)
    PROVE  Abstract!Count
  <1>n. PICK n : n = Len(loops)
    OBVIOUS
  <1>1. /\ n \in DOMAIN loops /\ Unfinished
        /\ Len(loops') = n /\ DOMAIN loops' = DOMAIN loops
        /\ \A l \in DOMAIN loops : l # n => loops'[l] = loops[l]
        /\ loops'[n].total = loops[n].total
        /\ loops'[n].completed = loops[n].completed + 1
        /\ loops[n].passes = 0
        /\ loops'[n].passes = IF loops[n].completed + 1 = loops[n].total THEN 1 ELSE 0
    <2>1. Advanced(w, seen[w].loop) /\ LoopInv'
      BY AdvanceEffect, LoopAdvance
    <2>2. seen[w] = Variables(n) /\ Unfinished
      BY <2>1, <1>n DEF Advanced, LoopInv, Exclusive
    <2>3. seen[w].loop = n /\ seen[w].read = loops[n]
      BY <2>2 DEF Variables
    <2>4. n \in DOMAIN loops /\ loops \in Seq(LoopVariables) /\ loops' = [loops EXCEPT ![n] = AdvancedLoop(w, n)]
      BY <2>1, <2>3 DEF Advanced, TypeOK
    <2>5. /\ Len(loops') = n /\ DOMAIN loops' = DOMAIN loops
          /\ \A l \in DOMAIN loops : l # n => loops'[l] = loops[l]
          /\ loops'[n] = AdvancedLoop(w, n)
      BY <2>4, <1>n
    <2>6. loops'[n].total = loops[n].total /\ loops'[n].completed = loops[n].completed + 1
      BY <2>3, <2>5 DEF AdvancedLoop
    <2>7. loops[n].passes = 0
      BY <2>2, <2>4, <1>n, LoopFields DEF LoopInv, Counters, Counted, Unfinished
    <2>8. loops'[n].passes = IF loops'[n].completed = loops'[n].total THEN 1 ELSE 0
      BY <2>1, <2>4, <2>5 DEF LoopInv, Counters, Counted
    <2> QED BY <2>2, <2>4, <2>5, <2>6, <2>7, <2>8
  <1>2. loops # <<>> /\ loops' # <<>>
    BY <1>1 DEF Unfinished
  <1>3. loops[n].total \in Nat /\ loops[n].completed \in Nat
    BY <1>1, LoopFields
  <1>4. /\ Left > 0 /\ Left' = Left - 1
        /\ Left = 1 <=> loops[n].completed + 1 = loops[n].total
    BY <1>1, <1>2, <1>3, <1>n DEF Left, Unfinished
  <1>5. PassedLoops' = IF Left = 1 THEN PassedLoops \cup {n} ELSE PassedLoops
    BY <1>1, <1>4 DEF PassedLoops
  <1>6. n \notin PassedLoops
    BY <1>1 DEF PassedLoops
  <1>7. Cardinality(PassedLoops') = IF Left = 1 THEN Cardinality(PassedLoops) + 1 ELSE Cardinality(PassedLoops)
    BY <1>5, <1>6, PassedFinite, FS_AddElement
  <1> QED BY <1>4, <1>7 DEF Abstract!Count, Left, PassedLoops

\* Every step is a step of Countdown or stutters.
LEMMA StepRefines ==
    ASSUME Careful, TypeOK, LoopInv, [Next]_vars
    PROVE  [Abstract!Next]_(Abstract!vars)
  <1>1. CASE StartProcessInstance
    <2>1. ~Unfinished /\ EnterLoop(0)
      BY <1>1 DEF StartProcessInstance, LoopInv, Placed, Unfinished
    <2> QED BY <2>1, EnterRefines DEF Abstract!Next
  <1>2. ASSUME NEW w \in Workers, advanceMultiInstance(w) PROVE Abstract!Next
    BY <1>2, AdvanceRefines DEF Abstract!Next
  <1>3. CASE CompleteNext
    <2>1. nexts - 1 \in Nat /\ ~Unfinished
      BY <1>3 DEF CompleteNext, LoopInv, Placed, TypeOK
    <2>2. CASE EnterLoop(nexts - 1)
      BY <2>1, <2>2, EnterRefines DEF Abstract!Next
    <2>3. CASE loops' = loops
      BY <2>3, SameLoopsStutter
    <2> QED BY <1>3, <2>2, <2>3 DEF CompleteNext
  <1>4. CASE loops' = loops
    BY <1>4, SameLoopsStutter
  <1>5. ASSUME NEW w \in Workers, NEW a \in DOMAIN acts, GetActivityInstance(w, a) PROVE loops' = loops
    BY <1>5 DEF GetActivityInstance
  <1>6. ASSUME NEW w \in Workers, Conflict(w) \/ CompleteTask(w) PROVE loops' = loops
    BY <1>6 DEF Conflict, CompleteTask
  <1>7. FinishBranch \/ UNCHANGED vars => loops' = loops
    BY DEF FinishBranch, vars
  <1> QED BY <1>1, <1>2, <1>3, <1>4, <1>5, <1>6, <1>7 DEF Next, Completing, Serving

\* The loop does what Countdown promises: every completion counts once, and
\* with the last one, and not before, the process goes on, once.
THEOREM LoopImplementsCountdown == ASSUME Careful PROVE Spec => ImplementsCountdown
  <1>1. Init => Abstract!Init
    <2> SUFFICES ASSUME Init PROVE Abstract!Init
      OBVIOUS
    <2>1. loops = <<>> /\ PassedLoops = {}
      BY DEF Init, PassedLoops
    <2> QED BY <2>1, FS_EmptySet DEF Abstract!Init, PassedLoops
  <1>2. TypeOK /\ LoopInv /\ [Next]_vars => [Abstract!Next]_(Abstract!vars)
    BY StepRefines
  <1> QED BY <1>1, <1>2, LoopInvariant, PTL DEF Spec, ImplementsCountdown, Abstract!Spec

=============================================================================
