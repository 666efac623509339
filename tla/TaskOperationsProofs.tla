------------------------ MODULE TaskOperationsProofs ------------------------
(***************************************************************************)
(* Delegation, rework and timeouts, write by write: any sequential process,  *)
(* any number of instances, workers and requests, without signers.           *)
(***************************************************************************)
EXTENDS TaskOperations, FiniteSetTheorems, TLAPS

-----------------------------------------------------------------------------
(* What is assumed of clients and of processes *)

\* Nobody adds signers.
NoSigns == \A u \in Usages : u.kinds \cap {"and", "or"} = {}

\* Requests that move a token are not cut off; those that go on although the
\* task has changed come one after the other.
Orderly ==
    \A u \in Usages :
        /\ "crash" \in u.kinds => u.kinds \cap {"reject", "jump", "reclaim"} = {}
        /\ u.kinds \cap {"reject", "reclaim"} # {} => u.serial

\* Jumps lead to where a token waits or ends, and an end event has no flow that
\* could fail.
TargetsWait ==
    /\ \A e \in JumpTargets : ElementType[e] \in WaitTypes
    /\ \A e \in Broken : e \in Elements => ElementType[e] # "endEvent"

-----------------------------------------------------------------------------
(* Rows *)

Activity ==
    [inst : Instances, element : Elements, state : {"active", "completed"}, parent : {0},
     delegated : BOOLEAN, term : 0..2, version : Nat]

Place == Elements \cup {NoElement}

\* The rows there are without signers.
Rows ==
    [acts : Seq(Activity), tokens : [Instances -> [Elements -> Nat]], sessions : {{}},
     rejections : [Instances -> Nat], recent : [Instances -> [last : Place, before : Place]],
     state : [Instances -> {"new", "running", "completed", "rejected"}]]

ActiveIn(d, i) == {a \in DOMAIN d.acts : d.acts[a].inst = i /\ d.acts[a].state = "active"}

\* The only token of an instance, or none.
TokenAt(d, i, e) == d.tokens[i] = [x \in Elements |-> IF x = e THEN 1 ELSE 0]
NoToken(d, i) == d.tokens[i] = [x \in Elements |-> 0]

\* An instance nobody is working on: one task with its token, or nothing at all.
Rests(d, i) ==
    /\ d.state[i] = "running"
    /\ \E a \in DOMAIN d.acts : ActiveIn(d, i) = {a} /\ TokenAt(d, i, d.acts[a].element)

Over(d, i) == d.state[i] # "running" /\ ActiveIn(d, i) = {} /\ NoToken(d, i)

Settled(d, i) == Rests(d, i) \/ Over(d, i)

-----------------------------------------------------------------------------
(* Writes *)

StoreCalls ==
         [op : {"complete"}, act : Nat, version : Nat, strict : BOOLEAN]
    \cup [op : {"reassign"}, act : Nat, version : Nat, strict : {TRUE}, field : {"assignee", "term"}, value : 0..2]
    \cup [op : {"delegate"}, act : Nat, value : BOOLEAN]
    \cup [op : {"consume", "token", "navigate"}, inst : Instances, element : Elements]
    \cup [op : {"drain", "reject"}, inst : Instances]
    \cup [op : {"activity"}, inst : Instances, element : Elements, parent : {0}]
    \cup [op : {"signs", "sessions"}, act : Nat \ {0}]
    \cup [op : {"rejection"}, inst : Instances, count : Nat]

\* Writes that leave tokens, states and the set of open tasks alone.
Loose == {"delegate", "signs", "sessions", "rejection"}
Harmless == Loose \cup {"reassign"}
Moves == {"consume", "token", "navigate", "drain", "reject", "activity"}

\* What follows the token a request puts at t.
Lands(x, i, t) ==
    \/ x = [op |-> "activity", inst |-> i, element |-> t, parent |-> 0]
    \/ x = At("navigate", i, t) /\ ElementType[t] = "endEvent"

\* From the n-th write on, s puts one token somewhere in i and lets it land.
Goes(s, n, i) ==
    \E k \in n..(Len(s) - 1), t \in Elements :
        /\ s[k] = At("token", i, t)
        /\ Lands(s[k + 1], i, t)
        /\ \A j \in n..Len(s) : (j # k /\ j # k + 1) => s[j].op \in Loose

Drain(i) == [op |-> "drain", inst |-> i]
Reject(i) == [op |-> "reject", inst |-> i]

\* From the n-th write on, s ends instance i.
Drops(s, n, i) ==
    Len(s) = n + 1 /\ s[n] = Drain(i) /\ s[n + 1] = Reject(i)

Quiet(s) == \A k \in 1..Len(s) : s[k].op \in Harmless

\* A request on task a has still to complete it: if it finds the version it has
\* read the task is open, and requests in turn find it.
Armed(d, s, serial) ==
    /\ Len(s) >= 3
    /\ s[1].op = "complete"
    /\ s[1].act \in DOMAIN d.acts
    /\ s[1].version <= d.acts[s[1].act].version
    /\ s[1].version = d.acts[s[1].act].version => d.acts[s[1].act].state = "active"
    /\ s[1].strict \/ serial
    /\ serial => s[1].version = d.acts[s[1].act].version
    /\ \/ /\ s[2] = At("consume", d.acts[s[1].act].inst, d.acts[s[1].act].element)
          /\ Goes(s, 3, d.acts[s[1].act].inst)
       \/ Drops(s, 2, d.acts[s[1].act].inst)

\* The phases of a request that has completed a task of i.
Consuming(s, i, e) == Len(s) >= 1 /\ s[1] = At("consume", i, e) /\ Goes(s, 2, i)
Landing(s, i, t) == Len(s) >= 1 /\ Lands(s[1], i, t) /\ \A j \in 2..Len(s) : s[j].op \in Loose
Rejecting(s, i) == Len(s) = 1 /\ s[1] = Reject(i)

Away(s, i) ==
    \/ \E e \in Elements : Consuming(s, i, e)
    \/ Goes(s, 1, i)
    \/ \E t \in Elements : Landing(s, i, t)
    \/ Drops(s, 1, i)
    \/ Rejecting(s, i)

\* The instance has no open task, and its token is where the phase says.
Moving(d, s, i) ==
    /\ d.state[i] = "running" /\ ActiveIn(d, i) = {}
    /\ \/ \E e \in Elements : Consuming(s, i, e) /\ TokenAt(d, i, e)
       \/ Goes(s, 1, i) /\ NoToken(d, i)
       \/ \E t \in Elements : Landing(s, i, t) /\ TokenAt(d, i, t)
       \/ Drops(s, 1, i)
       \/ Rejecting(s, i) /\ NoToken(d, i)

-----------------------------------------------------------------------------
(* The inductive invariant, of rows d, requests f and the use u of the engine *)

\* Writes name activities that exist.
Knows(d, s) ==
    \A k \in 1..Len(s) : s[k].op \in {"complete", "reassign", "delegate"} => s[k].act \in DOMAIN d.acts

\* Requests in turn are served one at a time, and no request that could be cut
\* off moves a token.
OneBusy(f, u) ==
    /\ u.serial => \A v, w \in Workers : (f[v] # <<>> /\ f[w] # <<>>) => v = w
    /\ "crash" \in u.kinds => \A w \in Workers : Quiet(f[w])

\* A request has a task to complete, or moves a token, or does no harm.
Shapes(d, f, u) ==
    \A w \in Workers : Quiet(f[w]) \/ Armed(d, f[w], u.serial) \/ \E i \in Instances : Away(f[w], i)

\* The token is where the request has left it, and nobody else moves it.
Placed(d, f) ==
    /\ \A w \in Workers, i \in Instances : Away(f[w], i) => Moving(d, f[w], i)
    /\ \A v, w \in Workers, i \in Instances : (Away(f[v], i) /\ Away(f[w], i)) => v = w

\* Every instance rests, or is over, or somebody moves its token.
Attended(d, f) == \A i \in Instances : Settled(d, i) \/ \E w \in Workers : Away(f[w], i)

Orders(d, f, u) ==
    /\ d \in Rows /\ f \in [Workers -> Seq(StoreCalls)] /\ u \in Usages
    /\ \A w \in Workers : Knows(d, f[w])
    /\ OneBusy(f, u) /\ Shapes(d, f, u) /\ Placed(d, f) /\ Attended(d, f)

SweepInv ==
    /\ sweep \in [left : SUBSET Instances, acts : Seq(Nat)]
    /\ \A k \in 1..Len(sweep.acts) : sweep.acts[k] \in DOMAIN db.acts

Inv == Orders(db, todo, usage) /\ SweepInv

-----------------------------------------------------------------------------
(* The shapes of requests *)

LEMMA TailFacts ==
    ASSUME NEW s \in Seq(StoreCalls), s # <<>>
    PROVE  /\ Tail(s) \in Seq(StoreCalls) /\ Len(s) \in Nat /\ Len(s) >= 1
           /\ Head(s) = s[1] /\ s[1] \in StoreCalls
           /\ Len(Tail(s)) = Len(s) - 1
           /\ \A k \in 1..(Len(s) - 1) : Tail(s)[k] = s[k + 1]
  OBVIOUS

LEMMA TailQuiet ==
    ASSUME NEW s \in Seq(StoreCalls), s # <<>>, Quiet(s)
    PROVE  Quiet(Tail(s)) /\ s[1].op \in Harmless
  BY TailFacts DEF Quiet

\* A request that has nothing to do is quiet.
LEMMA EmptyQuiet == Quiet(<<>>)
  BY DEF Quiet

LEMMA OpNames ==
    ASSUME NEW i, NEW t
    PROVE  /\ At("token", i, t).op = "token"
           /\ At("consume", i, t).op = "consume"
           /\ At("navigate", i, t).op = "navigate"
           /\ [op |-> "activity", inst |-> i, element |-> t, parent |-> 0].op = "activity"
           /\ Drain(i).op = "drain"
           /\ Reject(i).op = "reject"
           /\ Drain(i).inst = i /\ Reject(i).inst = i
  BY DEF At, Drain, Reject

LEMMA GoesTail ==
    ASSUME NEW s \in Seq(StoreCalls), s # <<>>, NEW n \in Nat, n >= 1, NEW i, Goes(s, n + 1, i)
    PROVE  Goes(Tail(s), n, i)
  <1>1. PICK k \in (n + 1)..(Len(s) - 1), t \in Elements :
           /\ s[k] = At("token", i, t)
           /\ Lands(s[k + 1], i, t)
           /\ \A j \in (n + 1)..Len(s) : (j # k /\ j # k + 1) => s[j].op \in Loose
    BY DEF Goes
  <1>2. /\ Len(Tail(s)) = Len(s) - 1 /\ Len(s) \in Nat
        /\ \A m \in 1..(Len(s) - 1) : Tail(s)[m] = s[m + 1]
    BY TailFacts
  <1>3. k - 1 \in n..(Len(Tail(s)) - 1) /\ k - 1 \in 1..(Len(s) - 1) /\ k \in 1..(Len(s) - 1)
    BY <1>1, <1>2
  <1>4. Tail(s)[k - 1] = At("token", i, t) /\ Lands(Tail(s)[(k - 1) + 1], i, t)
    BY <1>1, <1>2, <1>3
  <1>5. ASSUME NEW j \in n..Len(Tail(s)), j # k - 1, j # (k - 1) + 1
        PROVE  Tail(s)[j].op \in Loose
    <2>1. j + 1 \in (n + 1)..Len(s) /\ j + 1 # k /\ j + 1 # k + 1 /\ j \in 1..(Len(s) - 1)
      BY <1>2, <1>3, <1>5
    <2> QED BY <1>1, <1>2, <2>1
  <1> QED BY <1>3, <1>4, <1>5 DEF Goes

\* What a request that goes writes next.
LEMMA GoesNext ==
    ASSUME NEW s \in Seq(StoreCalls), NEW i, Goes(s, 1, i)
    PROVE  /\ s # <<>>
           /\ \/ s[1].op \in Loose /\ Goes(Tail(s), 1, i)
              \/ \E t \in Elements : s[1] = At("token", i, t) /\ Landing(Tail(s), i, t)
  <1>1. PICK k \in 1..(Len(s) - 1), t \in Elements :
           /\ s[k] = At("token", i, t)
           /\ Lands(s[k + 1], i, t)
           /\ \A j \in 1..Len(s) : (j # k /\ j # k + 1) => s[j].op \in Loose
    BY DEF Goes
  <1>2. Len(s) \in Nat /\ s # <<>> /\ Len(s) >= 2
    BY <1>1
  <1>3. /\ Len(Tail(s)) = Len(s) - 1
        /\ \A m \in 1..(Len(s) - 1) : Tail(s)[m] = s[m + 1]
    BY <1>2, TailFacts
  <1>4. CASE k = 1
    <2>1. s[1] = At("token", i, t) /\ Len(Tail(s)) >= 1 /\ Lands(Tail(s)[1], i, t)
      BY <1>1, <1>2, <1>3, <1>4
    <2>2. \A j \in 2..Len(Tail(s)) : Tail(s)[j].op \in Loose
      BY <1>1, <1>2, <1>3, <1>4
    <2> QED BY <1>2, <2>1, <2>2 DEF Landing
  <1>5. CASE k # 1
    <2>1. s[1].op \in Loose
      BY <1>1, <1>2, <1>5
    <2>2. k \in (1 + 1)..(Len(s) - 1) /\ \A j \in (1 + 1)..Len(s) : j \in 1..Len(s)
      BY <1>1, <1>5
    <2>3. Goes(s, 1 + 1, i)
      BY <1>1, <2>2 DEF Goes
    <2> QED BY <1>2, <2>1, <2>3, GoesTail
  <1> QED BY <1>4, <1>5

LEMMA QuietNotAway ==
    ASSUME NEW s \in Seq(StoreCalls), NEW i, Quiet(s)
    PROVE  ~Away(s, i)
  <1>1. Len(s) \in Nat
    OBVIOUS
  <1>2. ~Goes(s, 1, i)
    BY <1>1, OpNames DEF Quiet, Goes, Harmless, Loose
  <1>3. \A e \in Elements : ~Consuming(s, i, e)
    BY <1>1, OpNames DEF Quiet, Consuming, Harmless, Loose
  <1>4. \A t \in Elements : ~Landing(s, i, t)
    BY <1>1, OpNames DEF Quiet, Landing, Lands, Harmless, Loose
  <1>5. ~Drops(s, 1, i) /\ ~Rejecting(s, i)
    BY <1>1, OpNames DEF Quiet, Drops, Rejecting, Harmless, Loose
  <1> QED BY <1>2, <1>3, <1>4, <1>5 DEF Away

LEMMA ArmedNotAway ==
    ASSUME NEW s \in Seq(StoreCalls), NEW i, s # <<>>, s[1].op = "complete"
    PROVE  ~Away(s, i) /\ ~Quiet(s)
  <1>1. Len(s) \in Nat /\ Len(s) >= 1
    BY TailFacts
  <1>2. ~Goes(s, 1, i)
    BY GoesNext, OpNames DEF Harmless, Loose
  <1>3. \A e \in Elements : ~Consuming(s, i, e)
    BY OpNames DEF Consuming
  <1>4. \A t \in Elements : ~Landing(s, i, t)
    BY OpNames DEF Landing, Lands
  <1>5. ~Drops(s, 1, i) /\ ~Rejecting(s, i)
    BY OpNames DEF Drops, Rejecting
  <1> QED BY <1>1, <1>2, <1>3, <1>4, <1>5 DEF Away, Quiet, Harmless, Loose

\* A request moves the token of one instance.
LEMMA AwayMoves ==
    ASSUME NEW s \in Seq(StoreCalls), NEW i, Away(s, i)
    PROVE  /\ \E k \in 1..Len(s) : s[k].op \in Moves
           /\ \A k \in 1..Len(s) : s[k].op \in Moves => s[k].inst = i
  <1>0. Len(s) \in Nat
    OBVIOUS
  <1>1. ASSUME NEW n \in 1..2, Goes(s, n, i)
        PROVE  /\ \E k \in n..Len(s) : s[k].op \in Moves
               /\ \A k \in n..Len(s) : s[k].op \in Moves => s[k].inst = i
    <2>1. PICK k \in n..(Len(s) - 1), t \in Elements :
             /\ s[k] = At("token", i, t)
             /\ Lands(s[k + 1], i, t)
             /\ \A j \in n..Len(s) : (j # k /\ j # k + 1) => s[j].op \in Loose
      BY <1>1 DEF Goes
    <2>2. s[k].op \in Moves /\ k \in n..Len(s)
      BY <1>0, <2>1, OpNames DEF Moves
    <2>3. s[k].inst = i /\ s[k + 1].inst = i
      BY <2>1 DEF Lands, At
    <2> QED BY <2>1, <2>2, <2>3 DEF Moves, Harmless, Loose
  <1>2. CASE Goes(s, 1, i)
    BY <1>1, <1>2
  <1>3. CASE \E e \in Elements : Consuming(s, i, e)
    <2>1. PICK e \in Elements : Consuming(s, i, e)
      BY <1>3
    <2>2. /\ \E k \in 2..Len(s) : s[k].op \in Moves
          /\ \A k \in 2..Len(s) : s[k].op \in Moves => s[k].inst = i
      BY <1>1, <2>1 DEF Consuming
    <2>3. s[1].inst = i
      BY <2>1 DEF Consuming, At
    <2> QED BY <1>0, <2>2, <2>3
  <1>4. CASE \E t \in Elements : Landing(s, i, t)
    <2>1. PICK t \in Elements : Landing(s, i, t)
      BY <1>4
    <2>2. s[1].inst = i /\ s[1].op \in Moves
      BY <2>1, OpNames DEF Landing, Lands, At, Moves
    <2> QED BY <1>0, <2>1, <2>2 DEF Landing, Moves, Harmless, Loose
  <1>5. CASE Drops(s, 1, i)
    <2>1. s[1].inst = i /\ s[2].inst = i /\ s[1].op \in Moves /\ Len(s) = 2
      BY <1>5, OpNames DEF Drops, Moves
    <2> QED BY <1>0, <2>1
  <1>6. CASE Rejecting(s, i)
    <2>1. s[1].inst = i /\ s[1].op \in Moves /\ Len(s) = 1
      BY <1>6, OpNames DEF Rejecting, Moves
    <2> QED BY <1>0, <2>1
  <1> QED BY <1>2, <1>3, <1>4, <1>5, <1>6 DEF Away

LEMMA AwayOnce ==
    ASSUME NEW s \in Seq(StoreCalls), NEW i, NEW j, Away(s, i), Away(s, j)
    PROVE  i = j
  BY AwayMoves

-----------------------------------------------------------------------------
(* What a step may do to the rows *)

\* Only instance i is touched, versions grow, and a task whose version stays
\* the same stays as it is.
Touches(d, d2, i) ==
    /\ d2 \in Rows
    /\ \A j \in Instances : j # i => d2.tokens[j] = d.tokens[j] /\ d2.state[j] = d.state[j]
    /\ DOMAIN d.acts \subseteq DOMAIN d2.acts
    /\ \A a \in DOMAIN d.acts :
          /\ d2.acts[a].inst = d.acts[a].inst /\ d2.acts[a].element = d.acts[a].element
          /\ d.acts[a].version <= d2.acts[a].version
          /\ d2.acts[a].version = d.acts[a].version => d2.acts[a].state = d.acts[a].state
          /\ d.acts[a].inst # i => d2.acts[a].state = d.acts[a].state
    /\ \A a \in DOMAIN d2.acts : a \notin DOMAIN d.acts => d2.acts[a].inst = i

\* No instance is: tokens and open tasks stay.
Calm(d, d2) ==
    /\ d2 \in Rows
    /\ d2.tokens = d.tokens /\ d2.state = d.state
    /\ DOMAIN d.acts = DOMAIN d2.acts
    /\ \A a \in DOMAIN d.acts :
          /\ d2.acts[a].inst = d.acts[a].inst /\ d2.acts[a].element = d.acts[a].element
          /\ d.acts[a].version <= d2.acts[a].version
          /\ d2.acts[a].state = d.acts[a].state

\* The activities there were are as they were.
Grows(d, d2) ==
    /\ DOMAIN d.acts \subseteq DOMAIN d2.acts
    /\ \A a \in DOMAIN d.acts : d2.acts[a] = d.acts[a]

LEMMA CalmTouches ==
    ASSUME NEW d, NEW d2, NEW i, Calm(d, d2)
    PROVE  Touches(d, d2, i)
  BY DEF Calm, Touches

LEMMA RowFacts ==
    ASSUME NEW d \in Rows
    PROVE  /\ d.acts \in Seq(Activity) /\ d.tokens \in [Instances -> [Elements -> Nat]]
           /\ d.sessions = {}
           /\ d.rejections \in [Instances -> Nat]
           /\ d.recent \in [Instances -> [last : Place, before : Place]]
           /\ d.state \in [Instances -> {"new", "running", "completed", "rejected"}]
           /\ d = [acts |-> d.acts, tokens |-> d.tokens, sessions |-> d.sessions,
                   rejections |-> d.rejections, recent |-> d.recent, state |-> d.state]
           /\ DOMAIN d.acts = 1..Len(d.acts) /\ Len(d.acts) \in Nat
           /\ \A a \in DOMAIN d.acts : d.acts[a] \in Activity
  BY DEF Rows

LEMMA ActivityFacts ==
    ASSUME NEW d \in Rows, NEW a \in DOMAIN d.acts
    PROVE  /\ d.acts[a].inst \in Instances /\ d.acts[a].element \in Elements
           /\ d.acts[a].state \in {"active", "completed"} /\ d.acts[a].parent = 0
           /\ d.acts[a].delegated \in BOOLEAN /\ d.acts[a].term \in 0..2 /\ d.acts[a].version \in Nat
           /\ a \in Nat /\ a # 0
  BY RowFacts DEF Activity

LEMMA TouchesTwice ==
    ASSUME NEW d \in Rows, NEW d1, NEW d2, NEW i, Touches(d, d1, i), Touches(d1, d2, i)
    PROVE  Touches(d, d2, i)
  <1>1. d1 \in Rows /\ d2 \in Rows
    BY DEF Touches
  <1>2. ASSUME NEW a \in DOMAIN d.acts
        PROVE  /\ d2.acts[a].inst = d.acts[a].inst /\ d2.acts[a].element = d.acts[a].element
               /\ d.acts[a].version <= d2.acts[a].version
               /\ d2.acts[a].version = d.acts[a].version => d2.acts[a].state = d.acts[a].state
               /\ d.acts[a].inst # i => d2.acts[a].state = d.acts[a].state
    <2>1. a \in DOMAIN d1.acts /\ a \in DOMAIN d2.acts
      BY DEF Touches
    <2>2. d.acts[a].version \in Nat /\ d1.acts[a].version \in Nat /\ d2.acts[a].version \in Nat
      BY <1>1, <2>1, ActivityFacts
    <2> QED BY <2>1, <2>2 DEF Touches
  <1>3. ASSUME NEW a \in DOMAIN d2.acts, a \notin DOMAIN d.acts
        PROVE  d2.acts[a].inst = i
    BY <1>3 DEF Touches
  <1> QED BY <1>1, <1>2, <1>3 DEF Touches

\* Elsewhere everything is as before.
LEMMA OpenElsewhere ==
    ASSUME NEW d \in Rows, NEW d2, NEW i, NEW j \in Instances, j # i, Touches(d, d2, i)
    PROVE  ActiveIn(d2, j) = ActiveIn(d, j)
  BY DEF Touches, ActiveIn

LEMMA SettledElsewhere ==
    ASSUME NEW d \in Rows, NEW d2, NEW i, NEW j \in Instances, j # i, Touches(d, d2, i), Settled(d, j)
    PROVE  Settled(d2, j)
  <1>1. ActiveIn(d2, j) = ActiveIn(d, j) /\ d2.tokens[j] = d.tokens[j] /\ d2.state[j] = d.state[j]
    BY OpenElsewhere DEF Touches
  <1>2. CASE Rests(d, j)
    <2>1. PICK a \in DOMAIN d.acts : ActiveIn(d, j) = {a} /\ TokenAt(d, j, d.acts[a].element)
      BY <1>2 DEF Rests
    <2>2. a \in DOMAIN d2.acts /\ d2.acts[a].element = d.acts[a].element
      BY DEF Touches
    <2> QED BY <1>1, <1>2, <2>1, <2>2 DEF Rests, Settled, TokenAt
  <1>3. CASE Over(d, j)
    BY <1>1, <1>3 DEF Over, Settled, NoToken
  <1> QED BY <1>2, <1>3 DEF Settled

LEMMA MovingElsewhere ==
    ASSUME NEW d \in Rows, NEW d2, NEW i, NEW j \in Instances, j # i, Touches(d, d2, i),
           NEW s, Moving(d, s, j)
    PROVE  Moving(d2, s, j)
  <1>1. ActiveIn(d2, j) = ActiveIn(d, j) /\ d2.tokens[j] = d.tokens[j] /\ d2.state[j] = d.state[j]
    BY OpenElsewhere DEF Touches
  <1> QED BY <1>1 DEF Moving, TokenAt, NoToken

LEMMA CalmKeeps ==
    ASSUME NEW d \in Rows, NEW d2, NEW j, Calm(d, d2)
    PROVE  /\ Settled(d, j) => Settled(d2, j)
           /\ \A s : Moving(d, s, j) => Moving(d2, s, j)
           /\ ActiveIn(d2, j) = ActiveIn(d, j)
  <1>1. ActiveIn(d2, j) = ActiveIn(d, j) /\ d2.tokens[j] = d.tokens[j] /\ d2.state[j] = d.state[j]
    BY DEF Calm, ActiveIn
  <1>2. Rests(d, j) => Rests(d2, j)
    BY <1>1 DEF Rests, TokenAt, Calm
  <1>3. Over(d, j) => Over(d2, j)
    BY <1>1 DEF Over, NoToken
  <1>4. \A s : Moving(d, s, j) => Moving(d2, s, j)
    BY <1>1 DEF Moving, TokenAt, NoToken
  <1> QED BY <1>1, <1>2, <1>3, <1>4 DEF Settled

\* A request on a task that has been read before.
LEMMA ArmedStays ==
    ASSUME NEW d \in Rows, NEW d2, NEW i, NEW s, NEW serial \in BOOLEAN, Armed(d, s, serial),
           s[1].version \in Nat, Touches(d, d2, i), ~serial \/ Grows(d, d2)
    PROVE  Armed(d2, s, serial)
  <1> DEFINE a == s[1].act
  <1>1. a \in DOMAIN d.acts /\ a \in DOMAIN d2.acts /\ d2 \in Rows
    BY DEF Armed, Touches
  <1>2. d.acts[a].version \in Nat /\ d2.acts[a].version \in Nat
    BY <1>1, ActivityFacts
  <1>3. /\ d2.acts[a].inst = d.acts[a].inst /\ d2.acts[a].element = d.acts[a].element
        /\ d.acts[a].version <= d2.acts[a].version
        /\ d2.acts[a].version = d.acts[a].version => d2.acts[a].state = d.acts[a].state
        /\ serial => d2.acts[a].version = d.acts[a].version
    BY <1>1 DEF Touches, Grows
  <1>4. /\ s[1].version <= d2.acts[a].version
        /\ s[1].version = d2.acts[a].version => d2.acts[a].state = "active"
        /\ serial => s[1].version = d2.acts[a].version
    BY <1>2, <1>3 DEF Armed
  <1> QED BY <1>1, <1>3, <1>4 DEF Armed

-----------------------------------------------------------------------------
(* What the store calls do to the rows *)

LEMMA NewActivityEffect ==
    ASSUME NEW d \in Rows, NEW i \in Instances, NEW e \in Elements
    PROVE  LET n == NewActivityInstance(d, i, e, 0)
               b == Len(d.acts) + 1
           IN  /\ n \in Rows /\ n.tokens = d.tokens /\ n.state = d.state
               /\ Touches(d, n, i) /\ Grows(d, n)
               /\ b \in DOMAIN n.acts /\ n.acts[b].element = e /\ n.acts[b].state = "active"
               /\ ActiveIn(n, i) = ActiveIn(d, i) \cup {b}
  <1> DEFINE x == [inst |-> i, element |-> e, state |-> "active", parent |-> 0,
                   delegated |-> FALSE, term |-> 0, version |-> 0]
  <1>1. PICK n : n = NewActivityInstance(d, i, e, 0)
    OBVIOUS
  <1>2. PICK b : b = Len(d.acts) + 1
    OBVIOUS
  <1>3. x \in Activity
    BY DEF Activity
  <1>4. /\ n.acts = Append(d.acts, x) /\ n.tokens = d.tokens /\ n.state = d.state
        /\ n.sessions = d.sessions /\ n.rejections = d.rejections /\ n.recent = d.recent
    BY <1>1, RowFacts DEF NewActivityInstance
  <1>5. n \in Rows
    <2>1. n.acts \in Seq(Activity)
      BY <1>3, <1>4, RowFacts
    <2>2. n = [acts |-> n.acts, tokens |-> d.tokens, sessions |-> d.sessions,
               rejections |-> d.rejections, recent |-> d.recent, state |-> d.state]
      BY <1>1, <1>4, RowFacts DEF NewActivityInstance
    <2> QED BY <2>1, <2>2, RowFacts DEF Rows
  <1>6. /\ DOMAIN n.acts = DOMAIN d.acts \cup {b} /\ b \notin DOMAIN d.acts
        /\ n.acts[b] = x
        /\ \A a \in DOMAIN d.acts : n.acts[a] = d.acts[a]
    BY <1>2, <1>3, <1>4, RowFacts
  <1>7. Grows(d, n) /\ n.acts[b].element = e /\ n.acts[b].state = "active" /\ n.acts[b].inst = i
    BY <1>6 DEF Grows
  <1>8. \A a \in DOMAIN d.acts : d.acts[a].version <= d.acts[a].version
    BY ActivityFacts
  <1>9. Touches(d, n, i)
    BY <1>4, <1>5, <1>6, <1>7, <1>8 DEF Touches
  <1>10. ActiveIn(n, i) = ActiveIn(d, i) \cup {b}
    BY <1>6, <1>7 DEF ActiveIn
  <1>11. n \in Rows /\ n.tokens = d.tokens /\ n.state = d.state /\ Touches(d, n, i) /\ Grows(d, n)
    BY <1>4, <1>5, <1>7, <1>9
  <1>12. b \in DOMAIN n.acts /\ n.acts[b].element = e /\ n.acts[b].state = "active"
    BY <1>6, <1>7
  <1> QED BY <1>1, <1>2, <1>10, <1>11, <1>12

\* Steps that change the tokens or the state of i only.
With(d, i, T, q) ==
    [d EXCEPT !.tokens = [d.tokens EXCEPT ![i] = T], !.state = [d.state EXCEPT ![i] = q]]

LEMMA TokensChange ==
    ASSUME NEW d \in Rows, NEW i \in Instances, NEW n,
           NEW T \in [Elements -> Nat], NEW q \in {"new", "running", "completed", "rejected"},
           n = With(d, i, T, q)
    PROVE  /\ n \in Rows /\ n.acts = d.acts /\ n.tokens[i] = T /\ n.state[i] = q
           /\ Touches(d, n, i) /\ Grows(d, n) /\ ActiveIn(n, i) = ActiveIn(d, i)
  <1>1. /\ n.tokens = [d.tokens EXCEPT ![i] = T] /\ n.state = [d.state EXCEPT ![i] = q]
        /\ n.acts = d.acts /\ n.sessions = d.sessions /\ n.rejections = d.rejections
        /\ n.recent = d.recent
    BY RowFacts DEF With
  <1>2. n.tokens \in [Instances -> [Elements -> Nat]] /\ n.state \in [Instances -> {"new", "running", "completed", "rejected"}]
    BY <1>1, RowFacts
  <1>3. n \in Rows
    <2>1. n = [acts |-> d.acts, tokens |-> n.tokens, sessions |-> d.sessions,
               rejections |-> d.rejections, recent |-> d.recent, state |-> n.state]
      BY <1>1, RowFacts DEF With
    <2> QED BY <1>2, <2>1, RowFacts DEF Rows
  <1>4. \A a \in DOMAIN d.acts : d.acts[a].version <= d.acts[a].version
    BY ActivityFacts
  <1>5. \A j \in Instances : j # i => n.tokens[j] = d.tokens[j] /\ n.state[j] = d.state[j]
    BY <1>1, RowFacts
  <1>6. n.tokens[i] = T /\ n.state[i] = q
    BY <1>1, RowFacts
  <1>7. Touches(d, n, i)
    BY <1>1, <1>3, <1>4, <1>5 DEF Touches
  <1> QED BY <1>1, <1>3, <1>6, <1>7 DEF Grows, ActiveIn

LEMMA RowsSame ==
    ASSUME NEW d \in Rows, NEW i \in Instances
    PROVE  /\ d.tokens = [d.tokens EXCEPT ![i] = d.tokens[i]]
           /\ d.state = [d.state EXCEPT ![i] = d.state[i]]
  BY RowFacts

LEMMA RowTypes ==
    ASSUME NEW d \in Rows, NEW i \in Instances
    PROVE  d.tokens[i] \in [Elements -> Nat] /\ d.state[i] \in {"new", "running", "completed", "rejected"}
  BY RowFacts

LEMMA NewTokenEffect ==
    ASSUME NEW d \in Rows, NEW i \in Instances, NEW e \in Elements
    PROVE  LET n == NewToken(d, i, e)
           IN  /\ n \in Rows /\ n.acts = d.acts /\ n.state[i] = d.state[i]
               /\ Touches(d, n, i) /\ Grows(d, n) /\ ActiveIn(n, i) = ActiveIn(d, i)
               /\ NoToken(d, i) => TokenAt(n, i, e)
  <1>1. PICK n : n = NewToken(d, i, e)
    OBVIOUS
  <1>2. PICK T : T = [d.tokens[i] EXCEPT ![e] = @ + 1]
    OBVIOUS
  <1>3. T \in [Elements -> Nat]
    BY <1>2, RowTypes
  <1>4. n = With(d, i, T, d.state[i])
    BY <1>1, <1>2, RowsSame, RowFacts DEF With, NewToken
  <1>5. /\ n \in Rows /\ n.acts = d.acts /\ n.tokens[i] = T /\ n.state[i] = d.state[i]
        /\ Touches(d, n, i) /\ Grows(d, n) /\ ActiveIn(n, i) = ActiveIn(d, i)
    BY <1>3, <1>4, RowTypes, TokensChange
  <1>6. NoToken(d, i) => TokenAt(n, i, e)
    BY <1>2, <1>3, <1>5 DEF NoToken, TokenAt
  <1> QED BY <1>1, <1>5, <1>6

LEMMA ConsumeTokenEffect ==
    ASSUME NEW d \in Rows, NEW i \in Instances, NEW e \in Elements
    PROVE  LET n == ConsumeToken(d, i, e)
           IN  /\ n \in Rows /\ n.acts = d.acts /\ n.state[i] = d.state[i]
               /\ Touches(d, n, i) /\ Grows(d, n) /\ ActiveIn(n, i) = ActiveIn(d, i)
               /\ (NoToken(d, i) \/ TokenAt(d, i, e)) => NoToken(n, i)
  <1>1. PICK n : n = ConsumeToken(d, i, e)
    OBVIOUS
  <1>2. PICK T : T = [d.tokens[i] EXCEPT ![e] = IF @ = 0 THEN 0 ELSE @ - 1]
    OBVIOUS
  <1>3. T \in [Elements -> Nat]
    BY <1>2, RowTypes
  <1>4. n = With(d, i, T, d.state[i])
    BY <1>1, <1>2, RowsSame, RowFacts DEF With, ConsumeToken
  <1>5. /\ n \in Rows /\ n.acts = d.acts /\ n.tokens[i] = T /\ n.state[i] = d.state[i]
        /\ Touches(d, n, i) /\ Grows(d, n) /\ ActiveIn(n, i) = ActiveIn(d, i)
    BY <1>3, <1>4, RowTypes, TokensChange
  <1>6. (NoToken(d, i) \/ TokenAt(d, i, e)) => NoToken(n, i)
    BY <1>2, <1>3, <1>5 DEF NoToken, TokenAt
  <1> QED BY <1>1, <1>5, <1>6

\* A drain or a rejection.
LEMMA DrainEffect ==
    ASSUME NEW d \in Rows, NEW i \in Instances
    PROVE  LET n == [d EXCEPT !.tokens[i] = [e \in Elements |-> 0]]
           IN  /\ n \in Rows /\ n.state[i] = d.state[i] /\ NoToken(n, i)
               /\ Touches(d, n, i) /\ ActiveIn(n, i) = ActiveIn(d, i)
  <1>1. PICK n : n = [d EXCEPT !.tokens[i] = [e \in Elements |-> 0]]
    OBVIOUS
  <1>2. PICK T : T = [e \in Elements |-> 0]
    OBVIOUS
  <1>3. T \in [Elements -> Nat]
    BY <1>2
  <1>4. n = With(d, i, T, d.state[i])
    BY <1>1, <1>2, RowsSame, RowFacts DEF With
  <1>5. /\ n \in Rows /\ n.acts = d.acts /\ n.tokens[i] = T /\ n.state[i] = d.state[i]
        /\ Touches(d, n, i) /\ Grows(d, n) /\ ActiveIn(n, i) = ActiveIn(d, i)
    BY <1>3, <1>4, RowTypes, TokensChange
  <1>6. NoToken(n, i)
    BY <1>2, <1>5 DEF NoToken
  <1> QED BY <1>1, <1>5, <1>6

LEMMA StateEffect ==
    ASSUME NEW d \in Rows, NEW i \in Instances, NEW q \in {"new", "running", "completed", "rejected"}
    PROVE  LET n == [d EXCEPT !.state[i] = q]
           IN  /\ n \in Rows /\ n.acts = d.acts /\ n.state[i] = q
               /\ n.tokens[i] = d.tokens[i]
               /\ Touches(d, n, i) /\ Grows(d, n) /\ ActiveIn(n, i) = ActiveIn(d, i)
  <1>1. PICK n : n = [d EXCEPT !.state[i] = q]
    OBVIOUS
  <1>2. n = With(d, i, d.tokens[i], q)
    BY <1>1, RowsSame, RowFacts DEF With
  <1>3. /\ n \in Rows /\ n.acts = d.acts /\ n.tokens[i] = d.tokens[i] /\ n.state[i] = q
        /\ Touches(d, n, i) /\ Grows(d, n) /\ ActiveIn(n, i) = ActiveIn(d, i)
    BY <1>2, RowTypes, TokensChange
  <1> QED BY <1>1, <1>3

\* Changes of one activity that leave it where it is.
Replaces(d, n, a, x) ==
    /\ n.acts = [d.acts EXCEPT ![a] = x]
    /\ n.tokens = d.tokens /\ n.state = d.state

LEMMA ActivityChange ==
    ASSUME NEW d \in Rows, NEW n, NEW a \in DOMAIN d.acts, NEW x \in Activity,
           Replaces(d, n, a, x), n \in Rows, x.inst = d.acts[a].inst, x.element = d.acts[a].element,
           d.acts[a].version <= x.version
    PROVE  /\ x.state = d.acts[a].state => Calm(d, n)
           /\ d.acts[a].version < x.version => Touches(d, n, x.inst)
           /\ x.state # "active" => ActiveIn(n, x.inst) = ActiveIn(d, x.inst) \ {a}
  <1>1. d.acts \in Seq(Activity) /\ a \in 1..Len(d.acts)
    BY RowFacts
  <1>2. /\ DOMAIN n.acts = DOMAIN d.acts /\ n.acts[a] = x
        /\ \A b \in DOMAIN d.acts : b # a => n.acts[b] = d.acts[b]
    BY <1>1 DEF Replaces
  <1>3. \A b \in DOMAIN d.acts : d.acts[b].version \in Nat
    BY ActivityFacts
  <1>4. x.version \in Nat
    BY DEF Activity
  <1>5. x.state = d.acts[a].state => Calm(d, n)
    BY <1>2, <1>3 DEF Calm, Replaces
  <1>6. d.acts[a].version < x.version => Touches(d, n, x.inst)
    BY <1>2, <1>3, <1>4 DEF Touches, Replaces
  <1>7. x.state # "active" => ActiveIn(n, x.inst) = ActiveIn(d, x.inst) \ {a}
    BY <1>2 DEF ActiveIn
  <1> QED BY <1>5, <1>6, <1>7

LEMMA CompletedType ==
    ASSUME NEW y \in Activity
    PROVE  /\ Completed(y) \in Activity
           /\ Completed(y).inst = y.inst /\ Completed(y).element = y.element
           /\ y.version \in Nat /\ Completed(y).version = y.version + 1 /\ Completed(y).state = "completed"
  <1>1. y.version \in Nat /\ y.version + 1 \in Nat
    BY DEF Activity
  <1>2. Completed(y) \in Activity
    BY <1>1 DEF Completed, Activity
  <1>3. Completed(y).inst = y.inst /\ Completed(y).element = y.element
    BY DEF Completed, Activity
  <1>4. Completed(y).version = y.version + 1 /\ Completed(y).state = "completed"
    BY DEF Completed, Activity
  <1> QED BY <1>1, <1>2, <1>3, <1>4

LEMMA CompleteEffect ==
    ASSUME NEW d \in Rows, NEW a \in DOMAIN d.acts
    PROVE  LET n == Complete(d, a)
               i == d.acts[a].inst
           IN  /\ n \in Rows /\ n.tokens = d.tokens /\ n.state = d.state
               /\ Touches(d, n, i) /\ ActiveIn(n, i) = ActiveIn(d, i) \ {a}
  <1>1. PICK n : n = Complete(d, a)
    OBVIOUS
  <1>2. PICK x : x = Completed(d.acts[a])
    OBVIOUS
  <1>3. PICK y : y = d.acts[a]
    OBVIOUS
  <1>4. /\ d.acts \in Seq(Activity) /\ a \in 1..Len(d.acts) /\ y \in Activity
        /\ y.inst \in Instances /\ y.element \in Elements /\ y.version \in Nat
    BY <1>3, RowFacts, ActivityFacts
  <1>5. x \in Activity /\ x.inst = y.inst /\ x.element = y.element /\ x.version = y.version + 1 /\ x.state = "completed"
    BY <1>2, <1>3, <1>4, CompletedType
  <1>6. PICK r : r = Remember(d, y).recent
    OBVIOUS
  <1>7. r \in [Instances -> [last : Place, before : Place]]
    BY <1>4, <1>6, RowFacts DEF Remember, Place
  <1>8. /\ n.acts = [d.acts EXCEPT ![a] = x] /\ n.tokens = d.tokens /\ n.state = d.state
        /\ n.sessions = d.sessions /\ n.rejections = d.rejections /\ n.recent = r
    BY <1>1, <1>2, <1>3, <1>6, RowFacts DEF Complete, Remember
  <1>9. n = [acts |-> n.acts, tokens |-> d.tokens, sessions |-> d.sessions,
             rejections |-> d.rejections, recent |-> r, state |-> d.state]
    BY <1>1, <1>8, RowFacts DEF Complete, Remember
  <1>10. n.acts \in Seq(Activity)
    BY <1>4, <1>5, <1>8
  <1>11. n \in Rows
    BY <1>7, <1>9, <1>10, RowFacts DEF Rows
  <1>12. /\ x \in Activity /\ x.inst = d.acts[a].inst /\ x.element = d.acts[a].element
         /\ d.acts[a].version <= x.version /\ d.acts[a].version < x.version /\ x.state # "active"
    BY <1>3, <1>4, <1>5
  <1>13. Touches(d, n, x.inst) /\ ActiveIn(n, x.inst) = ActiveIn(d, x.inst) \ {a}
    <2>1. Replaces(d, n, a, x)
      BY <1>8 DEF Replaces
    <2> QED BY <2>1, <1>11, <1>12, ActivityChange
  <1> QED BY <1>1, <1>3, <1>5, <1>8, <1>11, <1>13

\* A token arrives in an instance that has no other and no open task.
LEMMA ArriveSettles ==
    ASSUME NEW d \in Rows, NEW i \in Instances, NEW e \in Elements,
           d.state[i] = "running", ActiveIn(d, i) = {},
           NoToken(d, i) \/ (TokenAt(d, i, e) /\ ElementType[e] = "endEvent")
    PROVE  LET n == takeSequenceFlow(d, i, e)
           IN  Touches(d, n, i) /\ Grows(d, n) /\ Settled(n, i)
  <1>1. CASE ElementType[e] = "endEvent"
    <2>1. PICK m : m = [d EXCEPT !.tokens[i][e] = 0]
      OBVIOUS
    <2>2. PICK T : T = [d.tokens[i] EXCEPT ![e] = 0]
      OBVIOUS
    <2>3. T = [x \in Elements |-> 0]
      BY <2>2 DEF NoToken, TokenAt
    <2>4. T \in [Elements -> Nat]
      BY <2>3
    <2>5. m = With(d, i, T, d.state[i])
      BY <2>1, <2>2, RowsSame, RowFacts DEF With
    <2>6. /\ m \in Rows /\ m.acts = d.acts /\ m.tokens[i] = T
          /\ Touches(d, m, i) /\ Grows(d, m) /\ ActiveIn(m, i) = {}
      BY <2>4, <2>5, RowTypes, TokensChange
    <2>7. PICK n : n = [m EXCEPT !.state[i] = "completed"]
      OBVIOUS
    <2>8. /\ n \in Rows /\ n.acts = m.acts /\ n.state[i] = "completed" /\ n.tokens[i] = T
          /\ Touches(m, n, i) /\ ActiveIn(n, i) = {}
      BY <2>6, <2>7, StateEffect
    <2>9. takeSequenceFlow(d, i, e) = n
      BY <1>1, <2>1, <2>3, <2>6, <2>7 DEF takeSequenceFlow, checkComplete
    <2>10. Touches(d, n, i)
      BY <2>6, <2>8, TouchesTwice
    <2>11. Grows(d, n)
      BY <2>6, <2>8 DEF Grows
    <2>12. Settled(n, i)
      BY <2>3, <2>8 DEF Settled, Over, NoToken
    <2> QED BY <2>9, <2>10, <2>11, <2>12
  <1>2. CASE ElementType[e] # "endEvent"
    <2>1. PICK m : m = NewToken(d, i, e)
      OBVIOUS
    <2>2. /\ m \in Rows /\ m.acts = d.acts /\ m.state[i] = "running"
          /\ Touches(d, m, i) /\ Grows(d, m) /\ ActiveIn(m, i) = {} /\ TokenAt(m, i, e)
      BY <1>2, <2>1, NewTokenEffect
    <2>3. PICK n : n = NewActivityInstance(m, i, e, 0)
      OBVIOUS
    <2>4. PICK b : b = Len(m.acts) + 1
      OBVIOUS
    <2>5. /\ n.tokens = m.tokens /\ n.state = m.state /\ Touches(m, n, i) /\ Grows(m, n)
          /\ b \in DOMAIN n.acts /\ n.acts[b].element = e /\ ActiveIn(n, i) = ActiveIn(m, i) \cup {b}
      BY <2>2, <2>3, <2>4, NewActivityEffect
    <2>6. takeSequenceFlow(d, i, e) = n
      BY <1>2, <2>1, <2>3 DEF takeSequenceFlow
    <2>7. Touches(d, n, i)
      BY <2>2, <2>5, TouchesTwice
    <2>8. Grows(d, n)
      BY <2>2, <2>5 DEF Grows
    <2>9. Settled(n, i)
      BY <2>2, <2>5 DEF Settled, Rests, TokenAt
    <2> QED BY <2>6, <2>7, <2>8, <2>9
  <1> QED BY <1>1, <1>2

\* Navigation from an element whose token is gone.
LEMMA NavigateSettles ==
    ASSUME NEW d \in Rows, NEW i \in Instances, NEW e \in Elements,
           d.state[i] = "running", ActiveIn(d, i) = {}, NoToken(d, i),
           NEW n \in navigateFrom(d, i, e)
    PROVE  Touches(d, n, i) /\ Grows(d, n) /\ Settled(n, i)
  <1>1. CASE ElementType[e] = "endEvent"
    <2>1. n = takeSequenceFlow(d, i, e)
      BY <1>1 DEF navigateFrom
    <2> QED BY <2>1, ArriveSettles
  <1>2. CASE ElementType[e] # "endEvent"
    <2>1. PICK m : m = ConsumeToken(d, i, e)
      OBVIOUS
    <2>2. PICK t \in Elements : n = takeSequenceFlow(m, i, t)
      BY <1>2, <2>1 DEF navigateFrom, Arrivals
    <2>3. /\ m \in Rows /\ m.acts = d.acts /\ m.state[i] = "running"
          /\ Touches(d, m, i) /\ ActiveIn(m, i) = {} /\ NoToken(m, i)
      BY <2>1, ConsumeTokenEffect
    <2>4. Touches(m, n, i) /\ Grows(m, n) /\ Settled(n, i)
      BY <2>2, <2>3, ArriveSettles
    <2> QED BY <2>3, <2>4, TouchesTwice DEF Grows
  <1> QED BY <1>1, <1>2

-----------------------------------------------------------------------------
(* Completing a task *)

LEMMA CompletionsAre ==
    ASSUME NEW d \in Rows, NEW a \in DOMAIN d.acts, NEW approved
    PROVE  LET i == d.acts[a].inst
               e == d.acts[a].element
               consumed == ConsumeToken(Complete(d, a), i, e)
           IN  /\ d.acts[a].delegated => Completions(d, a, approved) = handleDelegateCompletion(consumed, a)
               /\ ~d.acts[a].delegated => Completions(d, a, approved) = navigateFrom(consumed, i, e)
  <1>1. PICK done : done = Complete(d, a)
    OBVIOUS
  <1>2. done \in Rows
    BY <1>1, CompleteEffect
  <1>3. d.acts[a].parent = 0 /\ a # 0
    BY ActivityFacts
  <1>4. ~hasPendingSigns(done, a)
    BY <1>2, <1>3, ActivityFacts DEF hasPendingSigns, OpenSigns
  <1> QED BY <1>1, <1>3, <1>4 DEF Completions

\* Neither completing nor consuming moves the task.
LEMMA ConsumedIs ==
    ASSUME NEW d \in Rows, NEW a \in DOMAIN d.acts
    PROVE  LET i == d.acts[a].inst
               e == d.acts[a].element
               m == ConsumeToken(Complete(d, a), i, e)
           IN  /\ m \in Rows /\ m.state[i] = d.state[i] /\ Touches(d, m, i)
               /\ ActiveIn(m, i) = ActiveIn(d, i) \ {a}
               /\ TokenAt(d, i, e) => NoToken(m, i)
               /\ a \in DOMAIN m.acts /\ m.acts[a].inst = i /\ m.acts[a].element = e
  <1>1. PICK i, e : i = d.acts[a].inst /\ e = d.acts[a].element
    OBVIOUS
  <1>2. i \in Instances /\ e \in Elements
    BY <1>1, ActivityFacts
  <1>3. PICK c : c = Complete(d, a)
    OBVIOUS
  <1>4. /\ c \in Rows /\ c.tokens = d.tokens /\ c.state = d.state
        /\ Touches(d, c, i) /\ ActiveIn(c, i) = ActiveIn(d, i) \ {a}
    BY <1>1, <1>3, CompleteEffect
  <1>5. PICK m : m = ConsumeToken(c, i, e)
    OBVIOUS
  <1>6. /\ m \in Rows /\ m.acts = c.acts /\ m.state[i] = c.state[i]
        /\ Touches(c, m, i) /\ ActiveIn(m, i) = ActiveIn(c, i)
        /\ TokenAt(c, i, e) => NoToken(m, i)
    BY <1>2, <1>4, <1>5, ConsumeTokenEffect
  <1>7. Touches(d, m, i)
    BY <1>4, <1>6, TouchesTwice
  <1>8. a \in DOMAIN m.acts /\ m.acts[a].inst = i /\ m.acts[a].element = e
    BY <1>1, <1>7 DEF Touches
  <1>9. TokenAt(d, i, e) => NoToken(m, i)
    BY <1>4, <1>6 DEF TokenAt
  <1> QED BY <1>1, <1>3, <1>4, <1>5, <1>6, <1>7, <1>8, <1>9

\* The delegator has a task where the delegated one was.
Reopens(m, n, i, e) ==
    \E b \in DOMAIN n.acts : /\ n.acts[b].element = e /\ n.acts[b].state = "active"
                             /\ ActiveIn(n, i) = ActiveIn(m, i) \cup {b}

LEMMA DelegateMakes ==
    ASSUME NEW m \in Rows, NEW a \in DOMAIN m.acts, NEW n \in handleDelegateCompletion(m, a)
    PROVE  LET i == m.acts[a].inst
               e == m.acts[a].element
           IN  /\ Touches(m, n, i) /\ n.state[i] = m.state[i]
               /\ NoToken(m, i) => TokenAt(n, i, e)
               /\ Reopens(m, n, i, e)
  <1>1. PICK i, e : i = m.acts[a].inst /\ e = m.acts[a].element
    OBVIOUS
  <1>2. i \in Instances /\ e \in Elements
    BY <1>1, ActivityFacts
  <1>3. PICK c : c = NewActivityInstance(m, i, e, 0)
    OBVIOUS
  <1>4. PICK b : b = Len(m.acts) + 1
    OBVIOUS
  <1>5. /\ c \in Rows /\ c.tokens = m.tokens /\ c.state = m.state /\ Touches(m, c, i)
        /\ b \in DOMAIN c.acts /\ c.acts[b].element = e /\ c.acts[b].state = "active"
        /\ ActiveIn(c, i) = ActiveIn(m, i) \cup {b}
    BY <1>2, <1>3, <1>4, NewActivityEffect
  <1>6. n = NewToken(c, i, e)
    BY <1>1, <1>3 DEF handleDelegateCompletion
  <1>7. /\ n \in Rows /\ n.acts = c.acts /\ n.state[i] = c.state[i] /\ Touches(c, n, i)
        /\ ActiveIn(n, i) = ActiveIn(c, i)
        /\ NoToken(c, i) => TokenAt(n, i, e)
    BY <1>2, <1>5, <1>6, NewTokenEffect
  <1>8. Touches(m, n, i)
    BY <1>5, <1>7, TouchesTwice
  <1>9. NoToken(m, i) => TokenAt(n, i, e)
    BY <1>5, <1>7 DEF NoToken
  <1>10. Reopens(m, n, i, e)
    BY <1>5, <1>7 DEF Reopens
  <1> QED BY <1>1, <1>5, <1>7, <1>8, <1>9, <1>10

LEMMA CompletionsSettle ==
    ASSUME NEW d \in Rows, NEW a \in DOMAIN d.acts, NEW approved,
           d.state[d.acts[a].inst] = "running", ActiveIn(d, d.acts[a].inst) = {a},
           TokenAt(d, d.acts[a].inst, d.acts[a].element),
           NEW n \in Completions(d, a, approved)
    PROVE  Touches(d, n, d.acts[a].inst) /\ Settled(n, d.acts[a].inst)
  <1>1. PICK i, e : i = d.acts[a].inst /\ e = d.acts[a].element
    OBVIOUS
  <1>2. i \in Instances /\ e \in Elements
    BY <1>1, ActivityFacts
  <1>3. PICK m : m = ConsumeToken(Complete(d, a), i, e)
    OBVIOUS
  <1>4. /\ m \in Rows /\ m.state[i] = "running" /\ Touches(d, m, i)
        /\ ActiveIn(m, i) = {} /\ NoToken(m, i)
        /\ a \in DOMAIN m.acts /\ m.acts[a].inst = i /\ m.acts[a].element = e
    BY <1>1, <1>3, ConsumedIs
  <1>5. CASE d.acts[a].delegated
    <2>1. n \in handleDelegateCompletion(m, a)
      BY <1>1, <1>3, <1>5, CompletionsAre
    <2>2. /\ Touches(m, n, i) /\ n.state[i] = "running" /\ TokenAt(n, i, e)
      BY <1>4, <2>1, DelegateMakes
    <2>3. Reopens(m, n, i, e)
      BY <1>4, <2>1, DelegateMakes
    <2>4. Touches(d, n, i)
      BY <1>4, <2>2, TouchesTwice
    <2> QED BY <1>1, <1>4, <2>2, <2>3, <2>4 DEF Settled, Rests, Reopens
  <1>6. CASE ~d.acts[a].delegated
    <2>1. n \in navigateFrom(m, i, e)
      BY <1>1, <1>3, <1>6, CompletionsAre
    <2>2. Touches(m, n, i) /\ Settled(n, i)
      BY <1>2, <1>4, <2>1, NavigateSettles
    <2>3. Touches(d, n, i)
      BY <1>4, <2>2, TouchesTwice
    <2> QED BY <1>1, <2>2, <2>3
  <1> QED BY <1>5, <1>6

-----------------------------------------------------------------------------
(* The writes of requests *)

LEMMA CallTypes ==
    ASSUME NEW x \in StoreCalls
    PROVE  /\ x.op \in {"complete", "reassign"} => x.version \in Nat
           /\ x.op = "reassign" => x.field \in {"assignee", "term"} /\ x.value \in 0..2
           /\ x.op = "delegate" => x.value \in BOOLEAN
           /\ x.op \in {"signs", "sessions"} => x.act \in Nat \ {0}
           /\ x.op = "rejection" => x.inst \in Instances /\ x.count \in Nat
  BY DEF StoreCalls

LEMMA CalmSame ==
    ASSUME NEW d \in Rows
    PROVE  Calm(d, d)
  BY ActivityFacts DEF Calm

LEMMA ReassignType ==
    ASSUME NEW y \in Activity, NEW w \in StoreCalls, w.op = "reassign"
    PROVE  LET x == Reassigned(y, w)
           IN  /\ x \in Activity /\ x.inst = y.inst /\ x.element = y.element /\ x.state = y.state
               /\ y.version \in Nat /\ x.version = y.version + 1
  <1>1. y.version \in Nat /\ y.version + 1 \in Nat /\ y.term \in 0..2
    BY DEF Activity
  <1>2. PICK t : t = IF w.field = "term" THEN w.value ELSE y.term
    OBVIOUS
  <1>3. t \in 0..2
    BY <1>1, <1>2, CallTypes
  <1>4. PICK x : x = [y EXCEPT !.version = @ + 1, !.term = t]
    OBVIOUS
  <1>5. Reassigned(y, w) = x
    BY <1>2, <1>4 DEF Reassigned
  <1>6. x \in Activity
    BY <1>1, <1>3, <1>4 DEF Activity
  <1>7. x.inst = y.inst /\ x.element = y.element /\ x.state = y.state /\ x.version = y.version + 1
    BY <1>4 DEF Activity
  <1> QED BY <1>1, <1>5, <1>6, <1>7

LEMMA DelegateType ==
    ASSUME NEW y \in Activity, NEW v \in BOOLEAN
    PROVE  LET x == [y EXCEPT !.delegated = v]
           IN  /\ x \in Activity /\ x.inst = y.inst /\ x.element = y.element /\ x.state = y.state
               /\ y.version \in Nat /\ x.version = y.version
  BY DEF Activity

\* Rows that differ from others in an activity, rejections or sessions.
LEMMA RowsWithActivity ==
    ASSUME NEW d \in Rows, NEW a \in DOMAIN d.acts, NEW x \in Activity
    PROVE  LET n == [d EXCEPT !.acts = [d.acts EXCEPT ![a] = x]]
           IN  n \in Rows /\ Replaces(d, n, a, x)
  <1>1. PICK n : n = [d EXCEPT !.acts = [d.acts EXCEPT ![a] = x]]
    OBVIOUS
  <1>2. /\ n.acts = [d.acts EXCEPT ![a] = x] /\ n.tokens = d.tokens /\ n.state = d.state
        /\ n.sessions = d.sessions /\ n.rejections = d.rejections /\ n.recent = d.recent
    BY <1>1, RowFacts
  <1>3. n.acts \in Seq(Activity)
    BY <1>2, RowFacts
  <1>4. n = [acts |-> n.acts, tokens |-> d.tokens, sessions |-> d.sessions,
             rejections |-> d.rejections, recent |-> d.recent, state |-> d.state]
    BY <1>1, <1>2, RowFacts
  <1>5. n \in Rows
    BY <1>3, <1>4, RowFacts DEF Rows
  <1> QED BY <1>1, <1>2, <1>5 DEF Replaces

LEMMA ReassignCalm ==
    ASSUME NEW d \in Rows, NEW x \in StoreCalls, x.op = "reassign", x.act \in DOMAIN d.acts
    PROVE  Calm(d, Applied(d, x))
  <1>1. CASE Conflicts(d, x)
    BY <1>1, CalmSame DEF Applied
  <1>2. CASE ~Conflicts(d, x)
    <2>1. PICK a, y : a = x.act /\ y = d.acts[a]
      OBVIOUS
    <2>2. y \in Activity /\ y.term \in 0..2 /\ a \in DOMAIN d.acts
      BY <2>1, RowFacts, ActivityFacts
    <2>3. PICK z : z = Reassigned(y, x)
      OBVIOUS
    <2>6. /\ z \in Activity /\ z.inst = y.inst /\ z.element = y.element /\ z.state = y.state
          /\ y.version \in Nat /\ z.version = y.version + 1
      BY <2>2, <2>3, ReassignType
    <2>7. PICK n : n = [d EXCEPT !.acts = [d.acts EXCEPT ![a] = z]]
      OBVIOUS
    <2>8. n \in Rows /\ Replaces(d, n, a, z)
      BY <2>2, <2>6, <2>7, RowsWithActivity
    <2>9. Applied(d, x) = [d EXCEPT !.acts[a] = z]
      BY <1>2, <2>1, <2>3 DEF Applied
    <2>10. Applied(d, x) = n
      BY <2>7, <2>9, RowFacts
    <2>11. /\ z.inst = d.acts[a].inst /\ z.element = d.acts[a].element /\ z.state = d.acts[a].state
           /\ d.acts[a].version <= z.version
      BY <2>1, <2>6
    <2>12. Calm(d, n)
      BY <2>2, <2>6, <2>8, <2>11, ActivityChange
    <2> QED BY <2>10, <2>12
  <1> QED BY <1>1, <1>2

LEMMA DelegateCalm ==
    ASSUME NEW d \in Rows, NEW x \in StoreCalls, x.op = "delegate", x.act \in DOMAIN d.acts
    PROVE  Calm(d, Applied(d, x))
  <1>1. PICK a, y : a = x.act /\ y = d.acts[a]
    OBVIOUS
  <1>2. y \in Activity /\ a \in DOMAIN d.acts
    BY <1>1, RowFacts
  <1>3. PICK z : z = [y EXCEPT !.delegated = x.value]
    OBVIOUS
  <1>4. /\ z \in Activity /\ z.inst = y.inst /\ z.element = y.element /\ z.state = y.state
        /\ y.version \in Nat /\ z.version = y.version
    <2>1. x.value \in BOOLEAN
      BY CallTypes
    <2> QED BY <1>2, <1>3, <2>1, DelegateType
  <1>5. PICK n : n = [d EXCEPT !.acts = [d.acts EXCEPT ![a] = z]]
    OBVIOUS
  <1>6. n \in Rows /\ Replaces(d, n, a, z)
    BY <1>2, <1>4, <1>5, RowsWithActivity
  <1>7. Applied(d, x) = n
    BY <1>1, <1>3, <1>5, RowFacts DEF Applied
  <1>8. /\ z.inst = d.acts[a].inst /\ z.element = d.acts[a].element /\ z.state = d.acts[a].state
        /\ d.acts[a].version <= z.version
    BY <1>1, <1>4
  <1>9. Calm(d, n)
    BY <1>2, <1>4, <1>6, <1>8, ActivityChange
  <1> QED BY <1>7, <1>9

LEMMA SignsCalm ==
    ASSUME NEW d \in Rows, NEW x \in StoreCalls, x.op \in {"signs", "sessions"}
    PROVE  Calm(d, Applied(d, x))
  <1>1. x.act \in Nat \ {0}
    BY CallTypes
  <1>2. CASE x.op = "signs"
    <2>1. OpenSigns(d, x.act) = {}
      BY <1>1, ActivityFacts DEF OpenSigns
    <2>2. Applied(d, x) = d
      BY <1>2, <2>1 DEF Applied, CompleteSigns
    <2> QED BY <2>2, CalmSame
  <1>3. CASE x.op = "sessions"
    <2>1. d.sessions \ findSignID(d, x.act) = {} /\ d.sessions = {}
      BY RowFacts
    <2>2. Applied(d, x) = d
      BY <1>3, <2>1, RowFacts DEF Applied
    <2> QED BY <2>2, CalmSame
  <1> QED BY <1>2, <1>3

LEMMA RejectionCalm ==
    ASSUME NEW d \in Rows, NEW x \in StoreCalls, x.op = "rejection"
    PROVE  Calm(d, Applied(d, x))
  <1>1. x.inst \in Instances /\ x.count \in Nat
    BY CallTypes
  <1>2. PICK n : n = Applied(d, x)
    OBVIOUS
  <1>3. n = [d EXCEPT !.rejections[x.inst] = x.count]
    BY <1>2 DEF Applied
  <1>4. /\ n.acts = d.acts /\ n.tokens = d.tokens /\ n.state = d.state
        /\ n.sessions = d.sessions /\ n.recent = d.recent
    BY <1>3, RowFacts
  <1>5. n.rejections \in [Instances -> Nat]
    BY <1>1, <1>3, RowFacts
  <1>6. n = [acts |-> d.acts, tokens |-> d.tokens, sessions |-> d.sessions,
             rejections |-> n.rejections, recent |-> d.recent, state |-> d.state]
    BY <1>3, <1>4, RowFacts
  <1>7. n \in Rows
    BY <1>5, <1>6, RowFacts DEF Rows
  <1>8. Calm(d, n)
    BY <1>4, <1>7, ActivityFacts DEF Calm
  <1> QED BY <1>2, <1>8

LEMMA HarmlessCalm ==
    ASSUME NEW d \in Rows, NEW x \in StoreCalls, x.op \in Harmless,
           x.op \in {"reassign", "delegate"} => x.act \in DOMAIN d.acts
    PROVE  Calm(d, Applied(d, x))
  BY ReassignCalm, DelegateCalm, SignsCalm, RejectionCalm DEF Harmless, Loose

-----------------------------------------------------------------------------
(* A request that has completed its task goes on *)

Continues(d, s, i) == (Away(s, i) /\ Moving(d, s, i)) \/ (Quiet(s) /\ Settled(d, i))

LEMMA WriteConsuming ==
    ASSUME NEW d \in Rows, NEW i \in Instances, NEW s \in Seq(StoreCalls), NEW e \in Elements,
           d.state[i] = "running", ActiveIn(d, i) = {}, TokenAt(d, i, e), Consuming(s, i, e)
    PROVE  /\ s # <<>> /\ s[1].op = "consume"
           /\ Touches(d, Applied(d, s[1]), i) /\ Continues(Applied(d, s[1]), Tail(s), i)
  <1>1. s # <<>> /\ s[1] = At("consume", i, e) /\ Goes(s, 1 + 1, i)
    BY DEF Consuming
  <1>2. Goes(Tail(s), 1, i)
    BY <1>1, GoesTail
  <1>3. PICK n : n = ConsumeToken(d, i, e)
    OBVIOUS
  <1>4. /\ n.state[i] = "running" /\ Touches(d, n, i) /\ ActiveIn(n, i) = {} /\ NoToken(n, i)
    BY <1>3, ConsumeTokenEffect
  <1>5. Applied(d, s[1]) = n
    BY <1>1, <1>3 DEF Applied, At
  <1>6. Moving(n, Tail(s), i) /\ Away(Tail(s), i)
    BY <1>2, <1>4 DEF Moving, Away
  <1> QED BY <1>1, <1>4, <1>5, <1>6, OpNames DEF Continues

LEMMA WriteGoing ==
    ASSUME NEW d \in Rows, NEW i \in Instances, NEW s \in Seq(StoreCalls),
           d.state[i] = "running", ActiveIn(d, i) = {}, NoToken(d, i), Goes(s, 1, i),
           s[1].op = "delegate" => s[1].act \in DOMAIN d.acts
    PROVE  /\ s # <<>> /\ s[1].op \notin {"complete", "reassign"}
           /\ Touches(d, Applied(d, s[1]), i) /\ Continues(Applied(d, s[1]), Tail(s), i)
  <1>1. s # <<>> /\ s[1] \in StoreCalls
    BY GoesNext, TailFacts
  <1>2. CASE s[1].op \in Loose /\ Goes(Tail(s), 1, i)
    <2>1. PICK n : n = Applied(d, s[1])
      OBVIOUS
    <2>2. s[1].op \in Harmless /\ s[1].op \notin {"complete", "reassign"}
      BY <1>2 DEF Harmless, Loose
    <2>3. Calm(d, n)
      BY <1>1, <2>1, <2>2, HarmlessCalm
    <2>4. Touches(d, n, i) /\ ActiveIn(n, i) = {}
      BY <2>3, CalmTouches, CalmKeeps
    <2>5. n.state[i] = "running" /\ NoToken(n, i)
      BY <2>3 DEF Calm, NoToken
    <2>6. Moving(n, Tail(s), i) /\ Away(Tail(s), i)
      BY <1>2, <2>4, <2>5 DEF Moving, Away
    <2> QED BY <1>1, <2>1, <2>2, <2>4, <2>6 DEF Continues
  <1>3. CASE \E t \in Elements : s[1] = At("token", i, t) /\ Landing(Tail(s), i, t)
    <2>1. PICK t \in Elements : s[1] = At("token", i, t) /\ Landing(Tail(s), i, t)
      BY <1>3
    <2>2. PICK n : n = NewToken(d, i, t)
      OBVIOUS
    <2>3. n.state[i] = "running" /\ Touches(d, n, i) /\ ActiveIn(n, i) = {} /\ TokenAt(n, i, t)
      BY <2>2, NewTokenEffect
    <2>4. Applied(d, s[1]) = n
      BY <2>1, <2>2 DEF Applied, At
    <2>5. Moving(n, Tail(s), i) /\ Away(Tail(s), i)
      BY <2>1, <2>3 DEF Moving, Away
    <2> QED BY <1>1, <2>1, <2>3, <2>4, <2>5, OpNames DEF Continues
  <1> QED BY <1>2, <1>3, GoesNext

LEMMA WriteLanding ==
    ASSUME TargetsWait, NEW d \in Rows, NEW i \in Instances, NEW s \in Seq(StoreCalls), NEW t \in Elements,
           d.state[i] = "running", ActiveIn(d, i) = {}, TokenAt(d, i, t), Landing(s, i, t)
    PROVE  /\ s # <<>> /\ s[1].op \notin {"complete", "reassign"}
           /\ Touches(d, Applied(d, s[1]), i) /\ Continues(Applied(d, s[1]), Tail(s), i)
  <1>1. s # <<>> /\ Lands(s[1], i, t) /\ \A j \in 2..Len(s) : s[j].op \in Loose
    BY DEF Landing
  <1>2. Quiet(Tail(s))
    BY <1>1, TailFacts DEF Quiet, Harmless
  <1>3. CASE s[1] = [op |-> "activity", inst |-> i, element |-> t, parent |-> 0]
    <2>1. PICK n : n = NewActivityInstance(d, i, t, 0)
      OBVIOUS
    <2>2. PICK b : b = Len(d.acts) + 1
      OBVIOUS
    <2>3. /\ n.tokens = d.tokens /\ n.state = d.state /\ Touches(d, n, i)
          /\ b \in DOMAIN n.acts /\ n.acts[b].element = t /\ ActiveIn(n, i) = ActiveIn(d, i) \cup {b}
      BY <2>1, <2>2, NewActivityEffect
    <2>4. Settled(n, i)
      BY <2>3 DEF Settled, Rests, TokenAt
    <2>5. Applied(d, s[1]) = n
      BY <1>3, <2>1 DEF Applied
    <2> QED BY <1>1, <1>2, <1>3, <2>3, <2>4, <2>5, OpNames DEF Continues
  <1>4. CASE s[1] = At("navigate", i, t) /\ ElementType[t] = "endEvent"
    <2>1. PICK n : n = takeSequenceFlow(d, i, t)
      OBVIOUS
    <2>2. navigateFrom(d, i, t) = {n}
      BY <1>4, <2>1 DEF navigateFrom, TargetsWait
    <2>3. Applied(d, s[1]) = n
      BY <1>4, <2>2 DEF Applied, At
    <2>4. Touches(d, n, i) /\ Settled(n, i)
      BY <1>4, <2>1, ArriveSettles
    <2> QED BY <1>1, <1>2, <1>4, <2>3, <2>4, OpNames DEF Continues
  <1> QED BY <1>1, <1>3, <1>4 DEF Lands

LEMMA WriteDropping ==
    ASSUME NEW d \in Rows, NEW i \in Instances, NEW s \in Seq(StoreCalls),
           d.state[i] = "running", ActiveIn(d, i) = {}, Drops(s, 1, i)
    PROVE  /\ s # <<>> /\ s[1].op = "drain"
           /\ Touches(d, Applied(d, s[1]), i) /\ Continues(Applied(d, s[1]), Tail(s), i)
  <1>1. /\ s # <<>> /\ Len(s) = 2 /\ s[1] = Drain(i)
        /\ s[2] = Reject(i)
    BY DEF Drops
  <1>2. Rejecting(Tail(s), i)
    BY <1>1, TailFacts DEF Rejecting
  <1>3. PICK n : n = [d EXCEPT !.tokens[i] = [e \in Elements |-> 0]]
    OBVIOUS
  <1>4. n.state[i] = "running" /\ NoToken(n, i) /\ Touches(d, n, i) /\ ActiveIn(n, i) = {}
    BY <1>3, DrainEffect
  <1>5. Applied(d, s[1]) = n
    BY <1>1, <1>3 DEF Applied, Drain, Reject
  <1>6. Moving(n, Tail(s), i) /\ Away(Tail(s), i)
    BY <1>2, <1>4 DEF Moving, Away
  <1> QED BY <1>1, <1>4, <1>5, <1>6, OpNames DEF Continues

LEMMA WriteRejecting ==
    ASSUME NEW d \in Rows, NEW i \in Instances, NEW s \in Seq(StoreCalls),
           ActiveIn(d, i) = {}, NoToken(d, i), Rejecting(s, i)
    PROVE  /\ s # <<>> /\ s[1].op = "reject"
           /\ Touches(d, Applied(d, s[1]), i) /\ Continues(Applied(d, s[1]), Tail(s), i)
  <1>1. s # <<>> /\ Len(s) = 1 /\ s[1] = Reject(i)
    BY DEF Rejecting
  <1>2. Quiet(Tail(s))
    <2>1. Len(Tail(s)) = Len(s) - 1
      BY <1>1, TailFacts
    <2>2. Len(Tail(s)) = 0
      BY <1>1, <2>1
    <2> QED BY <2>2 DEF Quiet
  <1>3. PICK n : n = [d EXCEPT !.state[i] = "rejected"]
    OBVIOUS
  <1>4. n.state[i] = "rejected" /\ n.tokens[i] = d.tokens[i] /\ Touches(d, n, i) /\ ActiveIn(n, i) = {}
    BY <1>3, StateEffect
  <1>5. Applied(d, s[1]) = n
    BY <1>1, <1>3 DEF Applied, Drain, Reject
  <1>6. Settled(n, i)
    BY <1>4 DEF Settled, Over, NoToken
  <1> QED BY <1>1, <1>2, <1>4, <1>5, <1>6, OpNames DEF Continues

LEMMA WriteAway ==
    ASSUME TargetsWait, NEW d \in Rows, NEW i \in Instances, NEW s \in Seq(StoreCalls), Moving(d, s, i),
           s # <<>> /\ s[1].op = "delegate" => s[1].act \in DOMAIN d.acts
    PROVE  /\ s # <<>> /\ s[1].op \notin {"complete", "reassign"}
           /\ Touches(d, Applied(d, s[1]), i) /\ Continues(Applied(d, s[1]), Tail(s), i)
  <1>1. d.state[i] = "running" /\ ActiveIn(d, i) = {}
    BY DEF Moving
  <1>2. CASE \E e \in Elements : Consuming(s, i, e) /\ TokenAt(d, i, e)
    BY <1>1, <1>2, WriteConsuming
  <1>3. CASE Goes(s, 1, i) /\ NoToken(d, i)
    BY <1>1, <1>3, WriteGoing, GoesNext
  <1>4. CASE \E t \in Elements : Landing(s, i, t) /\ TokenAt(d, i, t)
    BY <1>1, <1>4, WriteLanding
  <1>5. CASE Drops(s, 1, i)
    BY <1>1, <1>5, WriteDropping
  <1>6. CASE Rejecting(s, i) /\ NoToken(d, i)
    BY <1>1, <1>6, WriteRejecting
  <1> QED BY <1>2, <1>3, <1>4, <1>5, <1>6 DEF Moving

\* The first write of a request that finds its task as it was.
LEMMA WriteArmed ==
    ASSUME NEW d \in Rows, NEW s \in Seq(StoreCalls), NEW serial \in BOOLEAN, Armed(d, s, serial),
           ~Conflicts(d, s[1]), NEW i \in Instances, i = d.acts[s[1].act].inst,
           d.acts[s[1].act].state = "active" => Rests(d, i)
    PROVE  /\ s # <<>>
           /\ Touches(d, Applied(d, s[1]), i) /\ Continues(Applied(d, s[1]), Tail(s), i)
  <1>1. PICK a, e : a = s[1].act /\ e = d.acts[a].element
    OBVIOUS
  <1>2. /\ s # <<>> /\ Len(s) >= 3 /\ s[1].op = "complete" /\ a \in DOMAIN d.acts
        /\ s[1].version = d.acts[a].version => d.acts[a].state = "active"
        /\ (s[2] = At("consume", i, e) /\ Goes(s, 3, i)) \/ Drops(s, 2, i)
    BY <1>1 DEF Armed
  <1>3. d.acts[a].state = "active" /\ d.acts[a].inst = i /\ e \in Elements
    BY <1>1, <1>2, ActivityFacts DEF Conflicts
  <1>4. PICK b \in DOMAIN d.acts :
           d.state[i] = "running" /\ ActiveIn(d, i) = {b} /\ TokenAt(d, i, d.acts[b].element)
    BY <1>1, <1>3 DEF Rests
  <1>5. a = b
    BY <1>2, <1>3, <1>4 DEF ActiveIn
  <1>6. PICK n : n = Complete(d, a)
    OBVIOUS
  <1>7. /\ n.tokens = d.tokens /\ n.state = d.state /\ Touches(d, n, i)
        /\ ActiveIn(n, i) = ActiveIn(d, i) \ {a}
    BY <1>2, <1>3, <1>6, CompleteEffect
  <1>8. n.state[i] = "running" /\ ActiveIn(n, i) = {} /\ TokenAt(n, i, e)
    BY <1>1, <1>4, <1>5, <1>7 DEF TokenAt
  <1>9. Applied(d, s[1]) = n
    BY <1>1, <1>2, <1>6 DEF Applied
  <1>10. /\ Len(Tail(s)) = Len(s) - 1 /\ Len(s) \in Nat
         /\ \A k \in 1..(Len(s) - 1) : Tail(s)[k] = s[k + 1]
    BY <1>2, TailFacts
  <1>11. CASE s[2] = At("consume", i, e) /\ Goes(s, 3, i)
    <2>1. Goes(Tail(s), 2, i)
      <3>1. Goes(s, 2 + 1, i) /\ 2 \in Nat /\ 2 >= 1
        BY <1>11
      <3> QED BY <1>2, <3>1, GoesTail
    <2>2. Consuming(Tail(s), i, e)
      BY <1>2, <1>10, <1>11, <2>1 DEF Consuming
    <2> QED BY <1>2, <1>3, <1>7, <1>8, <1>9, <2>2 DEF Continues, Moving, Away
  <1>12. CASE Drops(s, 2, i)
    <2>1. Drops(Tail(s), 1, i)
      <3>1. PICK r : r = Tail(s)
        OBVIOUS
      <3>2. Len(s) = 3 /\ s[2] = Drain(i) /\ s[2 + 1] = Reject(i)
        BY <1>12 DEF Drops
      <3>3. Len(r) = Len(s) - 1 /\ \A k \in 1..(Len(s) - 1) : r[k] = s[k + 1]
        BY <1>10, <3>1
      <3>4. Len(r) = 1 + 1
        BY <3>2, <3>3
      <3>5. r[1] = Drain(i)
        BY <3>2, <3>3
      <3>6. r[1 + 1] = Reject(i)
        BY <3>2, <3>3
      <3>7. Drops(r, 1, i)
        BY <3>4, <3>5, <3>6 DEF Drops
      <3> QED BY <3>1, <3>7
    <2> QED BY <1>2, <1>7, <1>8, <1>9, <2>1 DEF Continues, Moving, Away
  <1> QED BY <1>2, <1>11, <1>12

-----------------------------------------------------------------------------
(* Steps keep the order of rows and requests *)

LEMMA Serials ==
    ASSUME NEW u \in Usages
    PROVE  u.serial \in BOOLEAN
  BY OperationsAssumption

LEMMA KnowsMore ==
    ASSUME NEW d, NEW n, NEW s, Knows(d, s), DOMAIN d.acts \subseteq DOMAIN n.acts
    PROVE  Knows(n, s)
  BY DEF Knows

LEMMA KnowsTail ==
    ASSUME NEW d, NEW s \in Seq(StoreCalls), s # <<>>, Knows(d, s)
    PROVE  Knows(d, Tail(s))
  <1>1. /\ Len(s) \in Nat /\ Len(Tail(s)) = Len(s) - 1
        /\ \A k \in 1..(Len(s) - 1) : Tail(s)[k] = s[k + 1]
    BY TailFacts
  <1>2. ASSUME NEW k \in 1..Len(Tail(s)), Tail(s)[k].op \in {"complete", "reassign", "delegate"}
        PROVE  Tail(s)[k].act \in DOMAIN d.acts
    <2>1. k + 1 \in 1..Len(s) /\ k \in 1..(Len(s) - 1)
      BY <1>1
    <2> QED BY <1>1, <1>2, <2>1 DEF Knows
  <1> QED BY <1>2 DEF Knows

\* A step beside the requests: a completion, a start.
LEMMA StepBeside ==
    ASSUME NEW d, NEW f, NEW u, Orders(d, f, u), NEW i \in Instances, NEW n,
           Touches(d, n, i), Settled(n, i), \A w \in Workers : ~Away(f[w], i),
           \/ ~u.serial
           \/ Grows(d, n)
           \/ \A w \in Workers : f[w] = <<>>
    PROVE  Orders(n, f, u)
  <1>1. d \in Rows /\ n \in Rows /\ f \in [Workers -> Seq(StoreCalls)] /\ u \in Usages
    BY DEF Orders, Touches
  <1>2. \A w \in Workers : Knows(n, f[w])
    BY KnowsMore DEF Orders, Touches
  <1>3. ASSUME NEW w \in Workers
        PROVE  Quiet(f[w]) \/ Armed(n, f[w], u.serial) \/ \E j \in Instances : Away(f[w], j)
    <2>1. CASE Quiet(f[w]) \/ \E j \in Instances : Away(f[w], j)
      BY <2>1
    <2>2. CASE Armed(d, f[w], u.serial)
      <3>1. f[w] # <<>> /\ f[w] \in Seq(StoreCalls)
        BY <1>1, <2>2 DEF Armed
      <3>2. f[w][1].version \in Nat
        BY <2>2, <3>1, TailFacts, CallTypes DEF Armed
      <3>3. ~u.serial \/ Grows(d, n)
        BY <3>1
      <3> QED BY <1>1, <2>2, <3>2, <3>3, Serials, ArmedStays
    <2> QED BY <2>1, <2>2 DEF Orders, Shapes
  <1>4. ASSUME NEW w \in Workers, NEW j \in Instances, Away(f[w], j)
        PROVE  Moving(n, f[w], j)
    <2>1. j # i /\ Moving(d, f[w], j)
      BY <1>4 DEF Orders, Placed
    <2> QED BY <1>1, <2>1, MovingElsewhere
  <1>5. ASSUME NEW j \in Instances
        PROVE  Settled(n, j) \/ \E w \in Workers : Away(f[w], j)
    BY <1>1, SettledElsewhere DEF Orders, Attended
  <1> QED BY <1>1, <1>2, <1>3, <1>4, <1>5 DEF Orders, Shapes, Placed, Attended

\* What request w does next: it takes up r, goes on with r, or ends.
LEMMA OnlyChanged ==
    ASSUME NEW f \in [Workers -> Seq(StoreCalls)], NEW w \in Workers, NEW r \in Seq(StoreCalls)
    PROVE  LET g == [f EXCEPT ![w] = r]
           IN  /\ g \in [Workers -> Seq(StoreCalls)] /\ g[w] = r
               /\ \A v \in Workers : v # w => g[v] = f[v]
  OBVIOUS

\* A request that moves no token makes a write that does no harm, or none.
LEMMA StepQuiet ==
    ASSUME NEW d, NEW f, NEW u, Orders(d, f, u), NEW w \in Workers, NEW n, Calm(d, n),
           \A i \in Instances : ~Away(f[w], i),
           n = d \/ f[w] # <<>>,
           NEW r \in Seq(StoreCalls), Quiet(r) \/ Armed(n, r, u.serial), Knows(n, r),
           r # <<>> => f[w] # <<>> \/ (u.serial => \A v \in Workers : f[v] = <<>>),
           "crash" \in u.kinds => Quiet(r),
           NEW g, g = [f EXCEPT ![w] = r]
    PROVE  Orders(n, g, u)
  <1>1. d \in Rows /\ n \in Rows /\ f \in [Workers -> Seq(StoreCalls)] /\ u \in Usages
    BY DEF Orders, Calm
  <1>2. /\ g \in [Workers -> Seq(StoreCalls)] /\ g[w] = r
        /\ \A v \in Workers : v # w => g[v] = f[v]
    BY <1>1, OnlyChanged
  <1>3. \A i \in Instances : ~Away(r, i)
    BY QuietNotAway, ArmedNotAway DEF Armed
  <1>4. ASSUME NEW v \in Workers
        PROVE  Knows(n, g[v])
    BY <1>2, KnowsMore DEF Orders, Calm
  <1>5. OneBusy(g, u)
    <2>1. ASSUME u.serial, NEW v \in Workers, NEW x \in Workers, g[v] # <<>>, g[x] # <<>>
          PROVE  v = x
      BY <1>2, <2>1 DEF Orders, OneBusy
    <2>2. ASSUME "crash" \in u.kinds, NEW v \in Workers
          PROVE  Quiet(g[v])
      BY <1>2, <2>2 DEF Orders, OneBusy
    <2> QED BY <2>1, <2>2 DEF OneBusy
  <1>6. ASSUME NEW v \in Workers
        PROVE  Quiet(g[v]) \/ Armed(n, g[v], u.serial) \/ \E i \in Instances : Away(g[v], i)
    <2>1. CASE v = w
      BY <1>2, <2>1
    <2>2. CASE v # w /\ (Quiet(f[v]) \/ \E i \in Instances : Away(f[v], i))
      BY <1>2, <2>2
    <2>3. CASE v # w /\ Armed(d, f[v], u.serial)
      <3>1. f[v] # <<>> /\ f[v] \in Seq(StoreCalls)
        BY <1>1, <2>3 DEF Armed
      <3>2. f[v][1].version \in Nat
        BY <2>3, <3>1, TailFacts, CallTypes DEF Armed
      <3>3. CASE n = d
        BY <1>2, <2>3, <3>3
      <3>4. CASE f[w] # <<>>
        <4>1. ~u.serial
          BY <2>3, <3>1, <3>4 DEF Orders, OneBusy
        <4>2. Touches(d, n, d.acts[f[v][1].act].inst)
          BY CalmTouches
        <4>3. Armed(n, f[v], u.serial)
          BY <1>1, <2>3, <3>2, <4>1, <4>2, Serials, ArmedStays
        <4> QED BY <1>2, <2>3, <4>3
      <3> QED BY <3>3, <3>4
    <2> QED BY <2>1, <2>2, <2>3 DEF Orders, Shapes
  <1>7. ASSUME NEW v \in Workers, NEW i \in Instances, Away(g[v], i)
        PROVE  v # w /\ g[v] = f[v] /\ Moving(n, g[v], i)
    <2>1. v # w /\ g[v] = f[v]
      BY <1>2, <1>3, <1>7
    <2>2. Moving(d, f[v], i)
      BY <1>7, <2>1 DEF Orders, Placed
    <2> QED BY <1>1, <2>1, <2>2, CalmKeeps
  <1>8. ASSUME NEW v \in Workers, NEW x \in Workers, NEW i \in Instances, Away(g[v], i), Away(g[x], i)
        PROVE  v = x
    BY <1>7, <1>8 DEF Orders, Placed
  <1>9. ASSUME NEW i \in Instances
        PROVE  Settled(n, i) \/ \E v \in Workers : Away(g[v], i)
    BY <1>1, <1>2, CalmKeeps DEF Orders, Attended
  <1> QED BY <1>1, <1>2, <1>4, <1>5, <1>6, <1>7, <1>8, <1>9 DEF Orders, Shapes, Placed, Attended

\* A request that moves the token of i makes its next write.
LEMMA StepMoves ==
    ASSUME NEW d, NEW f, NEW u, Orders(d, f, u), NEW w \in Workers, NEW i \in Instances, NEW n,
           Touches(d, n, i), f[w] # <<>>, "crash" \notin u.kinds,
           \A j \in Instances : Away(f[w], j) => j = i,
           \A v \in Workers : v # w => ~Away(f[v], i),
           NEW r \in Seq(StoreCalls), Knows(n, r), Continues(n, r, i),
           NEW g, g = [f EXCEPT ![w] = r]
    PROVE  Orders(n, g, u)
  <1>1. d \in Rows /\ n \in Rows /\ f \in [Workers -> Seq(StoreCalls)] /\ u \in Usages
    BY DEF Orders, Touches
  <1>2. /\ g \in [Workers -> Seq(StoreCalls)] /\ g[w] = r
        /\ \A v \in Workers : v # w => g[v] = f[v]
    BY <1>1, OnlyChanged
  <1>3. \A j \in Instances : Away(r, j) => j = i
    BY QuietNotAway, AwayOnce DEF Continues
  <1>4. ASSUME NEW v \in Workers
        PROVE  Knows(n, g[v])
    BY <1>2, KnowsMore DEF Orders, Touches
  <1>5. OneBusy(g, u)
    BY <1>2 DEF Orders, OneBusy
  <1>6. ASSUME NEW v \in Workers
        PROVE  Quiet(g[v]) \/ Armed(n, g[v], u.serial) \/ \E j \in Instances : Away(g[v], j)
    <2>1. CASE v = w
      BY <1>2, <2>1 DEF Continues
    <2>2. CASE v # w /\ (Quiet(f[v]) \/ \E j \in Instances : Away(f[v], j))
      BY <1>2, <2>2
    <2>3. CASE v # w /\ Armed(d, f[v], u.serial)
      <3>1. f[v] # <<>> /\ f[v] \in Seq(StoreCalls)
        BY <1>1, <2>3 DEF Armed
      <3>2. f[v][1].version \in Nat
        BY <2>3, <3>1, TailFacts, CallTypes DEF Armed
      <3>3. ~u.serial
        BY <2>3, <3>1 DEF Orders, OneBusy
      <3>4. Armed(n, f[v], u.serial)
        BY <1>1, <2>3, <3>2, <3>3, Serials, ArmedStays
      <3> QED BY <1>2, <2>3, <3>4
    <2> QED BY <2>1, <2>2, <2>3 DEF Orders, Shapes
  <1>7. ASSUME NEW v \in Workers, NEW j \in Instances, Away(g[v], j)
        PROVE  Moving(n, g[v], j)
    <2>1. CASE v = w
      <3>1. j = i /\ Away(r, i)
        BY <1>2, <1>3, <1>7, <2>1
      <3> QED BY <1>2, <2>1, <3>1, QuietNotAway DEF Continues
    <2>2. CASE v # w
      <3>1. Away(f[v], j) /\ g[v] = f[v] /\ j # i
        BY <1>2, <1>7, <2>2
      <3>2. Moving(d, f[v], j)
        BY <3>1 DEF Orders, Placed
      <3> QED BY <1>1, <3>1, <3>2, MovingElsewhere
    <2> QED BY <2>1, <2>2
  <1>8. ASSUME NEW v \in Workers, NEW x \in Workers, NEW j \in Instances, Away(g[v], j), Away(g[x], j)
        PROVE  v = x
    <2>1. CASE v # w /\ x # w
      BY <1>2, <1>8, <2>1 DEF Orders, Placed
    <2>2. CASE v = w \/ x = w
      BY <1>2, <1>3, <1>8, <2>2
    <2> QED BY <2>1, <2>2
  <1>9. ASSUME NEW j \in Instances
        PROVE  Settled(n, j) \/ \E v \in Workers : Away(g[v], j)
    <2>1. CASE j = i
      BY <1>2, <2>1 DEF Continues
    <2>2. CASE j # i /\ Settled(d, j)
      BY <1>1, <2>2, SettledElsewhere
    <2>3. CASE j # i /\ \E v \in Workers : Away(f[v], j)
      BY <1>2, <2>3
    <2> QED BY <2>1, <2>2, <2>3 DEF Orders, Attended
  <1> QED BY <1>1, <1>2, <1>4, <1>5, <1>6, <1>7, <1>8, <1>9 DEF Orders, Shapes, Placed, Attended

-----------------------------------------------------------------------------
(* The writes a request starts with *)

Joins(s, p, q) ==
    /\ s \in Seq(StoreCalls) /\ Len(s) = Len(p) + Len(q)
    /\ \A k \in 1..Len(p) : s[k] = p[k]
    /\ \A k \in 1..Len(q) : s[Len(p) + k] = q[k]

LEMMA Concat ==
    ASSUME NEW p \in Seq(StoreCalls), NEW q \in Seq(StoreCalls)
    PROVE  Joins(p \o q, p, q)
  BY DEF Joins

LEMMA KnowsConcat ==
    ASSUME NEW p \in Seq(StoreCalls), NEW q \in Seq(StoreCalls), NEW d, Knows(d, p), Knows(d, q), NEW s, Joins(s, p, q)
    PROVE  Knows(d, s)
  <1>1. Len(p) \in Nat /\ Len(q) \in Nat
    OBVIOUS
  <1>2. ASSUME NEW k \in 1..Len(s), s[k].op \in {"complete", "reassign", "delegate"}
        PROVE  s[k].act \in DOMAIN d.acts
    <2>1. CASE k <= Len(p)
      BY <1>1, <1>2, <2>1 DEF Joins, Knows
    <2>2. CASE k > Len(p)
      <3>1. k - Len(p) \in 1..Len(q) /\ Len(p) + (k - Len(p)) = k
        BY <1>1, <2>2 DEF Joins
      <3> QED BY <1>2, <3>1 DEF Joins, Knows
    <2> QED BY <1>1, <2>1, <2>2
  <1> QED BY <1>2 DEF Knows

\* A token and its landing after a completion.
LEMMA GoesAfter ==
    ASSUME NEW p \in Seq(StoreCalls), NEW q \in Seq(StoreCalls), NEW i, NEW t \in Elements,
           Len(p) >= 2, Len(q) = 2, q[1] = At("token", i, t), Lands(q[2], i, t),
           \A k \in 3..Len(p) : p[k].op \in Loose,
           NEW s, Joins(s, p, q)
    PROVE  Goes(s, 3, i) /\ Len(s) >= 3 /\ s[1] = p[1] /\ s[2] = p[2]
  <1>1. Len(p) \in Nat /\ Len(s) = Len(p) + 2 /\ Len(s) \in Nat
    BY DEF Joins
  <1>2. PICK k : k = Len(p) + 1
    OBVIOUS
  <1>3. k \in 3..(Len(s) - 1) /\ 1 \in 1..Len(q) /\ 2 \in 1..Len(q)
    BY <1>1, <1>2
  <1>4. s[k] = q[1]
    BY <1>2, <1>3 DEF Joins
  <1>5. s[Len(p) + 2] = q[2] /\ k + 1 = Len(p) + 2
    BY <1>1, <1>2, <1>3 DEF Joins
  <1>6. ASSUME NEW j \in 3..Len(s), j # k, j # k + 1
        PROVE  s[j].op \in Loose
    <2>1. j \in 3..Len(p) /\ j \in 1..Len(p)
      BY <1>1, <1>2, <1>6
    <2> QED BY <2>1 DEF Joins
  <1>7. s[1] = p[1] /\ s[2] = p[2]
    BY <1>1 DEF Joins
  <1>8. s[k] = At("token", i, t) /\ Lands(s[k + 1], i, t)
    BY <1>4, <1>5
  <1>9. Goes(s, 3, i)
    BY <1>3, <1>6, <1>8 DEF Goes
  <1> QED BY <1>1, <1>7, <1>9

LEMMA GoesLonger ==
    ASSUME NEW p \in Seq(StoreCalls), NEW q \in Seq(StoreCalls), NEW i, Goes(p, 3, i),
           \A k \in 1..Len(q) : q[k].op \in Loose,
           NEW s, Joins(s, p, q)
    PROVE  Goes(s, 3, i) /\ Len(s) >= 3 /\ s[1] = p[1] /\ s[2] = p[2]
  <1>1. Len(p) \in Nat /\ Len(q) \in Nat /\ Len(s) = Len(p) + Len(q)
    BY DEF Joins
  <1>2. PICK k \in 3..(Len(p) - 1), t \in Elements :
           /\ p[k] = At("token", i, t)
           /\ Lands(p[k + 1], i, t)
           /\ \A j \in 3..Len(p) : (j # k /\ j # k + 1) => p[j].op \in Loose
    BY DEF Goes
  <1>3. k \in 3..(Len(s) - 1) /\ k \in 1..Len(p) /\ k + 1 \in 1..Len(p) /\ Len(s) >= 3
    BY <1>1, <1>2
  <1>4. s[k] = p[k] /\ s[k + 1] = p[k + 1]
    BY <1>3 DEF Joins
  <1>5. ASSUME NEW j \in 3..Len(s), j # k, j # k + 1
        PROVE  s[j].op \in Loose
    <2>1. CASE j <= Len(p)
      <3>1. j \in 3..Len(p) /\ j \in 1..Len(p)
        BY <1>1, <2>1
      <3> QED BY <1>2, <1>5, <3>1 DEF Joins
    <2>2. CASE j > Len(p)
      <3>1. j - Len(p) \in 1..Len(q) /\ Len(p) + (j - Len(p)) = j
        BY <1>1, <2>2
      <3> QED BY <3>1 DEF Joins
    <2> QED BY <1>1, <2>1, <2>2
  <1>6. 1 \in 1..Len(p) /\ 2 \in 1..Len(p)
    BY <1>1, <1>2
  <1>7. s[1] = p[1] /\ s[2] = p[2]
    BY <1>6 DEF Joins
  <1>8. s[k] = At("token", i, t) /\ Lands(s[k + 1], i, t)
    BY <1>2, <1>4
  <1>9. Goes(s, 3, i)
    BY <1>3, <1>5, <1>8 DEF Goes
  <1> QED BY <1>3, <1>7, <1>9

LEMMA CallsTyped ==
    ASSUME NEW a \in Nat, a # 0, NEW i \in Instances, NEW e \in Elements,
           NEW v \in Nat, NEW b \in BOOLEAN, NEW n \in Nat
    PROVE  /\ [op |-> "complete", act |-> a, version |-> v, strict |-> b] \in StoreCalls
           /\ At("consume", i, e) \in StoreCalls
           /\ At("token", i, e) \in StoreCalls
           /\ At("navigate", i, e) \in StoreCalls
           /\ [op |-> "activity", inst |-> i, element |-> e, parent |-> 0] \in StoreCalls
           /\ On("signs", a) \in StoreCalls
           /\ On("sessions", a) \in StoreCalls
           /\ Undelegate(a) \in StoreCalls
           /\ [op |-> "rejection", inst |-> i, count |-> n] \in StoreCalls
           /\ Drain(i) \in StoreCalls
           /\ Reject(i) \in StoreCalls
  BY DEF At, On, Undelegate, Drain, Reject, StoreCalls

LEMMA DelegateTyped ==
    ASSUME NEW a \in Nat, NEW b \in BOOLEAN
    PROVE  [op |-> "delegate", act |-> a, value |-> b] \in StoreCalls
  BY DEF StoreCalls

LEMMA ReassignTyped ==
    ASSUME NEW a \in Nat, NEW v \in Nat, NEW z \in {"assignee", "term"}, NEW y \in 0..2
    PROVE  [op |-> "reassign", act |-> a, version |-> v, strict |-> TRUE, field |-> z, value |-> y] \in StoreCalls
  BY DEF StoreCalls

\* A token with an activity or with the navigation that ends it.
LEMMA Landings ==
    ASSUME NEW d, NEW i \in Instances, NEW t \in Elements
    PROVE  /\ LET q == Reopen(i, t)
              IN  /\ q \in Seq(StoreCalls) /\ Len(q) = 2 /\ q[1] = At("token", i, t) /\ Lands(q[2], i, t)
                  /\ Knows(d, q)
           /\ LET q == <<At("token", i, t), At("navigate", i, t)>>
              IN  /\ q \in Seq(StoreCalls) /\ Len(q) = 2 /\ q[1] = At("token", i, t)
                  /\ ElementType[t] = "endEvent" => Lands(q[2], i, t)
                  /\ Knows(d, q)
  <1>0. /\ At("token", i, t) \in StoreCalls /\ At("navigate", i, t) \in StoreCalls
        /\ [op |-> "activity", inst |-> i, element |-> t, parent |-> 0] \in StoreCalls
    BY DEF StoreCalls, At
  <1>1. /\ Reopen(i, t) \in Seq(StoreCalls) /\ Len(Reopen(i, t)) = 2 /\ Reopen(i, t)[1] = At("token", i, t)
        /\ Reopen(i, t)[2] = [op |-> "activity", inst |-> i, element |-> t, parent |-> 0]
    BY <1>0 DEF Reopen
  <1>2. PICK q : q = <<At("token", i, t), At("navigate", i, t)>>
    OBVIOUS
  <1>3. q \in Seq(StoreCalls) /\ Len(q) = 2 /\ q[1] = At("token", i, t) /\ q[2] = At("navigate", i, t)
    BY <1>0, <1>2
  <1>4. Lands(Reopen(i, t)[2], i, t) /\ Knows(d, Reopen(i, t))
    BY <1>1, OpNames DEF Lands, Knows
  <1>5. (ElementType[t] = "endEvent" => Lands(q[2], i, t)) /\ Knows(d, q)
    BY <1>3, OpNames DEF Lands, Knows
  <1> QED BY <1>1, <1>2, <1>3, <1>4, <1>5

-----------------------------------------------------------------------------
(* Requests are taken up *)

LEMMA ServeKeeps ==
    ASSUME Inv, NEW w \in Workers, NEW kind, NEW r \in Seq(StoreCalls), Serve(w, kind, r),
           Quiet(r) \/ Armed(db, r, usage.serial), Knows(db, r), "crash" \in usage.kinds => Quiet(r)
    PROVE  Inv'
  <1>1. Orders(db, todo, usage) /\ SweepInv /\ db \in Rows /\ todo \in [Workers -> Seq(StoreCalls)]
    BY DEF Inv, Orders
  <1>2. /\ todo[w] = <<>> /\ todo' = [todo EXCEPT ![w] = r]
        /\ usage.serial => \A v \in Workers : todo[v] = <<>>
        /\ db' = db /\ usage' = usage /\ sweep' = sweep
    BY DEF Serve, Idle
  <1>3. \A i \in Instances : ~Away(todo[w], i)
    BY <1>1, <1>2, EmptyQuiet, QuietNotAway
  <1>4. Calm(db, db)
    BY <1>1, CalmSame
  <1>5. Orders(db, todo', usage)
    BY <1>1, <1>2, <1>3, <1>4, StepQuiet
  <1>6. Orders(db', todo', usage')
    BY <1>2, <1>5
  <1>7. SweepInv'
    BY <1>1, <1>2 DEF SweepInv
  <1> QED BY <1>6, <1>7 DEF Inv

LEMMA ArmedFresh ==
    ASSUME NEW d \in Rows, NEW a \in DOMAIN d.acts, d.acts[a].state = "active",
           NEW serial \in BOOLEAN, NEW strict \in BOOLEAN, strict \/ serial,
           NEW r \in Seq(StoreCalls), Len(r) >= 3,
           r[1] = [op |-> "complete", act |-> a, version |-> d.acts[a].version, strict |-> strict],
           \/ r[2] = At("consume", d.acts[a].inst, d.acts[a].element) /\ Goes(r, 3, d.acts[a].inst)
           \/ Drops(r, 2, d.acts[a].inst)
    PROVE  Armed(d, r, serial)
  <1>1. /\ r[1].op = "complete" /\ r[1].act = a /\ r[1].version = d.acts[a].version
        /\ r[1].strict = strict
    OBVIOUS
  <1>2. d.acts[a].version \in Nat
    BY ActivityFacts
  <1> QED BY <1>1, <1>2 DEF Armed

\* What is read of an open task.
LEMMA TaskRead ==
    ASSUME Inv, NEW a \in DOMAIN db.acts
    PROVE  /\ db \in Rows /\ a \in Nat /\ a # 0 /\ usage \in Usages /\ usage.serial \in BOOLEAN
           /\ db.acts[a].inst \in Instances /\ db.acts[a].element \in Elements
           /\ db.acts[a].version \in Nat /\ db.acts[a].parent = 0
           /\ db.rejections[db.acts[a].inst] \in Nat
           /\ db.recent[db.acts[a].inst] \in [last : Place, before : Place]
  <1>1. db \in Rows /\ usage \in Usages
    BY DEF Inv, Orders
  <1>2. db.acts[a].inst \in Instances
    BY <1>1, ActivityFacts
  <1>3. /\ db.rejections[db.acts[a].inst] \in Nat
        /\ db.recent[db.acts[a].inst] \in [last : Place, before : Place]
    BY <1>1, <1>2, RowFacts
  <1> QED BY <1>1, <1>3, ActivityFacts, Serials

LEMMA QuietRequests ==
    ASSUME Inv, NEW w \in Workers, NEW a \in DOMAIN db.acts,
           \/ DelegateTask(w, a)
           \/ TransferTask(w, a)
           \/ \E termMode \in {1, 2} : SetTimeout(w, a, termMode)
    PROVE  Inv'
  <1>1. a \in Nat /\ db.acts[a].version \in Nat
    BY TaskRead
  <1>2. \A z \in {"assignee", "term"}, y \in 0..2 :
           /\ Reassign(a, z, y) \in StoreCalls
           /\ Reassign(a, z, y).op = "reassign" /\ Reassign(a, z, y).act = a
    BY <1>1, ReassignTyped DEF Reassign
  <1>3. ASSUME NEW z \in {"assignee", "term"}, NEW y \in 0..2, NEW kind, Serve(w, kind, <<Reassign(a, z, y)>>)
        PROVE  Inv'
    <2>1. PICK r : r = <<Reassign(a, z, y)>>
      OBVIOUS
    <2>2. r \in Seq(StoreCalls) /\ Len(r) = 1 /\ r[1] = Reassign(a, z, y)
      BY <1>2, <2>1
    <2>3. Quiet(r) /\ Knows(db, r)
      BY <1>2, <2>2 DEF Quiet, Knows, Harmless
    <2> QED BY <1>3, <2>1, <2>2, <2>3, ServeKeeps
  <1>4. CASE DelegateTask(w, a)
    <2>1. PICK x, y : x = [op |-> "delegate", act |-> a, value |-> TRUE] /\ y = Reassign(a, "assignee", 0)
      OBVIOUS
    <2>2. x \in StoreCalls /\ x.op = "delegate" /\ x.act = a
      BY <1>1, <2>1, DelegateTyped
    <2>3. y \in StoreCalls /\ y.op = "reassign" /\ y.act = a
      BY <1>2, <2>1
    <2>4. PICK r : r = <<x, y>>
      OBVIOUS
    <2>5. r \in Seq(StoreCalls) /\ Len(r) = 2 /\ r[1] = x /\ r[2] = y
      BY <2>2, <2>3, <2>4
    <2>6. Quiet(r) /\ Knows(db, r)
      BY <2>2, <2>3, <2>5 DEF Quiet, Knows, Harmless, Loose
    <2>7. Serve(w, "delegate", r)
      BY <1>4, <2>1, <2>4 DEF DelegateTask
    <2> QED BY <2>5, <2>6, <2>7, ServeKeeps
  <1>5. CASE TransferTask(w, a)
    <2>1. Serve(w, "transfer", <<Reassign(a, "assignee", 0)>>)
      BY <1>5 DEF TransferTask
    <2> QED BY <1>3, <2>1
  <1>6. CASE \E termMode \in {1, 2} : SetTimeout(w, a, termMode)
    <2>1. PICK m \in {1, 2} : Serve(w, "timeout", <<Reassign(a, "term", m)>>)
      BY <1>6 DEF SetTimeout
    <2> QED BY <1>3, <2>1
  <1> QED BY <1>4, <1>5, <1>6

LEMMA MovingUsage ==
    ASSUME Orderly, Inv, NEW w, NEW kind \in {"reject", "jump", "reclaim"}, NEW r, Serve(w, kind, r)
    PROVE  "crash" \notin usage.kinds /\ (kind # "jump" => usage.serial)
  <1>1. usage \in Usages /\ kind \in usage.kinds
    BY DEF Inv, Orders, Serve
  <1> QED BY <1>1 DEF Orderly

\* The completion and the consumption with which requests on task a begin.
LEMMA Begins ==
    ASSUME Inv, NEW a \in DOMAIN db.acts, NEW strict \in BOOLEAN
    PROVE  LET p == <<Update(a, strict), At("consume", db.acts[a].inst, db.acts[a].element)>>
           IN  /\ p \in Seq(StoreCalls) /\ Len(p) = 2 /\ p[1] = Update(a, strict)
               /\ p[2] = At("consume", db.acts[a].inst, db.acts[a].element) /\ Knows(db, p)
  <1>1. PICK x, y : x = Update(a, strict) /\ y = At("consume", db.acts[a].inst, db.acts[a].element)
    OBVIOUS
  <1>2. x \in StoreCalls /\ y \in StoreCalls /\ x.act = a /\ y.op = "consume"
    <2>1. x \in StoreCalls /\ x.act = a
      BY <1>1, TaskRead DEF Update, StoreCalls
    <2>2. y \in StoreCalls /\ y.op = "consume"
      BY <1>1, TaskRead DEF At, StoreCalls
    <2> QED BY <2>1, <2>2
  <1>3. PICK p : p = <<x, y>>
    OBVIOUS
  <1>4. p \in Seq(StoreCalls) /\ Len(p) = 2 /\ p[1] = x /\ p[2] = y
    BY <1>2, <1>3
  <1>5. Knows(db, p)
    BY <1>2, <1>4 DEF Knows
  <1> QED BY <1>1, <1>3, <1>4, <1>5

LEMMA ArmedUpdate ==
    ASSUME Inv, NEW a \in DOMAIN db.acts, Active(a), NEW strict \in BOOLEAN, strict \/ usage.serial,
           NEW r \in Seq(StoreCalls), Len(r) >= 3, r[1] = Update(a, strict),
           \/ r[2] = At("consume", db.acts[a].inst, db.acts[a].element) /\ Goes(r, 3, db.acts[a].inst)
           \/ Drops(r, 2, db.acts[a].inst)
    PROVE  Armed(db, r, usage.serial)
  <1>1. db \in Rows /\ usage.serial \in BOOLEAN /\ db.acts[a].state = "active"
    BY TaskRead DEF Active
  <1>2. r[1] = [op |-> "complete", act |-> a, version |-> db.acts[a].version, strict |-> strict]
    BY DEF Update
  <1> QED BY <1>1, <1>2, ArmedFresh

LEMMA RejectToKeeps ==
    ASSUME Orderly, Inv, NEW w \in Workers, NEW a \in DOMAIN db.acts, Active(a), NEW target, RejectTo(w, a, target)
    PROVE  Inv'
  <1>1. PICK i, e : i = db.acts[a].inst /\ e = db.acts[a].element
    OBVIOUS
  <1>2. i \in Instances /\ e \in Elements /\ target \in Elements /\ a \in Nat /\ a # 0
        /\ db.rejections[i] + 1 \in Nat
    BY <1>1, TaskRead DEF RejectTo
  <1>3. PICK p : p = <<Update(a, FALSE), At("consume", i, e)>>
    OBVIOUS
  <1>4. /\ p \in Seq(StoreCalls) /\ Len(p) = 2 /\ p[1] = Update(a, FALSE)
        /\ p[2] = At("consume", i, e) /\ Knows(db, p)
    BY <1>1, <1>3, Begins
  <1>5. PICK q : q = Reopen(i, target)
    OBVIOUS
  <1>6. /\ q \in Seq(StoreCalls) /\ Len(q) = 2 /\ q[1] = At("token", i, target)
        /\ Lands(q[2], i, target) /\ Knows(db, q)
    BY <1>2, <1>5, Landings
  <1>7. PICK x, y : /\ x = [op |-> "rejection", inst |-> i, count |-> db.rejections[i] + 1]
                    /\ y = Undelegate(a)
    OBVIOUS
  <1>8. /\ x \in StoreCalls /\ y \in StoreCalls /\ x.op = "rejection" /\ y.op = "delegate" /\ y.act = a
    <2>1. x \in StoreCalls /\ y \in StoreCalls
      BY <1>2, <1>7, CallsTyped
    <2> QED BY <1>7, <2>1 DEF Undelegate
  <1>9. PICK l : l = <<x, y>>
    OBVIOUS
  <1>10. l \in Seq(StoreCalls) /\ Len(l) = 2 /\ l[1] = x /\ l[2] = y
    BY <1>8, <1>9
  <1>11. Knows(db, l) /\ \A k \in 1..Len(l) : l[k].op \in Loose
    BY <1>8, <1>10 DEF Knows, Loose
  <1>12. PICK m : m = p \o q
    OBVIOUS
  <1>13. Joins(m, p, q)
    BY <1>4, <1>6, <1>12, Concat
  <1>14. m \in Seq(StoreCalls) /\ Knows(db, m) /\ Goes(m, 3, i) /\ m[1] = p[1] /\ m[2] = p[2]
    <2>1. \A k \in 3..Len(p) : p[k].op \in Loose
      BY <1>4
    <2>2. m \in Seq(StoreCalls) /\ Knows(db, m)
      BY <1>4, <1>6, <1>13, KnowsConcat DEF Joins
    <2>3. Len(p) >= 2
      BY <1>4
    <2> QED BY <1>2, <1>4, <1>6, <1>13, <2>1, <2>2, <2>3, GoesAfter
  <1>15. PICK r : r = m \o l
    OBVIOUS
  <1>16. Joins(r, m, l)
    BY <1>10, <1>14, <1>15, Concat
  <1>17. /\ r \in Seq(StoreCalls) /\ Knows(db, r) /\ Goes(r, 3, i) /\ Len(r) >= 3
         /\ r[1] = Update(a, FALSE) /\ r[2] = At("consume", i, e)
    <2>1. r \in Seq(StoreCalls) /\ Knows(db, r)
      BY <1>10, <1>11, <1>14, <1>16, KnowsConcat DEF Joins
    <2>2. Goes(r, 3, i) /\ Len(r) >= 3 /\ r[1] = m[1] /\ r[2] = m[2]
      BY <1>10, <1>11, <1>14, <1>16, GoesLonger
    <2> QED BY <1>4, <1>14, <2>1, <2>2
  <1>18. Serve(w, "reject", r)
    BY <1>1, <1>3, <1>5, <1>7, <1>9, <1>12, <1>15 DEF RejectTo
  <1>19. "crash" \notin usage.kinds /\ usage.serial
    BY <1>18, MovingUsage
  <1>20. Armed(db, r, usage.serial)
    BY <1>1, <1>17, <1>19, ArmedUpdate
  <1> QED BY <1>17, <1>18, <1>19, <1>20, ServeKeeps

LEMMA TerminateKeeps ==
    ASSUME Orderly, Inv, NEW w \in Workers, NEW a \in DOMAIN db.acts, RejectTerminate(w, a)
    PROVE  Inv'
  <1>1. PICK i : i = db.acts[a].inst
    OBVIOUS
  <1>2. i \in Instances /\ a \in Nat /\ a # 0 /\ db.acts[a].version \in Nat
    BY <1>1, TaskRead
  <1>3. PICK x : x = Update(a, FALSE)
    OBVIOUS
  <1>4. x \in StoreCalls /\ x.act = a /\ Drain(i) \in StoreCalls /\ Reject(i) \in StoreCalls
    <2>1. x \in StoreCalls
      BY <1>2, <1>3, ActivityFacts, TaskRead, CallsTyped DEF Update
    <2>2. Drain(i) \in StoreCalls /\ Reject(i) \in StoreCalls
      BY <1>2 DEF Drain, Reject, StoreCalls
    <2> QED BY <1>3, <2>1, <2>2 DEF Update
  <1>5. PICK r : r = <<x, Drain(i), Reject(i)>>
    OBVIOUS
  <1>6. r \in Seq(StoreCalls) /\ Len(r) = 3 /\ r[1] = x /\ r[2] = Drain(i) /\ r[3] = Reject(i)
    BY <1>4, <1>5
  <1>7. Drops(r, 2, i) /\ Len(r) >= 3
    <2>1. Len(r) = 2 + 1 /\ r[2] = Drain(i) /\ r[2 + 1] = Reject(i)
      BY <1>6
    <2> QED BY <2>1 DEF Drops
  <1>8. Knows(db, r)
    BY <1>4, <1>6, OpNames DEF Knows
  <1>9. Serve(w, "reject", r) /\ Active(a)
    BY <1>1, <1>3, <1>5 DEF RejectTerminate, Drain, Reject, CanReject
  <1>10. "crash" \notin usage.kinds /\ usage.serial
    BY <1>9, MovingUsage
  <1>11. Armed(db, r, usage.serial)
    BY <1>1, <1>3, <1>6, <1>7, <1>9, <1>10, ArmedUpdate
  <1> QED BY <1>6, <1>8, <1>9, <1>10, <1>11, ServeKeeps

LEMMA ReclaimKeeps ==
    ASSUME Orderly, Inv, NEW w \in Workers, NEW a \in DOMAIN db.acts, ReclaimTask(w, a)
    PROVE  Inv'
  <1>1. PICK i, e : i = db.acts[a].inst /\ e = db.acts[a].element
    OBVIOUS
  <1>2. PICK target : target = IF db.recent[i].last # e THEN db.recent[i].last ELSE db.recent[i].before
    OBVIOUS
  <1>3. /\ i \in Instances /\ e \in Elements /\ a \in Nat /\ a # 0
        /\ db.recent[i] \in [last : Place, before : Place]
    BY <1>1, TaskRead
  <1>4. target # NoElement /\ Active(a)
    BY <1>1, <1>2 DEF ReclaimTask
  <1>5. target \in Elements
    BY <1>2, <1>3, <1>4 DEF Place
  <1>6. PICK p : p = <<Update(a, FALSE), At("consume", i, e)>>
    OBVIOUS
  <1>7. /\ p \in Seq(StoreCalls) /\ Len(p) = 2 /\ p[1] = Update(a, FALSE)
        /\ p[2] = At("consume", i, e) /\ Knows(db, p)
    BY <1>1, <1>6, Begins
  <1>8. PICK q : q = Reopen(i, target)
    OBVIOUS
  <1>9. /\ q \in Seq(StoreCalls) /\ Len(q) = 2 /\ q[1] = At("token", i, target)
        /\ Lands(q[2], i, target) /\ Knows(db, q)
    BY <1>3, <1>5, <1>8, Landings
  <1>10. PICK x, y, z : x = On("signs", a) /\ y = On("sessions", a) /\ z = Undelegate(a)
    OBVIOUS
  <1>11. /\ x \in StoreCalls /\ y \in StoreCalls /\ z \in StoreCalls
         /\ x.op = "signs" /\ y.op = "sessions" /\ z.op = "delegate" /\ z.act = a
    <2>1. x \in StoreCalls /\ y \in StoreCalls /\ z \in StoreCalls
      BY <1>3, <1>10 DEF On, Undelegate, StoreCalls
    <2> QED BY <1>10, <2>1 DEF On, Undelegate
  <1>12. PICK l : l = <<x, y, z>>
    OBVIOUS
  <1>13. l \in Seq(StoreCalls) /\ Len(l) = 3 /\ l[1] = x /\ l[2] = y /\ l[3] = z
    BY <1>11, <1>12
  <1>14. Knows(db, l) /\ \A k \in 1..Len(l) : l[k].op \in Loose
    BY <1>11, <1>13 DEF Knows, Loose
  <1>15. PICK m : m = p \o q
    OBVIOUS
  <1>16. Joins(m, p, q)
    BY <1>7, <1>9, <1>15, Concat
  <1>17. m \in Seq(StoreCalls) /\ Knows(db, m) /\ Goes(m, 3, i) /\ m[1] = p[1] /\ m[2] = p[2]
    <2>1. Len(p) >= 2 /\ \A k \in 3..Len(p) : p[k].op \in Loose
      BY <1>7
    <2>2. m \in Seq(StoreCalls) /\ Knows(db, m)
      BY <1>7, <1>9, <1>16, KnowsConcat DEF Joins
    <2> QED BY <1>5, <1>7, <1>9, <1>16, <2>1, <2>2, GoesAfter
  <1>18. PICK r : r = m \o l
    OBVIOUS
  <1>19. Joins(r, m, l)
    BY <1>13, <1>17, <1>18, Concat
  <1>20. /\ r \in Seq(StoreCalls) /\ Knows(db, r) /\ Goes(r, 3, i) /\ Len(r) >= 3
         /\ r[1] = Update(a, FALSE) /\ r[2] = At("consume", i, e)
    <2>1. r \in Seq(StoreCalls) /\ Knows(db, r)
      BY <1>13, <1>14, <1>17, <1>19, KnowsConcat DEF Joins
    <2>2. Goes(r, 3, i) /\ Len(r) >= 3 /\ r[1] = m[1] /\ r[2] = m[2]
      BY <1>13, <1>14, <1>17, <1>19, GoesLonger
    <2> QED BY <1>7, <1>17, <2>1, <2>2
  <1>21. Serve(w, "reclaim", r)
    BY <1>1, <1>2, <1>6, <1>8, <1>10, <1>12, <1>15, <1>18 DEF ReclaimTask
  <1>22. "crash" \notin usage.kinds /\ usage.serial
    BY <1>21, MovingUsage
  <1>23. Armed(db, r, usage.serial)
    BY <1>1, <1>4, <1>20, <1>22, ArmedUpdate
  <1> QED BY <1>20, <1>21, <1>22, <1>23, ServeKeeps

LEMMA JumpKeeps ==
    ASSUME Orderly, TargetsWait, Inv, NEW w \in Workers, NEW a \in DOMAIN db.acts,
           NEW target \in JumpTargets, JumpTask(w, a, target)
    PROVE  Inv'
  <1>1. PICK i, e : i = db.acts[a].inst /\ e = db.acts[a].element
    OBVIOUS
  <1>2. i \in Instances /\ e \in Elements /\ a \in Nat /\ a # 0
    BY <1>1, TaskRead
  <1>3. target \in Elements /\ ElementType[target] \in {"userTask", "endEvent"} /\ Active(a)
    BY OperationsAssumption DEF TargetsWait, WaitTypes, JumpTask
  <1>4. PICK b, c : b = Update(a, TRUE) /\ c = At("consume", i, e)
    OBVIOUS
  <1>5. b \in StoreCalls /\ c \in StoreCalls /\ b.act = a /\ c.op = "consume"
    <2>1. b \in StoreCalls /\ b.act = a
      BY <1>4, TaskRead DEF Update, StoreCalls
    <2>2. c \in StoreCalls /\ c.op = "consume"
      BY <1>2, <1>4 DEF At, StoreCalls
    <2> QED BY <2>1, <2>2
  <1>6. PICK x, y, z : x = On("signs", a) /\ y = On("sessions", a) /\ z = Undelegate(a)
    OBVIOUS
  <1>7. /\ x \in StoreCalls /\ y \in StoreCalls /\ z \in StoreCalls
        /\ x.op = "signs" /\ y.op = "sessions" /\ z.op = "delegate" /\ z.act = a
    <2>1. x \in StoreCalls /\ y \in StoreCalls /\ z \in StoreCalls
      BY <1>2, <1>6 DEF On, Undelegate, StoreCalls
    <2> QED BY <1>6, <2>1 DEF On, Undelegate
  <1>8. PICK p : p = <<b, c, x, y, z>>
    OBVIOUS
  <1>9. p \in Seq(StoreCalls) /\ Len(p) = 5 /\ p[1] = b /\ p[2] = c /\ p[3] = x /\ p[4] = y /\ p[5] = z
    BY <1>5, <1>7, <1>8
  <1>10. Knows(db, p)
    BY <1>5, <1>7, <1>9 DEF Knows
  <1>11. Len(p) >= 2 /\ \A k \in 3..Len(p) : p[k].op \in Loose
    BY <1>7, <1>9 DEF Loose
  <1>12. PICK q : q = Enter(i, target)
    OBVIOUS
  <1>13. /\ q \in Seq(StoreCalls) /\ Len(q) = 2 /\ q[1] = At("token", i, target)
         /\ Lands(q[2], i, target) /\ Knows(db, q)
    <2>1. CASE ElementType[target] = "userTask"
      <3>1. q = Reopen(i, target)
        BY <1>12, <2>1 DEF Enter
      <3> QED BY <1>2, <1>3, <3>1, Landings
    <2>2. CASE ElementType[target] = "endEvent"
      <3>1. q = <<At("token", i, target), At("navigate", i, target)>>
        BY <1>12, <2>2 DEF Enter
      <3> QED BY <1>2, <1>3, <2>2, <3>1, Landings
    <2> QED BY <1>3, <2>1, <2>2
  <1>14. PICK r : r = p \o q
    OBVIOUS
  <1>15. Joins(r, p, q)
    BY <1>9, <1>13, <1>14, Concat
  <1>16. r \in Seq(StoreCalls) /\ Knows(db, r)
    BY <1>9, <1>10, <1>13, <1>15, KnowsConcat DEF Joins
  <1>17. Goes(r, 3, i) /\ Len(r) >= 3 /\ r[1] = p[1] /\ r[2] = p[2]
    BY <1>3, <1>9, <1>11, <1>13, <1>15, GoesAfter
  <1>18. Serve(w, "jump", r)
    BY <1>1, <1>4, <1>6, <1>8, <1>12, <1>14 DEF JumpTask
  <1>19. "crash" \notin usage.kinds
    BY <1>18, MovingUsage
  <1>20. r[1] = Update(a, TRUE) /\ r[2] = At("consume", i, e)
    BY <1>4, <1>9, <1>17
  <1>21. Armed(db, r, usage.serial)
    BY <1>1, <1>3, <1>16, <1>17, <1>20, ArmedUpdate
  <1> QED BY <1>16, <1>18, <1>19, <1>21, ServeKeeps

\* Without signers there is nobody to add or to remove.
LEMMA NobodySigns ==
    ASSUME NoSigns, Inv, NEW w, NEW a \in DOMAIN db.acts
    PROVE  /\ ~\E signType \in {"forward", "backward"}, strategy \in {"and", "or"}, n \in 1..MaxSigners :
                  AddSign(w, a, signType, strategy, n)
           /\ ~\E b \in DOMAIN db.acts : RemoveSign(w, a, b)
  <1>1. usage \in Usages /\ db \in Rows /\ a # 0
    BY TaskRead
  <1>2. ASSUME NEW signType, NEW strategy \in {"and", "or"}, NEW n, AddSign(w, a, signType, strategy, n)
        PROVE  FALSE
    <2>1. strategy \in usage.kinds
      BY <1>2 DEF AddSign, Serve
    <2> QED BY <1>1, <2>1 DEF NoSigns
  <1>3. OpenSigns(db, a) = {}
    BY <1>1, ActivityFacts DEF OpenSigns
  <1> QED BY <1>2, <1>3 DEF RemoveSign

LEMMA RequestKeeps ==
    ASSUME NoSigns, Orderly, TargetsWait, Inv, NEW w \in Workers, NEW a \in DOMAIN db.acts, Requesting(w, a)
    PROVE  Inv'
  <1>1. CASE \/ DelegateTask(w, a)
             \/ TransferTask(w, a)
             \/ \E termMode \in {1, 2} : SetTimeout(w, a, termMode)
    BY <1>1, QuietRequests
  <1>2. CASE \/ RejectPrevious(w, a)
             \/ RejectInitiator(w, a)
             \/ \E target \in Elements : RejectSpecific(w, a, target)
    <2>1. PICK target : Active(a) /\ RejectTo(w, a, target)
      BY <1>2 DEF RejectPrevious, RejectInitiator, RejectSpecific, CanReject
    <2> QED BY <2>1, RejectToKeeps
  <1>3. CASE RejectTerminate(w, a)
    BY <1>3, TerminateKeeps
  <1>4. CASE \E target \in JumpTargets : JumpTask(w, a, target)
    BY <1>4, JumpKeeps
  <1>5. CASE ReclaimTask(w, a)
    BY <1>5, ReclaimKeeps
  <1> QED BY <1>1, <1>2, <1>3, <1>4, <1>5, NobodySigns DEF Requesting

-----------------------------------------------------------------------------
(* Requests are served, and the other steps *)

\* An open task is all its instance has, and nobody moves its token.
LEMMA OpenTask ==
    ASSUME NEW d, NEW f, NEW u, Orders(d, f, u), NEW a \in DOMAIN d.acts, d.acts[a].state = "active"
    PROVE  LET i == d.acts[a].inst
           IN  /\ i \in Instances /\ Rests(d, i) /\ d.state[i] = "running" /\ ActiveIn(d, i) = {a}
               /\ TokenAt(d, i, d.acts[a].element)
               /\ \A w \in Workers : ~Away(f[w], i)
  <1>1. PICK i : i = d.acts[a].inst
    OBVIOUS
  <1>2. i \in Instances /\ a \in ActiveIn(d, i)
    BY <1>1, ActivityFacts DEF ActiveIn, Orders
  <1>3. \A w \in Workers : ~Away(f[w], i)
    BY <1>2 DEF Orders, Placed, Moving
  <1>4. Rests(d, i)
    BY <1>2, <1>3 DEF Orders, Attended, Settled, Over
  <1>5. PICK b \in DOMAIN d.acts : ActiveIn(d, i) = {b} /\ TokenAt(d, i, d.acts[b].element)
    BY <1>4 DEF Rests
  <1>6. a = b
    BY <1>2, <1>5
  <1>7. d.state[i] = "running"
    BY <1>4 DEF Rests
  <1> QED BY <1>1, <1>2, <1>3, <1>4, <1>5, <1>6, <1>7

LEMMA SweepStays ==
    ASSUME Inv, db' = db \/ (\E i \in Instances : Touches(db, db', i)) \/ Calm(db, db'), UNCHANGED sweep
    PROVE  SweepInv'
  <1>1. DOMAIN db.acts \subseteq DOMAIN db'.acts
    BY DEF Touches, Calm
  <1> QED BY <1>1 DEF Inv, SweepInv

\* A completion, by a client or by CheckTimeouts.
LEMMA CompletionKeeps ==
    ASSUME NEW d, NEW f, NEW u, Orders(d, f, u), NEW a \in DOMAIN d.acts, d.acts[a].state = "active",
           NEW approved, NEW n \in Completions(d, a, approved), u.serial => \A w \in Workers : f[w] = <<>>
    PROVE  Orders(n, f, u) /\ \E i \in Instances : Touches(d, n, i)
  <1>1. PICK i : i = d.acts[a].inst
    OBVIOUS
  <1>2. /\ i \in Instances /\ d.state[i] = "running" /\ ActiveIn(d, i) = {a}
        /\ TokenAt(d, i, d.acts[a].element) /\ \A w \in Workers : ~Away(f[w], i)
    BY <1>1, OpenTask
  <1>3. d \in Rows /\ u.serial \in BOOLEAN
    BY Serials DEF Orders
  <1>4. Touches(d, n, i) /\ Settled(n, i)
    BY <1>1, <1>2, <1>3, CompletionsSettle
  <1>5. Orders(n, f, u)
    BY <1>2, <1>3, <1>4, StepBeside
  <1> QED BY <1>2, <1>4, <1>5

LEMMA StartKeeps ==
    ASSUME Inv, NEW i \in Instances, StartProcessInstance(i)
    PROVE  Inv'
  <1>1. /\ Orders(db, todo, usage) /\ db \in Rows /\ db.state[i] = "new"
        /\ todo' = todo /\ usage' = usage /\ UNCHANGED sweep
    BY DEF Inv, Orders, StartProcessInstance
  <1>2. \A w \in Workers : ~Away(todo[w], i)
    BY <1>1 DEF Orders, Placed, Moving
  <1>3. ActiveIn(db, i) = {} /\ NoToken(db, i)
    BY <1>1, <1>2 DEF Orders, Attended, Settled, Rests, Over
  <1>4. PICK m : m = [db EXCEPT !.state[i] = "running"]
    OBVIOUS
  <1>5. /\ m \in Rows /\ m.acts = db.acts /\ m.state[i] = "running" /\ m.tokens[i] = db.tokens[i]
        /\ Touches(db, m, i) /\ ActiveIn(m, i) = ActiveIn(db, i)
    BY <1>1, <1>4, StateEffect
  <1>6. db' \in navigateFrom(m, i, StartEventID[i]) /\ StartEventID[i] \in Elements
    BY <1>4, OperationsAssumption DEF StartProcessInstance
  <1>7. NoToken(m, i) /\ ActiveIn(m, i) = {}
    BY <1>3, <1>5 DEF NoToken
  <1>8. Touches(m, db', i) /\ Grows(m, db') /\ Settled(db', i)
    BY <1>5, <1>6, <1>7, NavigateSettles
  <1>9. Touches(db, db', i) /\ Grows(db, db')
    BY <1>1, <1>5, <1>8, TouchesTwice DEF Grows
  <1>10. Orders(db', todo, usage)
    BY <1>1, <1>2, <1>8, <1>9, StepBeside
  <1>11. SweepInv'
    BY <1>1, <1>9, SweepStays
  <1> QED BY <1>1, <1>10, <1>11 DEF Inv

LEMMA CompleteTaskKeeps ==
    ASSUME Inv, NEW a \in DOMAIN db.acts, NEW approved, CompleteTask(a, approved)
    PROVE  Inv'
  <1>1. /\ Orders(db, todo, usage) /\ db.acts[a].state = "active"
        /\ usage.serial => \A w \in Workers : todo[w] = <<>>
        /\ db' \in Completions(db, a, approved)
        /\ todo' = todo /\ usage' = usage /\ UNCHANGED sweep
    BY DEF Inv, CompleteTask, InTurn, Idle
  <1>2. Orders(db', todo, usage) /\ \E i \in Instances : Touches(db, db', i)
    BY <1>1, CompletionKeeps
  <1>3. SweepInv'
    BY <1>1, <1>2, SweepStays
  <1> QED BY <1>1, <1>2, <1>3 DEF Inv

LEMMA WriteKeeps ==
    ASSUME TargetsWait, Inv, NEW w \in Workers, Write(w)
    PROVE  Inv'
  <1>1. PICK s : s = todo[w]
    OBVIOUS
  <1>2. /\ Orders(db, todo, usage) /\ db \in Rows /\ s \in Seq(StoreCalls) /\ s # <<>>
        /\ Knows(db, s) /\ usage \in Usages /\ usage.serial \in BOOLEAN
    BY <1>1, Serials DEF Inv, Orders, Write
  <1>3. PICK x : x = s[1]
    OBVIOUS
  <1>4. x \in StoreCalls /\ x = Head(s)
    BY <1>2, <1>3, TailFacts
  <1>5. PICK r : r = IF Conflicts(db, x) /\ x.strict THEN <<>> ELSE Tail(s)
    OBVIOUS
  <1>6. /\ db' = Applied(db, x) /\ todo' = [todo EXCEPT ![w] = r]
        /\ usage' = usage /\ UNCHANGED sweep
    BY <1>1, <1>4, <1>5 DEF Write
  <1>7. r \in Seq(StoreCalls) /\ Knows(db, r)
    <2>1. Tail(s) \in Seq(StoreCalls) /\ Knows(db, Tail(s))
      BY <1>2, TailFacts, KnowsTail
    <2>2. Knows(db, <<>>)
      BY DEF Knows
    <2> QED BY <1>5, <2>1, <2>2
  <1>8. x.op \in {"complete", "reassign", "delegate"} => x.act \in DOMAIN db.acts
    <2>1. 1 \in 1..Len(s)
      BY <1>2, TailFacts
    <2> QED BY <1>2, <1>3, <2>1 DEF Knows
  <1>9. CASE Quiet(s)
    <2>1. x.op \in Harmless /\ Quiet(r)
      BY <1>2, <1>3, <1>5, <1>9, TailQuiet, EmptyQuiet
    <2>2. Calm(db, db')
      BY <1>2, <1>4, <1>6, <1>8, <2>1, HarmlessCalm
    <2>3. \A i \in Instances : ~Away(todo[w], i)
      BY <1>1, <1>2, <1>9, QuietNotAway
    <2>4. Knows(db', r)
      BY <1>7, <2>2, KnowsMore DEF Calm
    <2>5. Orders(db', todo', usage)
      BY <1>1, <1>2, <1>6, <1>7, <2>1, <2>2, <2>3, <2>4, StepQuiet
    <2>6. SweepInv'
      BY <1>6, <2>2, SweepStays
    <2> QED BY <1>6, <2>5, <2>6 DEF Inv
  <1>10. CASE Armed(db, s, usage.serial)
    <2>1. x.op = "complete" /\ \A i \in Instances : ~Away(todo[w], i) /\ ~Quiet(s)
      BY <1>1, <1>2, <1>3, <1>10, ArmedNotAway DEF Armed
    <2>2. CASE Conflicts(db, x)
      <3>1. x.strict /\ db' = db
        BY <1>3, <1>6, <1>10, <2>1, <2>2 DEF Armed, Conflicts, Applied
      <3>2. r = <<>>
        BY <1>5, <2>2, <3>1
      <3>3. Quiet(r) /\ Calm(db, db)
        BY <1>2, <3>2, EmptyQuiet, CalmSame
      <3>4. Orders(db, todo', usage)
        BY <1>1, <1>2, <1>6, <1>7, <2>1, <3>3, StepQuiet
      <3>5. SweepInv'
        BY <1>6, <3>1, SweepStays
      <3> QED BY <1>6, <3>1, <3>4, <3>5 DEF Inv
    <2>3. CASE ~Conflicts(db, x)
      <3>1. PICK a, i : a = x.act /\ i = db.acts[a].inst
        OBVIOUS
      <3>2. a \in DOMAIN db.acts /\ i \in Instances
        BY <1>2, <1>8, <2>1, <3>1, ActivityFacts
      <3>3. db.acts[a].state = "active"
        BY <1>3, <1>10, <2>1, <2>3, <3>1 DEF Armed, Conflicts
      <3>4. Rests(db, i) /\ \A v \in Workers : ~Away(todo[v], i)
        BY <1>2, <3>1, <3>2, <3>3, OpenTask
      <3>5. Touches(db, db', i) /\ Continues(db', Tail(s), i)
        BY <1>2, <1>3, <1>6, <1>10, <2>3, <3>1, <3>2, <3>4, WriteArmed
      <3>6. r = Tail(s)
        BY <1>5, <2>3
      <3>7. Knows(db', r)
        BY <1>7, <3>5, KnowsMore DEF Touches
      <3>8. "crash" \notin usage.kinds
        <4>1. ~Quiet(todo[w])
          BY <1>1, <1>2, <1>3, <2>1, ArmedNotAway
        <4> QED BY <1>2, <4>1 DEF Orders, OneBusy
      <3>9. Orders(db', todo', usage)
        BY <1>1, <1>2, <1>6, <1>7, <2>1, <3>2, <3>4, <3>5, <3>6, <3>7, <3>8, StepMoves
      <3>10. SweepInv'
        BY <1>6, <3>2, <3>5, SweepStays
      <3> QED BY <1>6, <3>9, <3>10 DEF Inv
    <2> QED BY <2>2, <2>3
  <1>11. CASE \E i \in Instances : Away(s, i)
    <2>1. PICK i \in Instances : Away(s, i)
      BY <1>11
    <2>2. Moving(db, s, i) /\ \A v \in Workers : v # w => ~Away(todo[v], i)
      BY <1>1, <1>2, <2>1 DEF Orders, Placed
    <2>3. /\ x.op \notin {"complete", "reassign"}
          /\ Touches(db, db', i) /\ Continues(db', Tail(s), i)
      BY <1>2, <1>3, <1>6, <1>8, <2>2, WriteAway
    <2>4. r = Tail(s)
      BY <1>5, <2>3 DEF Conflicts
    <2>5. Knows(db', r)
      BY <1>7, <2>3, KnowsMore DEF Touches
    <2>6. "crash" \notin usage.kinds
      <3>1. ~Quiet(todo[w])
        BY <1>1, <1>2, <2>1, QuietNotAway
      <3> QED BY <1>2, <3>1 DEF Orders, OneBusy
    <2>7. \A j \in Instances : Away(todo[w], j) => j = i
      BY <1>1, <1>2, <2>1, AwayOnce
    <2>8. Orders(db', todo', usage)
      BY <1>1, <1>2, <1>6, <1>7, <2>2, <2>3, <2>4, <2>5, <2>6, <2>7, StepMoves
    <2>9. SweepInv'
      BY <1>6, <2>3, SweepStays
    <2> QED BY <1>6, <2>8, <2>9 DEF Inv
  <1> QED BY <1>1, <1>2, <1>9, <1>10, <1>11 DEF Orders, Shapes

LEMMA CrashKeeps ==
    ASSUME Inv, NEW w \in Workers, Crash(w)
    PROVE  Inv'
  <1>1. /\ Orders(db, todo, usage) /\ db \in Rows /\ Quiet(todo[w]) /\ todo[w] \in Seq(StoreCalls)
        /\ todo' = [todo EXCEPT ![w] = <<>>]
        /\ db' = db /\ usage' = usage /\ UNCHANGED sweep
    BY DEF Inv, Orders, OneBusy, Crash
  <1>2. <<>> \in Seq(StoreCalls) /\ Quiet(<<>>) /\ Knows(db, <<>>) /\ Calm(db, db)
    BY <1>1, EmptyQuiet, CalmSame DEF Knows
  <1>3. \A i \in Instances : ~Away(todo[w], i)
    BY <1>1, QuietNotAway
  <1>4. Orders(db, todo', usage)
    BY <1>1, <1>2, <1>3, StepQuiet
  <1>5. SweepInv'
    BY <1>1, SweepStays
  <1> QED BY <1>1, <1>4, <1>5 DEF Inv

LEMMA Listings ==
    ASSUME NEW n \in Nat, NEW S \in SUBSET (1..n), NEW l \in SetToSeqs(S)
    PROVE  l \in Seq(Nat) /\ \A k \in 1..Len(l) : l[k] \in S
  <1>1. IsFiniteSet(1..n)
    BY FS_Interval
  <1>2. IsFiniteSet(S)
    BY <1>1, FS_Subset
  <1>3. PICK c \in Nat : c = Cardinality(S)
    BY <1>2, FS_CardinalityType
  <1>4. l \in [1..c -> S]
    BY <1>3 DEF SetToSeqs
  <1>5. l \in [1..c -> Nat]
    <2>1. S \subseteq Nat
      OBVIOUS
    <2> QED BY <1>4, <2>1
  <1>6. l \in Seq(Nat) /\ Len(l) = c
    BY <1>5
  <1> QED BY <1>4, <1>6

LEMMA SweepKeeps ==
    ASSUME Inv, CheckTimeouts
    PROVE  Inv'
  <1>1. /\ Orders(db, todo, usage) /\ db \in Rows
        /\ db' = db /\ todo' = todo /\ usage' = usage
    BY DEF Inv, Orders, CheckTimeouts
  <1>2. PICK L \in SUBSET Instances, i \in Instances :
           \E acts \in SetToSeqs({a \in DOMAIN db.acts : db.acts[a].inst = i /\ Overdue(a)}) :
              sweep' = [left |-> L, acts |-> acts]
    <2>1. PICK left \in SUBSET Instances : left = IF sweep.left = {} THEN Instances ELSE sweep.left
      BY DEF Inv, SweepInv
    <2>2. PICK i \in left :
             \E acts \in SetToSeqs({a \in DOMAIN db.acts : db.acts[a].inst = i /\ Overdue(a)}) :
                sweep' = [left |-> left \ {i}, acts |-> acts]
      BY <2>1 DEF CheckTimeouts
    <2> QED BY <2>2
  <1>3. PICK S : S = {a \in DOMAIN db.acts : db.acts[a].inst = i /\ Overdue(a)}
    OBVIOUS
  <1>5. PICK acts \in SetToSeqs(S) : sweep' = [left |-> L, acts |-> acts]
    BY <1>2, <1>3
  <1>4. S \subseteq 1..Len(db.acts) /\ Len(db.acts) \in Nat
    BY <1>1, <1>3, RowFacts
  <1>7. acts \in Seq(Nat) /\ \A k \in 1..Len(acts) : acts[k] \in S
    BY <1>4, Listings
  <1>9. \A k \in 1..Len(acts) : acts[k] \in DOMAIN db.acts
    BY <1>3, <1>7
  <1>10. sweep' \in [left : SUBSET Instances, acts : Seq(Nat)] /\ sweep'.acts = acts
    BY <1>7, <1>5
  <1>11. SweepInv'
    BY <1>1, <1>7, <1>9, <1>10 DEF SweepInv
  <1> QED BY <1>1, <1>11 DEF Inv

LEMMA AutoCompleteKeeps ==
    ASSUME Inv, AutoComplete
    PROVE  Inv'
  <1>1. PICK q : q = sweep.acts
    OBVIOUS
  <1>2. /\ Orders(db, todo, usage) /\ q \in Seq(Nat) /\ q # <<>>
        /\ \A k \in 1..Len(q) : q[k] \in DOMAIN db.acts
        /\ usage.serial => \A w \in Workers : todo[w] = <<>>
        /\ todo' = todo /\ usage' = usage
    BY <1>1 DEF Inv, SweepInv, AutoComplete, InTurn, Idle
  <1>3. PICK a : a = Head(q)
    OBVIOUS
  <1>4. a \in DOMAIN db.acts /\ Len(q) \in Nat
    BY <1>2, <1>3
  <1>5. PICK R : R = IF Active(a) THEN Completions(db, a, db.acts[a].term = 1) ELSE {}
    OBVIOUS
  <1>6. CASE R = {}
    <2>1. db' = db /\ sweep' = NoSweep
      BY <1>1, <1>3, <1>5, <1>6 DEF AutoComplete
    <2>2. SweepInv'
      BY <2>1 DEF SweepInv, NoSweep
    <2> QED BY <1>2, <2>1, <2>2 DEF Inv
  <1>7. CASE R # {}
    <2>1. db' \in R /\ sweep' = [sweep EXCEPT !.acts = Tail(@)]
      BY <1>1, <1>3, <1>5, <1>7 DEF AutoComplete
    <2>2. db.acts[a].state = "active" /\ db' \in Completions(db, a, db.acts[a].term = 1)
      BY <1>5, <1>7, <2>1 DEF Active
    <2>3. Orders(db', todo, usage) /\ \E i \in Instances : Touches(db, db', i)
      BY <1>2, <1>4, <2>2, CompletionKeeps
    <2>4. DOMAIN db.acts \subseteq DOMAIN db'.acts
      BY <2>3 DEF Touches
    <2>5. PICK l : l = Tail(q)
      OBVIOUS
    <2>6. l \in Seq(Nat) /\ \A k \in 1..Len(l) : l[k] \in DOMAIN db.acts
      <3>1. Len(l) = Len(q) - 1 /\ \A k \in 1..Len(l) : l[k] = q[k + 1] /\ k + 1 \in 1..Len(q)
        BY <1>2, <1>4, <2>5
      <3> QED BY <1>2, <2>5, <3>1
    <2>7. sweep' \in [left : SUBSET Instances, acts : Seq(Nat)] /\ sweep'.acts = l
      <3>1. sweep \in [left : SUBSET Instances, acts : Seq(Nat)]
        BY DEF Inv, SweepInv
      <3>2. sweep' = [sweep EXCEPT !.acts = l]
        BY <1>1, <2>1, <2>5
      <3> QED BY <2>6, <3>1, <3>2
    <2>8. SweepInv'
      BY <2>4, <2>6, <2>7 DEF SweepInv
    <2> QED BY <1>2, <2>3, <2>8 DEF Inv
  <1> QED BY <1>6, <1>7

-----------------------------------------------------------------------------
(* Theorems *)

LEMMA InitInv ==
    ASSUME Init
    PROVE  Inv
  <1>1. db \in Rows
    <2>1. /\ <<>> \in Seq(Activity)
          /\ [i \in Instances |-> [e \in Elements |-> 0]] \in [Instances -> [Elements -> Nat]]
          /\ [i \in Instances |-> 0] \in [Instances -> Nat]
          /\ [i \in Instances |-> [last |-> NoElement, before |-> NoElement]]
                \in [Instances -> [last : Place, before : Place]]
          /\ [i \in Instances |-> "new"] \in [Instances -> {"new", "running", "completed", "rejected"}]
      BY DEF Place
    <2> QED BY <2>1 DEF Init, Rows
  <1>2. /\ todo \in [Workers -> Seq(StoreCalls)] /\ usage \in Usages
        /\ \A w \in Workers : todo[w] = <<>>
    BY DEF Init
  <1>3. \A w \in Workers : Quiet(todo[w]) /\ Knows(db, todo[w])
    BY <1>2 DEF Quiet, Knows
  <1>4. \A w \in Workers, i \in Instances : ~Away(todo[w], i)
    BY <1>2, <1>3, QuietNotAway
  <1>5. ASSUME NEW i \in Instances
        PROVE  Settled(db, i)
    BY DEF Init, Settled, Over, ActiveIn, NoToken
  <1>6. Orders(db, todo, usage)
    BY <1>1, <1>2, <1>3, <1>4, <1>5 DEF Orders, OneBusy, Shapes, Placed, Attended
  <1>7. SweepInv
    BY DEF Init, NoSweep, SweepInv
  <1> QED BY <1>6, <1>7 DEF Inv

LEMMA NextInv ==
    ASSUME NoSigns, Orderly, TargetsWait, Inv, [Next]_vars
    PROVE  Inv'
  <1>1. CASE \E i \in Instances : StartProcessInstance(i)
    BY <1>1, StartKeeps
  <1>2. CASE Completing
    BY <1>2, CompleteTaskKeeps DEF Completing
  <1>3. CASE \E w \in Workers : \E a \in DOMAIN db.acts : Requesting(w, a)
    BY <1>3, RequestKeeps
  <1>4. CASE \E w \in Workers : Write(w) \/ Crash(w)
    BY <1>4, WriteKeeps, CrashKeeps
  <1>5. CASE CheckTimeouts
    BY <1>5, SweepKeeps
  <1>6. CASE AutoComplete
    BY <1>6, AutoCompleteKeeps
  <1>7. CASE UNCHANGED vars
    BY <1>7 DEF vars, Inv, SweepInv
  <1> QED BY <1>1, <1>2, <1>3, <1>4, <1>5, <1>6, <1>7 DEF Next

LEMMA InvHolds ==
    ASSUME NoSigns, Orderly, TargetsWait
    PROVE  Spec => []Inv
  <1>1. Init => Inv
    BY InitInv
  <1>2. Inv /\ [Next]_vars => Inv'
    BY NextInv
  <1> QED BY <1>1, <1>2, PTL DEF Spec

LEMMA AllSettled ==
    ASSUME Inv, Idle
    PROVE  db \in Rows /\ \A i \in Instances : Settled(db, i)
  <1>1. \A w \in Workers, i \in Instances : ~Away(todo[w], i)
    BY EmptyQuiet, QuietNotAway DEF Inv, Orders, Idle
  <1> QED BY <1>1 DEF Inv, Orders, Attended

LEMMA OpenAre ==
    ASSUME NEW i \in Instances, NEW e \in Elements, db \in Rows, Settled(db, i)
    PROVE  /\ db.tokens[i][e] \in {0, 1}
           /\ db.tokens[i][e] = 0 => Open(i, e) = {}
           /\ db.tokens[i][e] = 1 => \E a : Open(i, e) = {a}
  <1>1. CASE Rests(db, i)
    <2>1. PICK a \in DOMAIN db.acts : ActiveIn(db, i) = {a} /\ TokenAt(db, i, db.acts[a].element)
      BY <1>1 DEF Rests
    <2>2. Open(i, e) = {b \in ActiveIn(db, i) : db.acts[b].element = e}
      BY DEF Open, Active, ActiveIn
    <2>3. db.tokens[i][e] = IF e = db.acts[a].element THEN 1 ELSE 0
      BY <2>1 DEF TokenAt
    <2>4. CASE e = db.acts[a].element
      <3>1. Open(i, e) = {a}
        BY <2>1, <2>2, <2>4
      <3> QED BY <2>3, <2>4, <3>1
    <2>5. CASE e # db.acts[a].element
      <3>1. Open(i, e) = {}
        BY <2>1, <2>2, <2>5
      <3> QED BY <2>3, <2>5, <3>1
    <2> QED BY <2>4, <2>5
  <1>2. CASE Over(db, i)
    <2>1. Open(i, e) \subseteq ActiveIn(db, i)
      BY DEF Open, Active, ActiveIn
    <2> QED BY <1>2, <2>1 DEF Over, NoToken
  <1> QED BY <1>1, <1>2 DEF Settled

\* Between requests every open task has a token at its element, for any
\* sequential process, any number of instances, workers and requests, whatever
\* delegations, transfers, rejections, jumps, reclaims and timeouts raced.
THEOREM OpenTasksKeepTokens ==
    ASSUME NoSigns, Orderly, TargetsWait
    PROVE  Spec => []OpenTasksHaveTokens
  <1>1. ASSUME Inv
        PROVE  OpenTasksHaveTokens
    <2>1. SUFFICES ASSUME Idle, NEW i \in Instances, NEW e \in Elements
                   PROVE  Cardinality(Open(i, e)) <= db.tokens[i][e]
      BY DEF OpenTasksHaveTokens
    <2>2. db \in Rows /\ Settled(db, i)
      BY <1>1, <2>1, AllSettled
    <2>3. CASE db.tokens[i][e] = 0
      <3>1. Cardinality(Open(i, e)) = 0
        BY <2>2, <2>3, OpenAre, FS_EmptySet
      <3> QED BY <2>3, <3>1
    <2>4. CASE db.tokens[i][e] = 1
      <3>1. PICK a : Open(i, e) = {a}
        BY <2>2, <2>4, OpenAre
      <3>2. Cardinality(Open(i, e)) = 1
        BY <3>1, FS_Singleton
      <3> QED BY <2>4, <3>2
    <2> QED BY <2>2, <2>3, <2>4, OpenAre
  <1> QED BY <1>1, InvHolds, PTL

\* Between requests no token waits at an element where nobody has a task.
THEOREM TokensHaveTasks ==
    ASSUME NoSigns, Orderly, TargetsWait
    PROVE  Spec => []NoTokenLeftBehind
  <1>1. ASSUME Inv
        PROVE  NoTokenLeftBehind
    <2>1. SUFFICES ASSUME Idle, NEW i \in Instances, NEW e \in Elements, db.tokens[i][e] > 0
                   PROVE  Open(i, e) # {}
      BY DEF NoTokenLeftBehind
    <2>2. db \in Rows /\ Settled(db, i)
      BY <1>1, <2>1, AllSettled
    <2>3. db.tokens[i][e] = 1
      BY <2>1, <2>2, OpenAre
    <2> QED BY <2>2, <2>3, OpenAre
  <1> QED BY <1>1, InvHolds, PTL

\* Between requests an instance is in progress at one element, with one task.
THEOREM InstancesAtOnePlace ==
    ASSUME NoSigns, Orderly, TargetsWait
    PROVE  Spec => []OnePlaceAtATime
  <1>1. ASSUME Inv
        PROVE  OnePlaceAtATime
    <2>1. SUFFICES ASSUME Idle, NEW a \in DOMAIN db.acts, NEW b \in DOMAIN db.acts,
                          Active(a), Active(b), db.acts[a].inst = db.acts[b].inst
                   PROVE  a = b
      BY DEF OnePlaceAtATime
    <2>2. db.acts[a].inst \in Instances /\ Settled(db, db.acts[a].inst)
      BY <1>1, <2>1, AllSettled, ActivityFacts
    <2>3. a \in ActiveIn(db, db.acts[a].inst) /\ b \in ActiveIn(db, db.acts[a].inst)
      BY <2>1 DEF ActiveIn, Active
    <2> QED BY <2>2, <2>3 DEF Settled, Rests, Over
  <1> QED BY <1>1, InvHolds, PTL

\* Between requests a running instance has an open task.
THEOREM RunningInstancesGoOn ==
    ASSUME NoSigns, Orderly, TargetsWait
    PROVE  Spec => []RunningHasOpenTask
  <1>1. ASSUME Inv
        PROVE  RunningHasOpenTask
    <2>1. SUFFICES ASSUME Idle, NEW i \in Instances, db.state[i] = "running"
                   PROVE  \E a \in DOMAIN db.acts : Active(a) /\ db.acts[a].inst = i
      BY DEF RunningHasOpenTask
    <2>2. Rests(db, i)
      BY <1>1, <2>1, AllSettled DEF Settled, Over
    <2> QED BY <2>2 DEF Rests, ActiveIn, Active
  <1> QED BY <1>1, InvHolds, PTL

\* Completing a delegated task opens a task at the same element.
THEOREM DelegatedTasksReturn ==
    ASSUME NoSigns, Orderly, TargetsWait
    PROVE  Spec => DelegateReturns
  <1>1. ASSUME Inv, NEW a \in DOMAIN db.acts, NEW approved \in BOOLEAN,
               CompleteTask(a, approved), db.acts[a].delegated
        PROVE  \E b \in DOMAIN db'.acts : /\ db'.acts[b].state = "active"
                                          /\ db'.acts[b].element = db.acts[a].element
    <2>1. PICK i, e : i = db.acts[a].inst /\ e = db.acts[a].element
      OBVIOUS
    <2>2. PICK m : m = ConsumeToken(Complete(db, a), i, e)
      OBVIOUS
    <2>3. db \in Rows
      BY <1>1 DEF Inv, Orders
    <2>4. m \in Rows /\ a \in DOMAIN m.acts /\ m.acts[a].inst = i /\ m.acts[a].element = e
      BY <2>1, <2>2, <2>3, ConsumedIs
    <2>5. db' \in handleDelegateCompletion(m, a)
      BY <1>1, <2>1, <2>2, <2>3, CompletionsAre DEF CompleteTask
    <2>6. Reopens(m, db', i, e)
      BY <2>4, <2>5, DelegateMakes
    <2> QED BY <2>1, <2>6 DEF Reopens
  <1> DEFINE Returns == \A a \in DOMAIN db.acts, approved \in BOOLEAN :
                (CompleteTask(a, approved) /\ db.acts[a].delegated)
                    => \E b \in DOMAIN db'.acts : /\ db'.acts[b].state = "active"
                                                  /\ db'.acts[b].element = db.acts[a].element
  <1>2. Inv => Returns
    BY <1>1
  <1> HIDE DEF Returns
  <1>3. Spec => [][Returns]_vars
    BY <1>2, InvHolds, PTL
  <1> QED BY <1>3 DEF Returns, DelegateReturns

=============================================================================
