-------------------------- MODULE DeploymentProofs --------------------------
(***************************************************************************)
(* Deployments and starts by key, for any number of keys, goroutines,        *)
(* deployments and instances.                                                *)
(***************************************************************************)
EXTENDS Deployment, TLAPS

DeployRequest == [pc : {"create"}, key : Keys, version : Version, content : Nat]

\* What a start has in hand: after the look-up, after its first read of the
\* definition, and after the creation of the instance.
LookedUp   == [pc : {"start"}, key : Keys, n : Version, earlier : Nat]
HasRead    == [pc : {"create"}, key : Keys, n : Version, content : Nat, earlier : Nat]
HasCreated == [pc : {"navigate", "commit"}, key : Keys, n : Version, content : Nat, earlier : Nat, startedAt : Nat]
StartRequests == [pc : {"idle"}] \cup LookedUp \cup HasRead \cup HasCreated

InstanceRow == [key : Keys, n : Version, content : Nat, earlier : Nat, startedAt : Nat]

\* A member of a typed sequence.
LEMMA ElementTyped ==
  ASSUME NEW S, NEW t \in Seq(S), NEW k \in 1..Len(t)
  PROVE  t[k] \in S
  OBVIOUS

\* The first state is typed,
LEMMA InitTyped == Init => TypeOK
  BY DeploymentAssumption DEF Init, TypeOK

\* The version a deployment is about to give.
LEMMA NextVersionsTyped ==
  ASSUME TypeOK, NEW key \in Keys, NEW v \in NextVersions(key)
  PROVE  v \in Version
  BY DEF TypeOK, NextVersions, GetLatestProcessDefinitionByKey, Stored, Version

\* Looking up the latest version.
LEMMA DeployTyped ==
  ASSUME TypeOK, NEW w \in Deployers, NEW key \in Keys, DeployProcessDefinition(w, key)
  PROVE  TypeOK'
<1>1. PICK content \in 1..(deploys + 1), version \in NextVersions(key) :
         /\ deploying' = [deploying EXCEPT ![w] =
                [pc |-> "create", key |-> key, version |-> version, content |-> content]]
         /\ definitions' = IF setup.memory
                           THEN {IF d.content = content THEN [d EXCEPT !.version = version] ELSE d : d \in definitions}
                           ELSE definitions
  BY DEF DeployProcessDefinition
<1>2. deploys \in Nat /\ content \in Nat
  BY DEF TypeOK
<1>3. version \in Version
  BY NextVersionsTyped
<1>4. definitions' \subseteq Stored
  <2>1. definitions \subseteq Stored
    BY DEF TypeOK
  <2>2. ASSUME NEW d \in Stored PROVE [d EXCEPT !.version = version] \in Stored
    BY <1>3 DEF Stored
  <2>3. QED
    BY <1>1, <2>1, <2>2
<1>5. [pc |-> "create", key |-> key, version |-> version, content |-> content] \in DeployRequest
  BY <1>2, <1>3 DEF DeployRequest
<1>6. deploying' \in [Deployers -> [pc : {"idle"}] \cup DeployRequest]
  BY <1>1, <1>5 DEF TypeOK, DeployRequest
<1>7. QED
  BY <1>2, <1>3, <1>4, <1>6 DEF TypeOK, DeployProcessDefinition, DeployRequest

\* What a deployer holds between its look-up and its row.
LEMMA CreatingTyped ==
  ASSUME TypeOK, NEW w \in Deployers, deploying[w].pc = "create"
  PROVE  deploying[w] \in DeployRequest
  BY DEF TypeOK, DeployRequest

\* What a starter has in hand.
LEMMA StartingTyped ==
  ASSUME TypeOK, NEW w \in Starters
  PROVE  /\ starting \in [Starters -> StartRequests]
         /\ starting[w].pc = "start" => starting[w] \in LookedUp
         /\ starting[w].pc = "create" => starting[w] \in HasRead
         /\ starting[w].pc \in {"navigate", "commit"} => starting[w] \in HasCreated
<1>1. starting \in [Starters -> StartRequests]
  BY DEF TypeOK, StartRequests, LookedUp, HasRead, HasCreated
<1>2. starting[w] \in StartRequests
  BY <1>1
<1>3. QED
  BY <1>1, <1>2 DEF StartRequests, LookedUp, HasRead, HasCreated

\* A request that goes on with a typed record in hand.
LEMMA StartsTyped ==
  ASSUME TypeOK, NEW w \in Starters, NEW r \in StartRequests, starting' = [starting EXCEPT ![w] = r]
  PROVE  starting' \in [Starters -> StartRequests]
  BY StartingTyped

\* Creating the row.
LEMMA CreateTyped ==
  ASSUME TypeOK, NEW w \in Deployers, CreateProcessDefinition(w)
  PROVE  TypeOK'
<1>1. deploying[w] \in DeployRequest
  BY CreatingTyped DEF CreateProcessDefinition
<1>2. definitions' \subseteq Stored
  BY <1>1 DEF TypeOK, CreateProcessDefinition, DeployRequest, Stored
<1>3. deploying' \in [Deployers -> [pc : {"idle"}] \cup DeployRequest]
  BY DEF TypeOK, CreateProcessDefinition, DeployRequest
<1>4. QED
  BY <1>2, <1>3 DEF TypeOK, CreateProcessDefinition, DeployRequest

\* A start under way is typed if its record and the instances are.
LEMMA StartKeepsTypes ==
  ASSUME TypeOK, UNCHANGED <<setup, definitions, deploying, deploys>>, clock' \in Nat,
         instances' \in Seq(InstanceRow), starting' \in [Starters -> StartRequests]
  PROVE  TypeOK'
  BY DEF TypeOK, StartRequests, LookedUp, HasRead, HasCreated, InstanceRow

\* Looking a key up for a start.
LEMMA LookupTyped ==
  ASSUME TypeOK, NEW w \in Starters, NEW key \in Keys, StartProcessInstanceByKey(w, key)
  PROVE  TypeOK'
<1>1. PICK d \in GetLatestProcessDefinitionByKey(key) :
         starting' = [starting EXCEPT ![w] =
            [pc |-> "start", key |-> key, n |-> d.version, earlier |-> Len(instances)]]
  BY DEF StartProcessInstanceByKey
<1>2. d.version \in Version
  BY <1>1 DEF TypeOK, Stored, GetLatestProcessDefinitionByKey
<1>3. Len(instances) \in Nat
  BY DEF TypeOK
<1>4. [pc |-> "start", key |-> key, n |-> d.version, earlier |-> Len(instances)] \in StartRequests
  BY <1>2, <1>3 DEF StartRequests, LookedUp
<1>5. QED
  BY <1>1, <1>4, StartsTyped, StartKeepsTypes DEF TypeOK, InstanceRow, StartProcessInstanceByKey

\* Reading the definition.
LEMMA ReadTyped ==
  ASSUME TypeOK, NEW w \in Starters, StartProcessInstance(w)
  PROVE  TypeOK'
<1>1. starting[w] \in LookedUp
  BY StartingTyped DEF StartProcessInstance
<1>2. CASE StartReturns(w)
  BY <1>2, StartsTyped, StartKeepsTypes DEF TypeOK, InstanceRow, StartProcessInstance, StartReturns, StartRequests
<1>3. CASE ~StartReturns(w)
  <2>1. PICK d \in GetProcessDefinition(starting[w].key, starting[w].n) :
           starting' = [starting EXCEPT ![w] =
              [pc |-> "create", key |-> d.key, n |-> d.n, content |-> d.content, earlier |-> starting[w].earlier]]
    BY <1>3 DEF StartProcessInstance
  <2>2. d \in Stored
    BY <2>1 DEF TypeOK, GetProcessDefinition
  <2>3. [pc |-> "create", key |-> d.key, n |-> d.n, content |-> d.content, earlier |-> starting[w].earlier]
           \in StartRequests
    BY <1>1, <2>2 DEF StartRequests, HasRead, LookedUp, Stored
  <2>4. QED
    BY <2>1, <2>3, StartsTyped, StartKeepsTypes DEF TypeOK, InstanceRow, StartProcessInstance
<1>4. QED
  BY <1>2, <1>3

\* The record of a start that has created its instance, and the instance's row.
LEMMA CreatedTyped ==
  ASSUME TypeOK, NEW w \in Starters, CreateProcessInstance(w)
  PROVE  /\ starting[w] \in HasRead
         /\ starting'[w] = [pc |-> "navigate", key |-> starting[w].key, n |-> starting[w].n,
                            content |-> starting[w].content, earlier |-> starting[w].earlier,
                            startedAt |-> clock + 1]
         /\ starting'[w] \in HasCreated
         /\ starting' = [starting EXCEPT ![w] = starting'[w]]
         /\ NewInstance(w)' = [key |-> starting[w].key, n |-> starting[w].n, content |-> starting[w].content,
                               earlier |-> starting[w].earlier, startedAt |-> clock + 1]
         /\ NewInstance(w)' \in InstanceRow
<1>1. starting[w] \in HasRead /\ clock \in Nat
  BY StartingTyped DEF CreateProcessInstance, TypeOK
<1>2. starting'[w] = [pc |-> "navigate", key |-> starting[w].key, n |-> starting[w].n,
                      content |-> starting[w].content, earlier |-> starting[w].earlier,
                      startedAt |-> clock + 1]
  BY StartingTyped DEF CreateProcessInstance
<1>3. starting'[w] \in HasCreated
  BY <1>1, <1>2 DEF HasCreated, HasRead
<1>4. starting' = [starting EXCEPT ![w] = starting'[w]]
  BY <1>2 DEF CreateProcessInstance
<1>5. NewInstance(w)' = [key |-> starting[w].key, n |-> starting[w].n, content |-> starting[w].content,
                         earlier |-> starting[w].earlier, startedAt |-> clock + 1]
  BY <1>2 DEF NewInstance
<1>6. NewInstance(w)' \in InstanceRow
  BY <1>1, <1>5 DEF InstanceRow, HasRead
<1>7. QED
  BY <1>1, <1>2, <1>3, <1>4, <1>5, <1>6

\* Creating the instance.
LEMMA CreateInstanceTyped ==
  ASSUME TypeOK, NEW w \in Starters, CreateProcessInstance(w)
  PROVE  TypeOK'
<1>1. starting' \in [Starters -> StartRequests]
  BY CreatedTyped, StartsTyped DEF StartRequests
<1>2. instances \in Seq(InstanceRow)
  BY DEF TypeOK, InstanceRow
<1>3. instances' \in Seq(InstanceRow)
  <2>1. PICK r \in InstanceRow : r = NewInstance(w)'
    BY CreatedTyped
  <2>2. instances' = Append(instances, r) \/ instances' = instances
    BY <2>1 DEF CreateProcessInstance
  <2>3. QED
    BY <1>2, <2>2
<1>4. QED
  BY <1>1, <1>3, StartKeepsTypes DEF CreateProcessInstance, TypeOK

\* Reading the definition once more.
LEMMA NavigateTyped ==
  ASSUME TypeOK, NEW w \in Starters, NavigateFromStart(w)
  PROVE  TypeOK'
<1>1. starting[w] \in HasCreated
  BY StartingTyped DEF NavigateFromStart
<1>2. [starting[w] EXCEPT !.pc = "commit"] \in StartRequests /\ [pc |-> "idle"] \in StartRequests
  BY <1>1 DEF HasCreated, StartRequests
<1>3. \E r \in StartRequests : starting' = [starting EXCEPT ![w] = r]
  BY <1>2, StartingTyped DEF NavigateFromStart, StartReturns
<1>4. QED
  BY <1>3, StartsTyped, StartKeepsTypes DEF NavigateFromStart, TypeOK, InstanceRow

\* Committing.
LEMMA CommitTyped ==
  ASSUME TypeOK, NEW w \in Starters, CommitStart(w)
  PROVE  TypeOK' /\ NewInstance(w) \in InstanceRow
<1>1. starting[w] \in HasCreated
  BY StartingTyped DEF CommitStart
<1>2. NewInstance(w) \in InstanceRow
  BY <1>1 DEF HasCreated, InstanceRow, NewInstance
<1>3. instances \in Seq(InstanceRow)
  BY DEF TypeOK, InstanceRow
<1>4. instances' \in Seq(InstanceRow)
  BY <1>2, <1>3 DEF CommitStart
<1>5. QED
  BY <1>2, <1>4, StartsTyped, StartKeepsTypes DEF CommitStart, StartReturns, TypeOK, StartRequests

\* and every step keeps the types.
LEMMA NextTyped == TypeOK /\ [Next]_deploymentVars => TypeOK'
<1> SUFFICES ASSUME TypeOK, [Next]_deploymentVars PROVE TypeOK'
  OBVIOUS
<1>1. CASE \E w \in Deployers : Deploying(w)
  BY <1>1, DeployTyped, CreateTyped DEF Deploying
<1>2. CASE \E w \in Starters : Starting(w)
  BY <1>2, LookupTyped, ReadTyped, CreateInstanceTyped, NavigateTyped, CommitTyped DEF Starting
<1>3. CASE \E d \in definitions : DeleteProcessDefinition(d)
  BY <1>3 DEF DeleteProcessDefinition, TypeOK
<1>4. CASE UNCHANGED deploymentVars
  BY <1>4 DEF deploymentVars, TypeOK
<1>5. QED
  BY <1>1, <1>2, <1>3, <1>4 DEF Next

\* Rows, requests and instances keep their types: versions start at 1, and what
\* deployments and starts carry from one step to the next is well formed.
THEOREM TypeCorrect == Spec => []TypeOK
  BY InitTyped, NextTyped, PTL DEF Spec

-----------------------------------------------------------------------------
(* Versions *)

\* No struct is deployed again to a store that shares it.
StructsOnce == \A s \in Setups : ~(s.memory /\ s.again)

\* Structs are numbered in the order of their deployment.
ContentsCounted ==
    /\ \A d \in definitions : d.content <= deploys
    /\ \A w \in Deployers : deploying[w].pc = "create" => deploying[w].content <= deploys

\* The version a deployment is about to create follows one that is there.
NextInLine ==
    setup.deletes = "none" =>
        \A w \in Deployers :
            (deploying[w].pc = "create" /\ deploying[w].version # 1)
                => \E e \in definitions : /\ e.key = deploying[w].key
                                          /\ e.version = deploying[w].version - 1

VersionInv == TypeOK /\ VersionsCount /\ ContentsCounted /\ NextInLine

\* VersionInv holds at first,
LEMMA VersionInit == Init => VersionInv
  BY InitTyped DEF Init, VersionInv, VersionsCount, ContentsCounted, NextInLine

\* Choosing a version changes no row.
LEMMA DeployKeepsRows ==
  ASSUME StructsOnce, TypeOK, ContentsCounted,
         NEW w \in Deployers, NEW key \in Keys, DeployProcessDefinition(w, key)
  PROVE  definitions' = definitions
<1>1. PICK content \in 1..(deploys + 1), version \in NextVersions(key) :
         /\ content = deploys + 1 \/ setup.again
         /\ definitions' = IF setup.memory
                           THEN {IF d.content = content THEN [d EXCEPT !.version = version] ELSE d : d \in definitions}
                           ELSE definitions
  BY DEF DeployProcessDefinition
<1>2. CASE ~setup.memory
  BY <1>1, <1>2
<1>3. CASE setup.memory
  <2>1. content = deploys + 1
    BY <1>1, <1>3 DEF StructsOnce, TypeOK
  <2>2. \A d \in definitions : d.content # content
    BY <2>1 DEF TypeOK, Stored, ContentsCounted
  <2>3. QED
    BY <1>1, <1>3, <2>2
<1>4. QED
  BY <1>2, <1>3

\* when a deployer has read the latest version,
LEMMA DeployVersions ==
  ASSUME StructsOnce, VersionInv, NEW w \in Deployers, NEW key \in Keys, DeployProcessDefinition(w, key)
  PROVE  VersionInv'
<1>1. definitions' = definitions
  BY DeployKeepsRows DEF VersionInv
<1>2. PICK content \in 1..(deploys + 1), version \in NextVersions(key) :
         deploying' = [deploying EXCEPT ![w] =
                [pc |-> "create", key |-> key, version |-> version, content |-> content]]
  BY DEF DeployProcessDefinition
<1>3. setup' = setup /\ deploys' = deploys + 1 /\ deploys \in Nat
  BY DEF DeployProcessDefinition, VersionInv, TypeOK
<1>4. TypeOK'
  BY DeployTyped DEF VersionInv
<1>5. VersionsCount'
  BY <1>1, <1>3 DEF VersionInv, VersionsCount
<1>6. deploying' \in [Deployers -> [pc : {"idle"}] \cup DeployRequest]
  BY <1>4 DEF TypeOK, DeployRequest
<1>7. ContentsCounted'
  <2>1. \A d \in definitions' : d.content <= deploys'
    BY <1>1, <1>3 DEF VersionInv, ContentsCounted, TypeOK, Stored
  <2>2. ASSUME NEW v \in Deployers, deploying'[v].pc = "create"
        PROVE  deploying'[v].content <= deploys'
    <3>1. CASE v = w
      BY <1>2, <1>3, <3>1 DEF VersionInv, TypeOK
    <3>2. CASE v # w
      <4>1. deploying'[v] = deploying[v]
        BY <1>2, <3>2 DEF VersionInv, TypeOK
      <4>2. deploying[v] \in DeployRequest
        BY <2>2, <4>1, CreatingTyped DEF VersionInv
      <4>3. QED
        BY <1>3, <2>2, <4>1, <4>2 DEF VersionInv, ContentsCounted, DeployRequest
    <3>3. QED
      BY <3>1, <3>2
  <2>3. QED
    BY <2>1, <2>2 DEF ContentsCounted
<1>8. NextInLine'
  <2>1. ASSUME setup.deletes = "none", version # 1
        PROVE  \E e \in definitions : e.key = key /\ e.version = version - 1
    <3>1. PICK d \in GetLatestProcessDefinitionByKey(key) : version = d.version + 1
      BY <1>2, <2>1 DEF NextVersions
    <3>2. d \in definitions /\ d.key = key /\ d.version \in Nat
      BY <3>1 DEF GetLatestProcessDefinitionByKey, VersionInv, TypeOK, Stored, Version
    <3>3. QED
      BY <3>1, <3>2
  <2>2. ASSUME setup.deletes = "none", NEW v \in Deployers,
               deploying'[v].pc = "create", deploying'[v].version # 1
        PROVE  \E e \in definitions : /\ e.key = deploying'[v].key
                                      /\ e.version = deploying'[v].version - 1
    <3>1. CASE v = w
      BY <1>2, <2>1, <2>2, <3>1 DEF VersionInv, TypeOK
    <3>2. CASE v # w
      <4>1. deploying'[v] = deploying[v]
        BY <1>2, <3>2 DEF VersionInv, TypeOK
      <4>2. QED
        BY <2>2, <4>1 DEF VersionInv, NextInLine
    <3>3. QED
      BY <3>1, <3>2
  <2>3. QED
    BY <1>1, <1>3, <2>2 DEF NextInLine
<1>9. QED
  BY <1>4, <1>5, <1>7, <1>8 DEF VersionInv

\* Creating a row: nothing happens, or one is added under an ID that was free.
LEMMA Created ==
  ASSUME TypeOK, NEW w \in Deployers, CreateProcessDefinition(w)
  PROVE  \/ definitions' = definitions
         \/ /\ GetProcessDefinition(deploying[w].key, deploying[w].version) = {}
            /\ definitions' = definitions \cup
                  {[key |-> deploying[w].key, n |-> deploying[w].version,
                    version |-> deploying[w].version, content |-> deploying[w].content]}
  BY DEF CreateProcessDefinition

\* when it creates the next one,
LEMMA CreateVersions ==
  ASSUME VersionInv, NEW w \in Deployers, CreateProcessDefinition(w)
  PROVE  VersionInv'
<1> DEFINE new == [key |-> deploying[w].key, n |-> deploying[w].version,
                   version |-> deploying[w].version, content |-> deploying[w].content]
<1>1. /\ setup' = setup /\ deploys' = deploys
      /\ deploying' = [deploying EXCEPT ![w] = [pc |-> "idle"]]
      /\ deploying[w].pc = "create"
  BY DEF CreateProcessDefinition
<1>2. TypeOK'
  BY CreateTyped DEF VersionInv
<1>3. \A v \in Deployers : deploying'[v].pc = "create" => deploying'[v] = deploying[v]
  BY <1>1 DEF VersionInv, TypeOK
<1>4. definitions \subseteq definitions'
  BY Created DEF VersionInv
<1>5. NextInLine'
  BY <1>1, <1>3, <1>4 DEF VersionInv, NextInLine
<1>6. ContentsCounted'
  BY <1>1, <1>3, Created DEF VersionInv, ContentsCounted
<1>7. VersionsCount'
  <2>1. CASE definitions' = definitions
    BY <1>1, <2>1 DEF VersionInv, VersionsCount
  <2>2. CASE /\ GetProcessDefinition(deploying[w].key, deploying[w].version) = {}
             /\ definitions' = definitions \cup {new}
    <3>1. \A d \in definitions : ~(d.key = new.key /\ d.version = new.version)
      BY <2>2 DEF GetProcessDefinition, VersionInv, VersionsCount
    <3>2. ASSUME setup.deletes = "none", new.version # 1
          PROVE  \E e \in definitions : e.key = new.key /\ e.version = new.version - 1
      BY <1>1, <3>2 DEF VersionInv, NextInLine
    <3>3. ASSUME NEW d \in definitions'
          PROVE  /\ d.version = d.n
                 /\ \A e \in definitions' : (e.key = d.key /\ e.version = d.version) => e = d
      BY <2>2, <3>1, <3>3 DEF VersionInv, VersionsCount
    <3>4. ASSUME NEW d \in definitions', setup.deletes = "none", d.version # 1
          PROVE  \E e \in definitions' : e.key = d.key /\ e.version = d.version - 1
      <4>1. CASE d \in definitions
        BY <2>2, <3>4, <4>1 DEF VersionInv, VersionsCount
      <4>2. CASE d = new
        BY <2>2, <3>2, <3>4, <4>2
      <4>3. QED
        BY <2>2, <4>1, <4>2
    <3>5. QED
      BY <1>1, <3>3, <3>4 DEF VersionsCount
  <2>3. QED
    BY <2>1, <2>2, Created DEF VersionInv
<1>8. QED
  BY <1>2, <1>5, <1>6, <1>7 DEF VersionInv

\* and after every step.
LEMMA VersionNext == StructsOnce /\ VersionInv /\ [Next]_deploymentVars => VersionInv'
<1> SUFFICES ASSUME StructsOnce, VersionInv, [Next]_deploymentVars PROVE VersionInv'
  OBVIOUS
<1>1. TypeOK'
  BY NextTyped DEF VersionInv
<1>2. CASE \E w \in Deployers : Deploying(w)
  BY <1>2, DeployVersions, CreateVersions DEF Deploying
<1>3. CASE \E w \in Starters : Starting(w)
  <2>1. UNCHANGED <<setup, definitions, deploying, deploys>>
    BY <1>3 DEF Starting, StartProcessInstanceByKey, StartProcessInstance, CreateProcessInstance,
                NavigateFromStart, CommitStart
  <2>2. QED
    BY <1>1, <2>1 DEF VersionInv, VersionsCount, ContentsCounted, NextInLine
<1>4. CASE \E d \in definitions : DeleteProcessDefinition(d)
  <2>1. /\ UNCHANGED <<setup, deploying, deploys>>
        /\ definitions' \subseteq definitions
        /\ setup.deletes # "none"
    BY <1>4 DEF DeleteProcessDefinition
  <2>2. QED
    BY <1>1, <2>1 DEF VersionInv, VersionsCount, ContentsCounted, NextInLine
<1>5. CASE UNCHANGED deploymentVars
  BY <1>1, <1>5 DEF deploymentVars, VersionInv, VersionsCount, ContentsCounted, NextInLine
<1>6. QED
  BY <1>2, <1>3, <1>4, <1>5 DEF Next

\* Deployments that race each other give no version twice and, while nothing is
\* deleted, skip none, provided that no struct is deployed again to memstore.
THEOREM VersionsCounted ==
  ASSUME StructsOnce
  PROVE  Spec => []VersionsCount
<1>1. VersionInv /\ [Next]_deploymentVars => VersionInv'
  BY VersionNext
<1>2. VersionInv => VersionsCount
  BY DEF VersionInv
<1>3. QED
  BY <1>1, <1>2, VersionInit, PTL DEF Spec

-----------------------------------------------------------------------------
(* Starts and their instances *)

\* Starts change no definition, deployments and deletions concern no start.
LEMMA StepsApart ==
  ASSUME [Next]_deploymentVars
  PROVE  /\ setup' = setup
         /\ \/ UNCHANGED <<instances, starting, clock>>
            \/ definitions' = definitions /\ \E w \in Starters : Starting(w)
  BY DEF Next, deploymentVars, Deploying, DeployProcessDefinition, CreateProcessDefinition,
         DeleteProcessDefinition, Starting, StartProcessInstanceByKey, StartProcessInstance,
         CreateProcessInstance, NavigateFromStart, CommitStart

\* A step of a start changes nothing of another start.
LEMMA OtherStarts ==
  ASSUME TypeOK, NEW w \in Starters, Starting(w)
  PROVE  \A v \in Starters : v # w => starting'[v] = starting[v]
  BY StartingTyped DEF Starting, StartProcessInstanceByKey, StartProcessInstance, CreateProcessInstance,
                       NavigateFromStart, CommitStart, StartReturns

\* w brings an instance of what it has in hand, in memory when it creates it and
\* in an SQL store when it commits.
Brings(w, r) ==
    /\ instances' = Append(instances, r)
    /\ r \in InstanceRow
    /\ r.key = starting[w].key /\ r.n = starting[w].n
    /\ r.content = starting[w].content /\ r.earlier = starting[w].earlier
    /\ \/ setup.memory /\ CreateProcessInstance(w) /\ starting[w] \in HasRead
       \/ CommitStart(w) /\ starting[w] \in HasCreated /\ r.startedAt = starting[w].startedAt

LEMMA InstanceBrought ==
  ASSUME TypeOK, NEW w \in Starters, Starting(w), instances' # instances
  PROVE  \E r \in InstanceRow : Brings(w, r)
<1>1. CASE CreateProcessInstance(w)
  <2>1. PICK r \in InstanceRow :
           r = [key |-> starting[w].key, n |-> starting[w].n, content |-> starting[w].content,
                earlier |-> starting[w].earlier, startedAt |-> clock + 1]
    BY <1>1, CreatedTyped
  <2>2. instances' = Append(instances, r) /\ setup.memory /\ starting[w] \in HasRead
    BY <1>1, <2>1, CreatedTyped DEF CreateProcessInstance
  <2>3. QED
    BY <1>1, <2>1, <2>2 DEF Brings
<1>2. CASE CommitStart(w)
  <2>1. PICK r \in InstanceRow : r = NewInstance(w)
    BY <1>2, CommitTyped
  <2>2. starting[w] \in HasCreated
    BY <1>2, StartingTyped DEF CommitStart
  <2>3. QED
    BY <1>2, <2>1, <2>2 DEF Brings, CommitStart, NewInstance
<1>3. QED
  BY <1>1, <1>2 DEF Starting, StartProcessInstanceByKey, StartProcessInstance, NavigateFromStart

\* What a start has in hand from its look-up on it keeps; the content comes from
\* the definition that it reads.
LEMMA GoesOn ==
  ASSUME TypeOK, NEW w \in Starters, Starting(w), starting'[w].pc # "idle",
         \A key \in Keys : ~StartProcessInstanceByKey(w, key)
  PROVE  /\ starting[w].pc # "idle"
         /\ starting'[w].key = starting[w].key /\ starting'[w].n = starting[w].n
         /\ starting'[w].earlier = starting[w].earlier
         /\ starting'[w].pc # "start"
         /\ \/ starting[w].pc # "start" /\ starting'[w].content = starting[w].content
            \/ \E d \in GetProcessDefinition(starting[w].key, starting[w].n) : starting'[w].content = d.content
<1>1. CASE StartProcessInstance(w)
  <2>1. PICK d \in GetProcessDefinition(starting[w].key, starting[w].n) :
           starting' = [starting EXCEPT ![w] =
              [pc |-> "create", key |-> d.key, n |-> d.n, content |-> d.content, earlier |-> starting[w].earlier]]
    BY <1>1, StartingTyped DEF StartProcessInstance, StartReturns
  <2>2. starting'[w] = [pc |-> "create", key |-> d.key, n |-> d.n, content |-> d.content,
                        earlier |-> starting[w].earlier]
    BY <2>1, StartingTyped
  <2>3. QED
    BY <1>1, <2>1, <2>2 DEF StartProcessInstance, GetProcessDefinition
<1>2. CASE CreateProcessInstance(w)
  BY <1>2, CreatedTyped DEF CreateProcessInstance
<1>3. CASE NavigateFromStart(w)
  <2>1. starting[w] \in HasCreated
    BY <1>3, StartingTyped DEF NavigateFromStart
  <2>2. starting'[w] = [starting[w] EXCEPT !.pc = "commit"]
    BY <1>3, StartingTyped DEF NavigateFromStart, StartReturns
  <2>3. QED
    BY <1>3, <2>1, <2>2 DEF NavigateFromStart, HasCreated
<1>4. CASE CommitStart(w)
  BY <1>4, StartingTyped DEF CommitStart, StartReturns
<1>5. QED
  BY <1>1, <1>2, <1>3, <1>4 DEF Starting

\* A row that goes has been deleted.
LEMMA OnlyDeleted ==
  ASSUME StructsOnce, VersionInv, [Next]_deploymentVars, NEW d \in definitions, d \notin definitions'
  PROVE  DeleteProcessDefinition(d)
<1>1. \A w \in Deployers : ~Deploying(w)
  BY DeployKeepsRows, Created DEF Deploying, VersionInv
<1>2. \A w \in Starters : ~Starting(w)
  BY DEF Starting, StartProcessInstanceByKey, StartProcessInstance, CreateProcessInstance,
         NavigateFromStart, CommitStart
<1>3. PICK e \in definitions : DeleteProcessDefinition(e)
  BY <1>1, <1>2 DEF Next, deploymentVars
<1>4. e = d
  BY <1>3 DEF DeleteProcessDefinition
<1>5. QED
  BY <1>3, <1>4

-----------------------------------------------------------------------------
(* Instances and their definitions *)

\* Only definitions are deleted of which there are no instances and of which no
\* start is under way.
KeepsIdle == \A s \in Setups : s.deletes \in {"none", "idle"}

\* What a start has read is still deployed.
StartsHoldDefinition ==
    \A w \in Starters : starting[w].pc \notin {"idle", "start"} =>
        \E d \in GetProcessDefinition(starting[w].key, starting[w].n) : d.content = starting[w].content

KeptInv == VersionInv /\ InstancesKeepDefinition /\ StartsHoldDefinition

\* Deployments and deletions keep what instances and starts were given.
LEMMA KeptByOthers ==
  ASSUME StructsOnce, KeepsIdle, KeptInv, [Next]_deploymentVars, UNCHANGED <<instances, starting>>
  PROVE  InstancesKeepDefinition' /\ StartsHoldDefinition'
<1>1. ASSUME NEW d \in definitions, d \notin definitions'
      PROVE  Superseded(d) /\ NotStarting(d)
  <2>1. DeleteProcessDefinition(d)
    BY <1>1, OnlyDeleted DEF KeptInv
  <2>2. setup.deletes = "idle"
    BY <2>1 DEF DeleteProcessDefinition, KeepsIdle, KeptInv, VersionInv, TypeOK
  <2>3. QED
    BY <2>1, <2>2 DEF DeleteProcessDefinition
<1>2. ASSUME NEW i \in DOMAIN instances
      PROVE  \E d \in definitions' : /\ d.key = instances[i].key /\ d.n = instances[i].n
                                     /\ d.content = instances[i].content
  <2>1. PICK d \in definitions : d.key = instances[i].key /\ d.n = instances[i].n /\ d.content = instances[i].content
    BY <1>2 DEF KeptInv, InstancesKeepDefinition, GetProcessDefinition
  <2>2. d \in definitions'
    BY <1>1, <1>2, <2>1 DEF Superseded
  <2>3. QED
    BY <2>1, <2>2
<1>3. ASSUME NEW w \in Starters, starting[w].pc \notin {"idle", "start"}
      PROVE  \E d \in definitions' : /\ d.key = starting[w].key /\ d.n = starting[w].n
                                     /\ d.content = starting[w].content
  <2>1. PICK d \in definitions : d.key = starting[w].key /\ d.n = starting[w].n /\ d.content = starting[w].content
    BY <1>3 DEF KeptInv, StartsHoldDefinition, GetProcessDefinition
  <2>2. d \in definitions'
    BY <1>1, <1>3, <2>1 DEF NotStarting
  <2>3. QED
    BY <2>1, <2>2
<1>4. InstancesKeepDefinition'
  BY <1>2 DEF InstancesKeepDefinition, GetProcessDefinition
<1>5. QED
  BY <1>3, <1>4 DEF StartsHoldDefinition, GetProcessDefinition

\* A start creates an instance of the definition that it holds.
LEMMA KeptByStart ==
  ASSUME KeptInv, definitions' = definitions, NEW w \in Starters, Starting(w)
  PROVE  InstancesKeepDefinition' /\ StartsHoldDefinition'
<1>1. TypeOK /\ instances \in Seq(InstanceRow)
  BY DEF KeptInv, VersionInv, TypeOK, InstanceRow
<1>2. InstancesKeepDefinition'
  <2>1. CASE instances' = instances
    BY <2>1 DEF KeptInv, InstancesKeepDefinition, GetProcessDefinition
  <2>2. CASE instances' # instances
    <3>1. PICK r \in InstanceRow : Brings(w, r)
      BY <1>1, <2>2, InstanceBrought
    <3>2. PICK d \in definitions : d.key = r.key /\ d.n = r.n /\ d.content = r.content
      BY <3>1 DEF Brings, KeptInv, StartsHoldDefinition, GetProcessDefinition, HasRead, HasCreated
    <3>3. instances' = Append(instances, r)
      BY <3>1 DEF Brings
    <3>4. ASSUME NEW i \in DOMAIN instances'
          PROVE  \E e \in definitions : /\ e.key = instances'[i].key /\ e.n = instances'[i].n
                                        /\ e.content = instances'[i].content
      <4>1. CASE i \in DOMAIN instances
        <5>1. instances'[i] = instances[i]
          BY <1>1, <3>3, <4>1
        <5>2. QED
          BY <4>1, <5>1 DEF KeptInv, InstancesKeepDefinition, GetProcessDefinition
      <4>2. CASE i \notin DOMAIN instances
        <5>1. instances'[i] = r
          BY <1>1, <3>3, <3>4, <4>2
        <5>2. QED
          BY <3>2, <5>1
      <4>3. QED
        BY <4>1, <4>2
    <3>5. QED
      BY <3>4 DEF InstancesKeepDefinition, GetProcessDefinition
  <2>3. QED
    BY <2>1, <2>2
<1>3. StartsHoldDefinition'
  <2>1. SUFFICES ASSUME NEW v \in Starters, starting'[v].pc \notin {"idle", "start"}
                 PROVE  \E d \in definitions : /\ d.key = starting'[v].key /\ d.n = starting'[v].n
                                               /\ d.content = starting'[v].content
    BY DEF StartsHoldDefinition, GetProcessDefinition
  <2>2. CASE v # w
    <3>1. starting'[v] = starting[v]
      BY <1>1, <2>2, OtherStarts
    <3>2. QED
      BY <2>1, <3>1 DEF KeptInv, StartsHoldDefinition, GetProcessDefinition
  <2>3. CASE v = w
    <3>1. \A key \in Keys : ~StartProcessInstanceByKey(w, key)
      BY <1>1, <2>1, <2>3, StartingTyped DEF StartProcessInstanceByKey
    <3>2. QED
      BY <1>1, <2>1, <2>3, <3>1, GoesOn DEF KeptInv, StartsHoldDefinition, GetProcessDefinition
  <2>4. QED
    BY <2>2, <2>3
<1>4. QED
  BY <1>2, <1>3

\* No step changes the definition an instance was started with.
LEMMA KeptNext ==
  ASSUME StructsOnce, KeepsIdle, KeptInv, [Next]_deploymentVars
  PROVE  KeptInv'
  BY VersionNext, StepsApart, KeptByOthers, KeptByStart DEF KeptInv

\* There are no instances at first.
LEMMA KeptInit == Init => KeptInv
  BY VersionInit DEF Init, KeptInv, InstancesKeepDefinition, StartsHoldDefinition

\* If definitions are deleted only while nobody uses or starts them, what an
\* instance was started with stays deployed under its ID, whoever deploys and
\* deletes between the reads and the commit of its start and afterwards.
THEOREM DefinitionsKept ==
  ASSUME StructsOnce, KeepsIdle
  PROVE  Spec => []InstancesKeepDefinition
<1>1. KeptInv /\ [Next]_deploymentVars => KeptInv'
  BY KeptNext
<1>2. KeptInv => InstancesKeepDefinition
  BY DEF KeptInv
<1>3. QED
  BY <1>1, <1>2, KeptInit, PTL DEF Spec

-----------------------------------------------------------------------------
(* Starts by key *)

\* Definitions that instances use are not deleted, nor the latest ones; those
\* that a start has in hand may be.
KeepsUsed == \A s \in Setups : s.deletes # "any"

\* There is a definition of the key that is no older than version n.
HasSince(key, n) == \E d \in definitions : d.key = key /\ d.version >= n

\* No key falls behind a version that it once had.
LEMMA SinceStays ==
  ASSUME StructsOnce, KeepsUsed, VersionInv, [Next]_deploymentVars,
         NEW key \in Keys, NEW n \in Nat, HasSince(key, n)
  PROVE  HasSince(key, n)'
<1>1. PICK d \in definitions : d.key = key /\ d.version >= n
  BY DEF HasSince
<1>2. CASE d \in definitions'
  BY <1>1, <1>2 DEF HasSince
<1>3. CASE d \notin definitions'
  <2>1. DeleteProcessDefinition(d)
    BY <1>3, OnlyDeleted
  <2>2. setup.deletes \in {"unused", "idle"}
    BY <2>1, DeploymentAssumption DEF DeleteProcessDefinition, KeepsUsed, VersionInv, TypeOK
  <2>3. PICK e \in definitions : e.key = key /\ ~(e.version <= d.version)
    BY <1>1, <2>1, <2>2 DEF DeleteProcessDefinition, Superseded, GetLatestProcessDefinitionByKey
  <2>4. d.version \in Nat /\ e.version \in Nat
    BY <2>3 DEF VersionInv, TypeOK, Stored, Version
  <2>5. e \in definitions' /\ e.version >= n
    BY <1>1, <2>1, <2>3, <2>4 DEF DeleteProcessDefinition
  <2>6. QED
    BY <2>3, <2>5 DEF HasSince
<1>4. QED
  BY <1>2, <1>3

\* Keys keep up with their instances and with the starts under way.
KeepsUp ==
    /\ \A i \in DOMAIN instances : HasSince(instances[i].key, instances[i].n)
    /\ \A w \in Starters : starting[w].pc # "idle" => HasSince(starting[w].key, starting[w].n)

\* A start that is under way has looked up a version that is no older than what
\* there was when it began.
LooksForward ==
    \A w \in Starters : starting[w].pc # "idle" =>
        /\ starting[w].earlier <= Len(instances)
        /\ \A j \in DOMAIN instances :
              (j <= starting[w].earlier /\ instances[j].key = starting[w].key)
                  => instances[j].n <= starting[w].n

\* So have the starts that are done.
EarlierCounted == \A i \in DOMAIN instances : instances[i].earlier <= Len(instances)

StartInv == VersionInv /\ KeepsUp /\ LooksForward /\ EarlierCounted /\ StartsNeverFallBack

\* There are no starts at first.
LEMMA StartInit == Init => StartInv
  BY VersionInit DEF Init, StartInv, KeepsUp, LooksForward, EarlierCounted, StartsNeverFallBack

\* Starts under way and instances have keys and versions.
LEMMA InHandTyped ==
  ASSUME TypeOK
  PROVE  /\ instances \in Seq(InstanceRow)
         /\ \A i \in DOMAIN instances : instances[i] \in InstanceRow
         /\ \A w \in Starters : starting[w].pc # "idle" =>
               starting[w].key \in Keys /\ starting[w].n \in Nat /\ starting[w].earlier \in Nat
<1>1. instances \in Seq(InstanceRow)
  BY DEF TypeOK, InstanceRow
<1>2. ASSUME NEW i \in DOMAIN instances PROVE instances[i] \in InstanceRow
  BY <1>1, <1>2, ElementTyped
<1>3. ASSUME NEW w \in Starters, starting[w].pc # "idle"
      PROVE  starting[w].key \in Keys /\ starting[w].n \in Nat /\ starting[w].earlier \in Nat
  <2>1. starting[w] \in StartRequests
    BY StartingTyped
  <2>2. starting[w] \in LookedUp \/ starting[w] \in HasRead \/ starting[w] \in HasCreated
    BY <1>3, <2>1 DEF StartRequests
  <2>3. QED
    BY <2>2 DEF LookedUp, HasRead, HasCreated, Version
<1>4. QED
  BY <1>1, <1>2, <1>3

\* Whatever is deployed or deleted, keys keep up.
LEMMA KeptUpByOthers ==
  ASSUME StructsOnce, KeepsUsed, StartInv, [Next]_deploymentVars, UNCHANGED <<instances, starting>>
  PROVE  KeepsUp'
<1>1. VersionInv /\ TypeOK
  BY DEF StartInv, VersionInv
<1>2. ASSUME NEW i \in DOMAIN instances
      PROVE  \E d \in definitions' : d.key = instances[i].key /\ d.version >= instances[i].n
  <2>1. PICK key \in Keys, n \in Nat : key = instances[i].key /\ n = instances[i].n
    BY <1>1, <1>2, InHandTyped DEF InstanceRow, Version
  <2>2. HasSince(key, n)
    BY <1>2, <2>1 DEF StartInv, KeepsUp
  <2>3. HasSince(key, n)'
    BY <1>1, <2>2, SinceStays
  <2>4. QED
    BY <2>1, <2>3 DEF HasSince
<1>3. ASSUME NEW w \in Starters, starting[w].pc # "idle"
      PROVE  \E d \in definitions' : d.key = starting[w].key /\ d.version >= starting[w].n
  <2>1. PICK key \in Keys, n \in Nat : key = starting[w].key /\ n = starting[w].n
    BY <1>1, <1>3, InHandTyped
  <2>2. HasSince(key, n)
    BY <1>3, <2>1 DEF StartInv, KeepsUp
  <2>3. HasSince(key, n)'
    BY <1>1, <2>2, SinceStays
  <2>4. QED
    BY <2>1, <2>3 DEF HasSince
<1>4. QED
  BY <1>2, <1>3 DEF KeepsUp, HasSince

\* A look-up finds a version that is no older than what there is.
LEMMA LookupForward ==
  ASSUME StartInv, NEW w \in Starters, NEW key \in Keys, StartProcessInstanceByKey(w, key)
  PROVE  /\ starting'[w].pc # "idle" /\ starting'[w].earlier = Len(instances)
         /\ \E d \in definitions : d.key = starting'[w].key /\ d.version >= starting'[w].n
         /\ \A j \in DOMAIN instances :
               instances[j].key = starting'[w].key => instances[j].n <= starting'[w].n
<1>1. PICK d \in GetLatestProcessDefinitionByKey(key) :
         starting' = [starting EXCEPT ![w] =
            [pc |-> "start", key |-> key, n |-> d.version, earlier |-> Len(instances)]]
  BY DEF StartProcessInstanceByKey
<1>2. TypeOK
  BY DEF StartInv, VersionInv
<1>3. starting'[w] = [pc |-> "start", key |-> key, n |-> d.version, earlier |-> Len(instances)]
  BY <1>1, <1>2, StartingTyped
<1>4. d \in definitions /\ d.key = key /\ d.version \in Nat
  BY <1>1, <1>2 DEF GetLatestProcessDefinitionByKey, TypeOK, Stored, Version
<1>5. ASSUME NEW j \in DOMAIN instances, instances[j].key = key
      PROVE  instances[j].n <= d.version
  <2>1. PICK e \in definitions : e.key = key /\ e.version >= instances[j].n
    BY <1>5 DEF StartInv, KeepsUp, HasSince
  <2>2. e.version <= d.version
    BY <1>1, <2>1 DEF GetLatestProcessDefinitionByKey
  <2>3. e.version \in Nat /\ instances[j].n \in Nat
    BY <1>2, <1>5, <2>1, InHandTyped DEF TypeOK, Stored, InstanceRow, Version
  <2>4. QED
    BY <1>4, <2>1, <2>2, <2>3
<1>6. d.version >= d.version
  BY <1>4
<1>7. QED
  BY <1>3, <1>4, <1>5, <1>6

\* A step of a start either looks a key up, brings an instance, or changes
\* neither what there is nor what the start has in hand.
LEMMA StartKeepsHand ==
  ASSUME TypeOK, NEW w \in Starters, Starting(w)
  PROVE  \/ /\ instances' = instances
            /\ \E key \in Keys : StartProcessInstanceByKey(w, key)
         \/ starting'[w].pc = "idle"
         \/ /\ starting[w].pc # "idle" /\ starting'[w].key = starting[w].key
            /\ starting'[w].n = starting[w].n /\ starting'[w].earlier = starting[w].earlier
  BY GoesOn DEF StartProcessInstanceByKey

\* A start keeps the instances that there are, and adds at most the one it has
\* in hand.
LEMMA StartAdds ==
  ASSUME TypeOK, NEW w \in Starters, Starting(w)
  PROVE  /\ Len(instances') >= Len(instances)
         /\ Len(instances) \in Nat /\ Len(instances') \in Nat
         /\ DOMAIN instances = 1..Len(instances) /\ DOMAIN instances' = 1..Len(instances')
         /\ \A i \in DOMAIN instances : i \in DOMAIN instances' /\ instances'[i] = instances[i]
         /\ \A i \in DOMAIN instances' : i \notin DOMAIN instances =>
               /\ i = Len(instances) + 1
               /\ starting[w].pc # "idle"
               /\ instances'[i].key = starting[w].key /\ instances'[i].n = starting[w].n
               /\ instances'[i].earlier = starting[w].earlier
<1>1. instances \in Seq(InstanceRow)
  BY InHandTyped
<1>2. CASE instances' = instances
  BY <1>1, <1>2
<1>3. CASE instances' # instances
  <2>1. PICK r \in InstanceRow : Brings(w, r)
    BY <1>3, InstanceBrought
  <2>2. instances' = Append(instances, r)
    BY <2>1 DEF Brings
  <2>3. starting[w].pc # "idle"
    BY <2>1 DEF Brings, HasRead, HasCreated
  <2>4. r.key = starting[w].key /\ r.n = starting[w].n /\ r.earlier = starting[w].earlier
    BY <2>1 DEF Brings
  <2>5. /\ Len(instances') = Len(instances) + 1
        /\ Len(instances) \in Nat
        /\ DOMAIN instances = 1..Len(instances) /\ DOMAIN instances' = 1..Len(instances')
        /\ \A i \in DOMAIN instances : instances'[i] = instances[i]
        /\ instances'[Len(instances) + 1] = r
    BY <1>1, <2>2
  <2>6. QED
    BY <2>3, <2>4, <2>5
<1>4. QED
  BY <1>2, <1>3

\* A step of a start looks forward, and so do the instances.
LEMMA StartForward ==
  ASSUME StartInv, definitions' = definitions, NEW w \in Starters, Starting(w)
  PROVE  KeepsUp' /\ LooksForward' /\ EarlierCounted' /\ StartsNeverFallBack'
<1>1. TypeOK
  BY DEF StartInv, VersionInv
<1>2. ASSUME NEW v \in Starters, starting'[v].pc # "idle"
      PROVE  /\ \E d \in definitions : d.key = starting'[v].key /\ d.version >= starting'[v].n
             /\ starting'[v].earlier <= Len(instances')
             /\ \A j \in DOMAIN instances' :
                   (j <= starting'[v].earlier /\ instances'[j].key = starting'[v].key)
                       => instances'[j].n <= starting'[v].n
  <2>1. CASE \E key \in Keys : v = w /\ instances' = instances /\ StartProcessInstanceByKey(w, key)
    <3>1. /\ starting'[v].earlier = Len(instances)
          /\ \E d \in definitions : d.key = starting'[v].key /\ d.version >= starting'[v].n
          /\ \A j \in DOMAIN instances :
                instances[j].key = starting'[v].key => instances[j].n <= starting'[v].n
      BY <2>1, LookupForward
    <3>2. QED
      BY <1>1, <2>1, <3>1, StartAdds
  <2>2. CASE /\ starting[v].pc # "idle" /\ starting'[v].key = starting[v].key
             /\ starting'[v].n = starting[v].n /\ starting'[v].earlier = starting[v].earlier
    <3>1. /\ \E d \in definitions : d.key = starting[v].key /\ d.version >= starting[v].n
          /\ starting[v].earlier <= Len(instances)
          /\ \A j \in DOMAIN instances :
                (j <= starting[v].earlier /\ instances[j].key = starting[v].key)
                    => instances[j].n <= starting[v].n
      BY <2>2 DEF StartInv, KeepsUp, LooksForward, HasSince
    <3>2. starting[v].earlier \in Nat
      BY <1>1, <2>2, InHandTyped
    <3>3. starting[v].earlier <= Len(instances')
      BY <1>1, <3>1, <3>2, StartAdds
    <3>4. ASSUME NEW j \in DOMAIN instances', j <= starting[v].earlier
          PROVE  j \in DOMAIN instances /\ instances'[j] = instances[j]
      BY <1>1, <3>1, <3>2, <3>4, StartAdds
    <3>5. QED
      BY <2>2, <3>1, <3>3, <3>4
  <2>3. QED
    BY <1>1, <1>2, <2>1, <2>2, OtherStarts, StartKeepsHand
<1>3. ASSUME NEW i \in DOMAIN instances'
      PROVE  /\ \E d \in definitions : d.key = instances'[i].key /\ d.version >= instances'[i].n
             /\ instances'[i].earlier <= Len(instances')
             /\ \A j \in DOMAIN instances' :
                   (j <= instances'[i].earlier /\ instances'[j].key = instances'[i].key)
                       => instances'[j].n <= instances'[i].n
  <2>1. /\ \E d \in definitions : d.key = instances'[i].key /\ d.version >= instances'[i].n
        /\ instances'[i].earlier \in Nat /\ instances'[i].earlier <= Len(instances)
        /\ \A j \in DOMAIN instances :
              (j <= instances'[i].earlier /\ instances[j].key = instances'[i].key)
                  => instances[j].n <= instances'[i].n
    <3>1. CASE i \in DOMAIN instances
      <4>1. instances'[i] = instances[i]
        BY <1>1, <3>1, StartAdds
      <4>2. instances[i].earlier \in Nat
        BY <1>1, <3>1, InHandTyped DEF InstanceRow
      <4>3. QED
        BY <3>1, <4>1, <4>2 DEF StartInv, KeepsUp, HasSince, EarlierCounted, StartsNeverFallBack
    <3>2. CASE i \notin DOMAIN instances
      <4>1. /\ starting[w].pc # "idle"
            /\ instances'[i].key = starting[w].key /\ instances'[i].n = starting[w].n
            /\ instances'[i].earlier = starting[w].earlier
        BY <1>1, <1>3, <3>2, StartAdds
      <4>2. starting[w].earlier \in Nat
        BY <1>1, <4>1, InHandTyped
      <4>3. QED
        BY <4>1, <4>2 DEF StartInv, KeepsUp, HasSince, LooksForward
    <3>3. QED
      BY <3>1, <3>2
  <2>2. Len(instances') >= Len(instances) /\ Len(instances) \in Nat /\ Len(instances') \in Nat
    BY <1>1, StartAdds
  <2>3. ASSUME NEW j \in DOMAIN instances', j <= instances'[i].earlier
        PROVE  j \in DOMAIN instances /\ instances'[j] = instances[j]
    BY <1>1, <2>1, <2>3, StartAdds
  <2>4. QED
    BY <2>1, <2>2, <2>3
<1>4. KeepsUp'
  BY <1>2, <1>3 DEF KeepsUp, HasSince
<1>5. LooksForward'
  BY <1>2 DEF LooksForward
<1>6. EarlierCounted' /\ StartsNeverFallBack'
  BY <1>3 DEF EarlierCounted, StartsNeverFallBack
<1>7. QED
  BY <1>4, <1>5, <1>6

\* No step makes a start fall back.
LEMMA StartNext ==
  ASSUME StructsOnce, KeepsUsed, StartInv, [Next]_deploymentVars
  PROVE  StartInv'
<1>1. VersionInv'
  BY VersionNext DEF StartInv
<1>2. CASE UNCHANGED <<instances, starting, clock>>
  <2>1. KeepsUp'
    BY <1>2, KeptUpByOthers
  <2>2. LooksForward' /\ EarlierCounted' /\ StartsNeverFallBack'
    BY <1>2 DEF StartInv, LooksForward, EarlierCounted, StartsNeverFallBack
  <2>3. QED
    BY <1>1, <2>1, <2>2 DEF StartInv
<1>3. CASE definitions' = definitions /\ \E w \in Starters : Starting(w)
  BY <1>1, <1>3, StartForward DEF StartInv
<1>4. QED
  BY <1>2, <1>3, StepsApart

\* If the latest version of a key is never deleted, nor one that instances use,
\* starts by key never fall back behind a version that instances were started
\* with before the request began, however starts, deployments and deletions
\* overlap.
THEOREM StartsForward ==
  ASSUME StructsOnce, KeepsUsed
  PROVE  Spec => []StartsNeverFallBack
<1>1. StartInv /\ [Next]_deploymentVars => StartInv'
  BY StartNext
<1>2. StartInv => StartsNeverFallBack
  BY DEF StartInv
<1>3. QED
  BY <1>1, <1>2, StartInit, PTL DEF Spec
=============================================================================
