----------------------------- MODULE Deployment -----------------------------
(***************************************************************************)
(* Deploying versions of process definitions, and starting instances of the *)
(* latest one.  A deployment reads the latest version of its key and then    *)
(* creates the next, with no transaction around the two.  A start by key     *)
(* looks the key up, reads the definition by its ID, and then creates the    *)
(* instance in a transaction, which reads the definition once more before it *)
(* commits.                                                                  *)
(*                                                                          *)
(* A definition is stored under the ID <<key, n>>.  What it says is its       *)
(* content, the number of the struct that was deployed.  The in-memory store *)
(* keeps the caller's struct itself, so that deploying a struct again         *)
(* changes its version in the store as well.                                 *)
(***************************************************************************)
EXTENDS Integers, Sequences

CONSTANTS
    Keys,          \* the keys of definitions
    Deployers,     \* the goroutines that deploy
    Starters,      \* the goroutines that start instances by key
    MaxDeploys,    \* bound on deployments
    MaxInstances,  \* bound on instances when a start begins
    Setups         \* memory: whether the store is the one in memory; deletes:
                   \* which definitions may be deleted, "none", "any", "unused"
                   \* ones that have a successor, or "idle" ones, of which no
                   \* start is under way either; again: whether a struct may be
                   \* deployed again

ASSUME DeploymentAssumption ==
    /\ MaxDeploys \in Nat /\ MaxInstances \in Nat
    /\ Setups \subseteq [memory : BOOLEAN, deletes : {"none", "idle", "unused", "any"}, again : BOOLEAN]

VARIABLES
    setup,         \* the setup that runs
    definitions,   \* the stored definitions: key and n (the ID), version, content
    instances,     \* the process instances, in the order in which they became
                   \* visible: ID and content of their definition, how many
                   \* instances there were when the request began, and StartedAt
    deploying,     \* deployer -> pc, and key, version and content in hand
    starting,      \* starter -> pc, and what the request has in hand
    deploys,       \* deployments so far
    clock          \* the latest StartedAt

deploymentVars == <<setup, definitions, instances, deploying, starting, deploys, clock>>

GetLatestProcessDefinitionByKey_Any(key) == {d \in definitions : d.key = key}

GetLatestProcessDefinitionByKey(key) ==
    {d \in definitions : /\ d.key = key
                         /\ \A e \in definitions : e.key = key => e.version <= d.version}

GetProcessDefinition(key, n) == {d \in definitions : d.key = key /\ d.n = n}

Init ==
    /\ setup \in Setups
    /\ definitions = {}
    /\ instances = <<>>
    /\ deploying = [w \in Deployers |-> [pc |-> "idle"]]
    /\ starting = [w \in Starters |-> [pc |-> "idle"]]
    /\ deploys = 0
    /\ clock = 0

-----------------------------------------------------------------------------
\* Mutant: versions are counted over all keys.
NextVersions_AllKeys(key) ==
    IF definitions = {} THEN {1} ELSE {d.version + 1 : d \in definitions}

NextVersions(key) ==
    IF GetLatestProcessDefinitionByKey(key) = {} THEN {1}
    ELSE {d.version + 1 : d \in GetLatestProcessDefinitionByKey(key)}

\* DeployProcessDefinition up to the choice of the version.  The struct gets
\* it at once, also where the store in memory holds the struct.
DeployProcessDefinition(w, key) ==
    /\ deploying[w].pc = "idle" /\ deploys < MaxDeploys
    /\ deploys' = deploys + 1
    /\ \E content \in 1..(deploys + 1), version \in NextVersions(key) :
          /\ content = deploys + 1 \/ (setup.again /\ \E d \in definitions : d.key = key /\ d.content = content)
          /\ deploying' = [deploying EXCEPT ![w] =
                [pc |-> "create", key |-> key, version |-> version, content |-> content]]
          /\ definitions' = IF setup.memory
                            THEN {IF d.content = content THEN [d EXCEPT !.version = version] ELSE d : d \in definitions}
                            ELSE definitions
    /\ UNCHANGED <<setup, instances, starting, clock>>

\* Mutant: a definition that is there already is replaced.
CreateProcessDefinition_Replace(w) ==
    LET new == deploying[w]
    IN  /\ new.pc = "create"
        /\ definitions' = (definitions \ GetProcessDefinition(new.key, new.version))
              \cup {[key |-> new.key, n |-> new.version, version |-> new.version, content |-> new.content]}
        /\ deploying' = [deploying EXCEPT ![w] = [pc |-> "idle"]]
        /\ UNCHANGED <<setup, instances, starting, deploys, clock>>

\* The ID is the primary key: a second definition with the same is refused,
\* and the deployment fails.
CreateProcessDefinition(w) ==
    LET new == deploying[w]
    IN  /\ new.pc = "create"
        /\ definitions' = IF GetProcessDefinition(new.key, new.version) # {} THEN definitions
              ELSE definitions \cup {[key |-> new.key, n |-> new.version,
                                      version |-> new.version, content |-> new.content]}
        /\ deploying' = [deploying EXCEPT ![w] = [pc |-> "idle"]]
        /\ UNCHANGED <<setup, instances, starting, deploys, clock>>

\* d has a successor and no instance is of it.
Superseded(d) ==
    /\ d \notin GetLatestProcessDefinitionByKey(d.key)
    /\ \A i \in DOMAIN instances : <<instances[i].key, instances[i].n>> # <<d.key, d.n>>

\* No start of d is under way.
NotStarting(d) ==
    \A w \in Starters : starting[w].pc # "idle" => <<starting[w].key, starting[w].n>> # <<d.key, d.n>>

\* The store deletes what it is told to, used or not; what its clients tell it
\* is in the setup.
DeleteProcessDefinition(d) ==
    /\ setup.deletes # "none"
    /\ setup.deletes \in {"unused", "idle"} => Superseded(d)
    /\ setup.deletes = "idle" => NotStarting(d)
    /\ definitions' = definitions \ {d}
    /\ UNCHANGED <<setup, instances, deploying, starting, deploys, clock>>

\* StartProcessInstanceByKey looks up the ID of the latest version.
StartProcessInstanceByKey(w, key) ==
    /\ starting[w].pc = "idle" /\ Len(instances) < MaxInstances
    /\ \E d \in GetLatestProcessDefinitionByKey(key) :
          starting' = [starting EXCEPT ![w] = [pc |-> "start", key |-> key, n |-> d.version, earlier |-> Len(instances)]]
    /\ UNCHANGED <<setup, definitions, instances, deploying, deploys, clock>>

\* The request returns, with an error or without one.
StartReturns(w) == starting' = [starting EXCEPT ![w] = [pc |-> "idle"]]

\* StartProcessInstance reads the definition again, before its transaction; the
\* request fails if the definition is gone.
StartProcessInstance(w) ==
    LET def == starting[w]
    IN  /\ def.pc = "start"
        /\ \/ /\ GetProcessDefinition(def.key, def.n) = {}
              /\ StartReturns(w)
           \/ \E d \in GetProcessDefinition(def.key, def.n) :
                 starting' = [starting EXCEPT ![w] =
                    [pc |-> "create", key |-> d.key, n |-> d.n, content |-> d.content, earlier |-> def.earlier]]
        /\ UNCHANGED <<setup, definitions, instances, deploying, deploys, clock>>

\* The row of an instance that w has in hand.
NewInstance(w) ==
    LET pi == starting[w]
    IN  [key |-> pi.key, n |-> pi.n, content |-> pi.content, earlier |-> pi.earlier, startedAt |-> pi.startedAt]

\* The instance gets its time and is created.  In memory it is there for all to
\* see, in an SQL store it is not before the transaction commits.
CreateProcessInstance(w) ==
    LET pi == starting[w]
    IN  /\ pi.pc = "create"
        /\ clock' = clock + 1
        /\ starting' = [starting EXCEPT ![w] =
              [pc |-> "navigate", key |-> pi.key, n |-> pi.n, content |-> pi.content, earlier |-> pi.earlier,
               startedAt |-> clock + 1]]
        /\ instances' = IF setup.memory THEN Append(instances, NewInstance(w)') ELSE instances
        /\ UNCHANGED <<setup, definitions, deploying, deploys>>

\* navigateFrom reads the definition once more, in the transaction.  If it is
\* gone the request fails, which undoes the creation in an SQL store only.
NavigateFromStart(w) ==
    LET pi == starting[w]
        gone == GetProcessDefinition(pi.key, pi.n) = {}
    IN  /\ pi.pc = "navigate"
        /\ IF setup.memory \/ gone THEN StartReturns(w) ELSE starting' = [starting EXCEPT ![w].pc = "commit"]
        /\ UNCHANGED <<setup, definitions, instances, deploying, deploys, clock>>

\* The transaction of an SQL store commits, whatever has been deleted since.
CommitStart(w) ==
    /\ starting[w].pc = "commit"
    /\ instances' = Append(instances, NewInstance(w))
    /\ StartReturns(w)
    /\ UNCHANGED <<setup, definitions, deploying, deploys, clock>>

Deploying(w) == (\E key \in Keys : DeployProcessDefinition(w, key)) \/ CreateProcessDefinition(w)
Starting(w) ==
    \/ \E key \in Keys : StartProcessInstanceByKey(w, key)
    \/ StartProcessInstance(w)
    \/ CreateProcessInstance(w)
    \/ NavigateFromStart(w)
    \/ CommitStart(w)

Next ==
    \/ \E w \in Deployers : Deploying(w)
    \/ \E w \in Starters : Starting(w)
    \/ \E d \in definitions : DeleteProcessDefinition(d)

Spec == Init /\ [][Next]_deploymentVars

-----------------------------------------------------------------------------
(* Properties *)

Version == Nat \ {0}
Stored == [key : Keys, n : Version, version : Version, content : Nat]

TypeOK ==
    /\ setup \in Setups
    /\ definitions \subseteq Stored
    /\ deploys \in Nat /\ clock \in Nat
    /\ instances \in Seq([key : Keys, n : Version, content : Nat, earlier : Nat, startedAt : Nat])
    /\ deploying \in [Deployers -> [pc : {"idle"}]
                                     \cup [pc : {"create"}, key : Keys, version : Version, content : Nat]]
    /\ starting \in [Starters -> [pc : {"idle"}]
            \cup [pc : {"start"}, key : Keys, n : Version, earlier : Nat]
            \cup [pc : {"create"}, key : Keys, n : Version, content : Nat, earlier : Nat]
            \cup [pc : {"navigate", "commit"}, key : Keys, n : Version, content : Nat, earlier : Nat, startedAt : Nat]]

\* However many deploy at the same time, no version of a key is given twice,
\* every version is stored under its own ID, and none is skipped: as long as
\* nothing is deleted the versions are 1, 2, 3 and so on.
VersionsCount ==
    \A d \in definitions :
        /\ d.version = d.n
        /\ \A e \in definitions : (e.key = d.key /\ e.version = d.version) => e = d
        /\ (setup.deletes = "none" /\ d.version # 1)
               => \E e \in definitions : e.key = d.key /\ e.version = d.version - 1

\* The definition an instance was started with is what its ID names from then
\* on: nothing is deployed under the feet of a running instance, and nothing is
\* deleted between a start's reads of a definition and its instance.
InstancesKeepDefinition ==
    \A i \in DOMAIN instances :
        \E d \in GetProcessDefinition(instances[i].key, instances[i].n) : d.content = instances[i].content

\* A start by key never falls back behind a version that some instance was
\* started with before the request began.
StartsNeverFallBack ==
    \A i, j \in DOMAIN instances :
        (j <= instances[i].earlier /\ instances[j].key = instances[i].key) => instances[j].n <= instances[i].n
=============================================================================
