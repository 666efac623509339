------------------------- MODULE TaskConcurrencyProofs -------------------------
(***************************************************************************)
(* Theorems about TaskConcurrency, for any number of requests.              *)
(***************************************************************************)
EXTENDS TaskConcurrency, TLAPS

States == {"unclaimed", "active", "completed"}

TypeInv ==
    /\ row \in [state : States, assignee : Requests \cup {NoRequest}, version : Nat]
    /\ pc \in [Requests -> {"idle", "read", "locked", "updated", "done", "failed"}]
    /\ seen \in [Requests -> Nat]
    /\ lock \in Requests \cup {NoRequest}
    /\ navigations \in Nat

-----------------------------------------------------------------------------
(***************************************************************************)
(* The SQL stores.  The lock version grows with every update, so a request  *)
(* that still sees the current version also still sees the state in which   *)
(* it has found the task; and a completed task cannot be what it expects.   *)
(***************************************************************************)
VersionInv ==
    /\ \A r \in Requests : seen[r] <= row.version
    /\ \A r \in Requests :
           (pc[r] \in {"read", "locked", "updated"} /\ seen[r] = row.version) =>
               row.state = Expected(r)
    /\ \A r \in Requests :
           pc[r] = "updated" => r \in Completions /\ seen[r] = row.version
    /\ \A r, s \in Requests : (pc[r] = "updated" /\ pc[s] = "updated") => r = s
    /\ navigations = IF row.state = "completed" THEN 1 ELSE 0

\* What an update makes of the row: its next version, and completed by a
\* completion only.
LEMMA UpdatedRow ==
    ASSUME TypeInv, NEW r \in Requests
    PROVE  /\ Updated(r) \in [state : States, assignee : Requests \cup {NoRequest}, version : Nat]
           /\ Updated(r).version = row.version + 1
           /\ Updated(r).state = "completed" <=> r \in Completions
<1> USE DEF TypeInv, States
<1> DEFINE state == IF r \in Claims THEN "active"
                    ELSE IF r \in Unclaims THEN "unclaimed" ELSE "completed"
           assignee == IF r \in Claims THEN r
                       ELSE IF r \in Unclaims THEN NoRequest ELSE row.assignee
           version == row.version + 1
<1>1. Updated(r) = [row EXCEPT !.state = state, !.assignee = assignee, !.version = version]
  BY Zenon DEF Updated
<1>2. state \in States /\ assignee \in Requests \cup {NoRequest} /\ version \in Nat
  OBVIOUS
<1>3. state = "completed" <=> r \in Completions
  <2>1. CASE r \in Completions
    BY <2>1, TaskAssumption
  <2>2. CASE r \notin Completions
    BY <2>2 DEF Requests
  <2> QED BY <2>1, <2>2
<1> HIDE DEF state, assignee, version
<1>4. /\ Updated(r) \in [state : States, assignee : Requests \cup {NoRequest}, version : Nat]
      /\ Updated(r).version = version
      /\ Updated(r).state = state
  BY <1>1, <1>2
<1> QED BY <1>3, <1>4 DEF version

\* One step keeps the invariant.
LEMMA VersionStep ==
    ASSUME ~Shared, TypeInv, VersionInv, [Next]_vars
    PROVE  TypeInv' /\ VersionInv'
<1> USE DEF TypeInv, VersionInv, States
<1>1. ASSUME NEW r \in Requests, GetActivityInstance(r)
      PROVE  TypeInv' /\ VersionInv'
  BY <1>1 DEF GetActivityInstance, Goto
<1>2. ASSUME NEW r \in Requests, AcquireLock(r)
      PROVE  TypeInv' /\ VersionInv'
  BY <1>2 DEF AcquireLock, Goto
<1>3. ASSUME NEW r \in Requests, UpdateActivityInstance(r)
      PROVE  TypeInv' /\ VersionInv'
  <2>1. /\ seen[r] = row.version
        /\ pc[r] \in {"read", "locked"}
        /\ row.state = Expected(r)
        /\ \A s \in Requests : pc[s] # "updated"
    <3>1. Current(r) /\ pc[r] = Updating(r) /\ ~RowLocked
      BY <1>3 DEF UpdateActivityInstance, Goto
    <3> QED BY <3>1 DEF Current, Updating, RowLocked
  <2>2. UNCHANGED <<seen, lock, navigations>>
    BY <1>3 DEF UpdateActivityInstance
  <2>3. CASE r \in Completions
    <3>1. pc' = [pc EXCEPT ![r] = "updated"] /\ row' = row
      BY <1>3, <2>3 DEF UpdateActivityInstance, Goto
    <3> QED BY <2>1, <2>2, <2>3, <3>1 DEF Expected
  <2>4. CASE r \notin Completions
    <3>1. pc' = [pc EXCEPT ![r] = "done"] /\ row' = Updated(r)
      BY <1>3, <2>4 DEF UpdateActivityInstance, Goto
    <3>2. /\ row' \in [state : States, assignee : Requests \cup {NoRequest}, version : Nat]
          /\ row'.version = row.version + 1
          /\ row'.state # "completed"
      BY <3>1, <2>4, UpdatedRow DEF Requests
    <3>3. row.state # "completed"
      BY <2>1 DEF Expected
    <3> QED BY <2>1, <2>2, <3>1, <3>2, <3>3
  <2> QED BY <2>3, <2>4
<1>4. ASSUME NEW r \in Requests, UpdateConflicts(r)
      PROVE  TypeInv' /\ VersionInv'
  BY <1>4 DEF UpdateConflicts, Goto, Released
<1>5. ASSUME NEW r \in Requests, NavigateFrom(r)
      PROVE  TypeInv' /\ VersionInv'
  <2>1. /\ pc[r] = "updated" /\ r \in Completions
        /\ row.state = "active" /\ navigations = 0
        /\ \A s \in Requests \ {r} : pc[s] # "updated"
    BY <1>5, TaskAssumption DEF NavigateFrom, Goto, Expected
  <2>2. /\ pc' = [pc EXCEPT ![r] = "done"] /\ row' = Updated(r)
        /\ seen' = seen /\ navigations' = navigations + 1
        /\ lock' \in Requests \cup {NoRequest}
    BY <1>5 DEF NavigateFrom, Goto, Released
  <2>3. /\ row' \in [state : States, assignee : Requests \cup {NoRequest}, version : Nat]
        /\ row'.version = row.version + 1
        /\ row'.state = "completed"
    BY <2>1, <2>2, UpdatedRow
  <2> QED BY <2>1, <2>2, <2>3
<1>6. ASSUME NEW r \in Requests, NavigationFails(r) \/ Retry(r)
      PROVE  TypeInv' /\ VersionInv'
  BY <1>6 DEF NavigationFails, Retry, Goto, Released
<1>7. CASE UNCHANGED vars
  BY <1>7 DEF vars, Expected
<1> QED BY <1>1, <1>2, <1>3, <1>4, <1>5, <1>6, <1>7 DEF Next

\* The invariant of a task in a SQL store.
LEMMA VersionInvariant == ASSUME ~Shared PROVE Spec => [](TypeInv /\ VersionInv)
<1>1. Init => TypeInv /\ VersionInv
  BY DEF Init, TypeInv, VersionInv, States
<1>2. TypeInv /\ VersionInv /\ [Next]_vars => (TypeInv /\ VersionInv)'
  BY VersionStep
<1> QED BY <1>1, <1>2, PTL DEF Spec

\* On a SQL store a task is completed once, with or without a Locker.
THEOREM CompletedOnlyOnce == ASSUME ~Shared PROVE Spec => []CompletedOnce
<1>1. TypeInv /\ VersionInv => CompletedOnce
  BY DEF TypeInv, VersionInv, CompletedOnce
<1> QED BY <1>1, VersionInvariant, PTL

\* On a SQL store concurrent requests take effect as if they came one by one.
THEOREM TaskImplemented == ASSUME ~Shared PROVE Spec => ImplementsTask
<1>1. Init => T!Init
  BY DEF Init, T!Init
<1>2. TypeInv /\ VersionInv /\ [Next]_vars => [T!Next]_<<row.state, row.assignee>>
  <2> SUFFICES ASSUME TypeInv, VersionInv, [Next]_vars
               PROVE  [T!Next]_<<row.state, row.assignee>>
    OBVIOUS
  <2>1. CASE row' = row
    BY <2>1
  <2>2. ASSUME NEW r \in Requests, UpdateActivityInstance(r) \/ NavigateFrom(r), row' # row
        PROVE  T!Next
    <3>1. row.state = Expected(r) /\ row' = Updated(r)
      BY <2>2 DEF UpdateActivityInstance, NavigateFrom, Current, Goto, Updating, VersionInv
    <3>2. r \in Claims => T!Claim(r)
      BY <3>1 DEF Expected, Updated, T!Claim, TypeInv
    <3>3. r \in Unclaims => T!Unclaim
      BY <3>1, TaskAssumption DEF Expected, Updated, T!Unclaim, TypeInv
    <3>4. r \in Completions => T!Complete
      BY <3>1, TaskAssumption DEF Expected, Updated, T!Complete, TypeInv
    <3> QED BY <3>2, <3>3, <3>4 DEF T!Next, Requests
  <2>3. row' = row \/ \E r \in Requests : UpdateActivityInstance(r) \/ NavigateFrom(r)
    BY DEF Next, vars, GetActivityInstance, AcquireLock, UpdateConflicts, NavigationFails, Retry
  <2> QED BY <2>1, <2>2, <2>3
<1> QED BY <1>1, <1>2, VersionInvariant, PTL DEF Spec, T!Spec, ImplementsTask
-----------------------------------------------------------------------------
(* The instance's lock, on any store. *)

OwnerInv ==
    /\ pc \in [Requests -> {"idle", "read", "locked", "updated", "done", "failed"}]
    /\ \A r \in Requests : pc[r] \in {"locked", "updated"} => (Locking => lock = r)

\* One step keeps the lock with the completion that is past its acquisition.
LEMMA OwnerStep ==
    ASSUME OwnerInv, [Next]_vars
    PROVE  OwnerInv'
<1> USE DEF OwnerInv
<1>1. ASSUME NEW r \in Requests, GetActivityInstance(r) PROVE OwnerInv'
  BY <1>1 DEF GetActivityInstance, Goto
<1>2. ASSUME NEW r \in Requests, AcquireLock(r) PROVE OwnerInv'
  BY <1>2, TaskAssumption DEF AcquireLock, Goto
<1>3. ASSUME NEW r \in Requests, UpdateActivityInstance(r) PROVE OwnerInv'
  <2>1. pc[r] = Updating(r) /\ lock' = lock
    BY <1>3 DEF UpdateActivityInstance, Goto
  <2>2. \/ pc' = [pc EXCEPT ![r] = "done"]
        \/ pc' = [pc EXCEPT ![r] = "updated"] /\ r \in Completions
    BY <1>3 DEF UpdateActivityInstance, Goto
  <2> QED BY <2>1, <2>2 DEF Updating
<1>4. ASSUME NEW r \in Requests, UpdateConflicts(r) PROVE OwnerInv'
  BY <1>4 DEF UpdateConflicts, Goto, Released
<1>5. ASSUME NEW r \in Requests, NavigateFrom(r) PROVE OwnerInv'
  BY <1>5 DEF NavigateFrom, Goto, Released
<1>6. ASSUME NEW r \in Requests, NavigationFails(r) \/ Retry(r) PROVE OwnerInv'
  BY <1>6 DEF NavigationFails, Retry, Goto, Released
<1>7. CASE UNCHANGED vars
  BY <1>7 DEF vars
<1> QED BY <1>1, <1>2, <1>3, <1>4, <1>5, <1>6, <1>7 DEF Next

\* With a Locker, completions of an instance's tasks are at work one at a time.
THEOREM LockSerializesNavigation == Spec => []LockSerializes
<1>1. Init => OwnerInv
  BY DEF Init, OwnerInv
<1>2. OwnerInv => LockSerializes
  BY DEF OwnerInv, LockSerializes, Requests
<1> QED BY <1>1, <1>2, OwnerStep, PTL DEF Spec
=============================================================================
