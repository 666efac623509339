---------------------------- MODULE TaskConcurrency ----------------------------
(***************************************************************************)
(* Concurrent ClaimTask, UnclaimTask and CompleteTask requests on one user  *)
(* task with candidates.                                                    *)
(*                                                                          *)
(* Every request reads the activity instance and checks its state first and *)
(* updates it later; CompleteTask takes the instance's lock only in between. *)
(* What protects the task is the lock version that UpdateActivityInstance   *)
(* compares.  The SQL stores hand out copies of the row; memstore hands out *)
(* its own object, so that every version compared is the current one.       *)
(***************************************************************************)
EXTENDS Naturals

CONSTANTS
    Claims, Unclaims, Completions,   \* the requests, by kind (bound)
    Shared,        \* TRUE for memstore, FALSE for the SQL stores
    Locking,       \* whether the engine has a Locker
    NoRequest

Requests == Claims \cup Unclaims \cup Completions

ASSUME TaskAssumption ==
    /\ Shared \in BOOLEAN /\ Locking \in BOOLEAN
    /\ NoRequest \notin Requests
    /\ Claims \cap Unclaims = {}
    /\ Completions \cap (Claims \cup Unclaims) = {}

VARIABLES
    row,           \* the stored activity instance
    pc,            \* request -> how far it is
    seen,          \* request -> the lock version it has read
    lock,          \* the request that holds the instance's lock
    navigations    \* how often the token has moved on from the task

vars == <<row, pc, seen, lock, navigations>>

Init ==
    /\ row = [state |-> "unclaimed", assignee |-> NoRequest, version |-> 0]
    /\ pc = [r \in Requests |-> "idle"]
    /\ seen = [r \in Requests |-> 0]
    /\ lock = NoRequest
    /\ navigations = 0

Goto(r, from, to) ==
    /\ pc[r] = from
    /\ pc' = [pc EXCEPT ![r] = to]

\* The state in which a request finds the task it is made for.
Expected(r) == IF r \in Claims THEN "unclaimed" ELSE "active"

-----------------------------------------------------------------------------
GetActivityInstance(r) ==
    /\ row.state = Expected(r)
    /\ Goto(r, "idle", "read")
    /\ seen' = [seen EXCEPT ![r] = row.version]
    /\ UNCHANGED <<row, lock, navigations>>

\* Mutant: the lock is not waited for.
AcquireLock_Busy(r) ==
    /\ r \in Completions
    /\ Locking
    /\ Goto(r, "read", "locked")
    /\ lock' = r
    /\ UNCHANGED <<row, seen, navigations>>

AcquireLock(r) ==
    /\ r \in Completions
    /\ Locking
    /\ lock = NoRequest
    /\ Goto(r, "read", "locked")
    /\ lock' = r
    /\ UNCHANGED <<row, seen, navigations>>

\* From where UpdateActivityInstance is called.
Updating(r) == IF r \in Completions /\ Locking THEN "locked" ELSE "read"

Released(r) == IF lock = r THEN NoRequest ELSE lock

\* Mutant: no version is compared.
Current_Any(r) == TRUE

Current(r) == Shared \/ seen[r] = row.version

\* Mutant: the version stays the same.
Updated_SameVersion(r) ==
    [row EXCEPT !.state = IF r \in Claims THEN "active"
                          ELSE IF r \in Unclaims THEN "unclaimed" ELSE "completed",
                !.assignee = IF r \in Claims THEN r
                             ELSE IF r \in Unclaims THEN NoRequest ELSE @]

\* What the request makes of the row.
Updated(r) ==
    [row EXCEPT !.state = IF r \in Claims THEN "active"
                          ELSE IF r \in Unclaims THEN "unclaimed" ELSE "completed",
                !.assignee = IF r \in Claims THEN r
                             ELSE IF r \in Unclaims THEN NoRequest ELSE @,
                !.version = @ + 1]

\* A SQL transaction that has updated the row keeps it locked until it ends.
RowLocked == ~Shared /\ \E r \in Requests : pc[r] = "updated"

\* Claims and unclaims are single statements.  A completion stays in its
\* transaction: in a SQL store nobody sees its update before the commit.
UpdateActivityInstance(r) ==
    LET completes == r \in Completions
    IN  /\ ~RowLocked
        /\ Current(r)
        /\ Goto(r, Updating(r), IF completes THEN "updated" ELSE "done")
        /\ row' = IF completes /\ ~Shared THEN row ELSE Updated(r)
        /\ UNCHANGED <<seen, lock, navigations>>

\* No row has the version: the update fails, and with it the request.
UpdateConflicts(r) ==
    /\ ~RowLocked
    /\ ~Current(r)
    /\ Goto(r, Updating(r), "failed")
    /\ lock' = Released(r)
    /\ UNCHANGED <<row, seen, navigations>>

\* CompleteTask navigates on, its transaction is committed, the lock released.
NavigateFrom(r) ==
    /\ Goto(r, "updated", "done")
    /\ lock' = Released(r)
    /\ row' = IF Shared THEN row ELSE Updated(r)
    /\ navigations' = navigations + 1
    /\ UNCHANGED seen

\* Or navigation fails: a SQL store rolls back, memstore has nothing to undo.
NavigationFails(r) ==
    /\ Goto(r, "updated", "failed")
    /\ lock' = Released(r)
    /\ UNCHANGED <<row, seen, navigations>>

\* The caller retries "after re-reading the entity".
Retry(r) ==
    /\ Goto(r, "failed", "idle")
    /\ UNCHANGED <<row, seen, lock, navigations>>

Next ==
    \E r \in Requests :
        \/ GetActivityInstance(r)
        \/ AcquireLock(r)
        \/ UpdateActivityInstance(r)
        \/ UpdateConflicts(r)
        \/ NavigateFrom(r)
        \/ NavigationFails(r)
        \/ Retry(r)

Spec == Init /\ [][Next]_vars

-----------------------------------------------------------------------------
(* Properties *)

\* However many requests complete a task at the same time, the token moves on
\* from it once.
CompletedOnce == navigations <= 1

\* With a Locker, no two completions are at work on an instance at the same
\* time, even where no transaction keeps them apart: one that fails or finds
\* the task completed gives the lock back (the deferred Unlock of runWithLock).
LockSerializes ==
    Locking => \A r, s \in Completions :
        (pc[r] \in {"locked", "updated"} /\ pc[s] \in {"locked", "updated"}) => r = s

T == INSTANCE Task WITH Users <- Claims, NoUser <- NoRequest,
                        state <- row.state, assignee <- row.assignee

\* Requests take effect one after the other: who claims a task gets it, it is
\* given back only while it is open, and nothing happens to a completed one.
ImplementsTask == T!Spec
=============================================================================
