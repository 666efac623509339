-------------------------------- MODULE Locker --------------------------------
(***************************************************************************)
(* What lock.Locker promises about one key: a lock that at most one caller  *)
(* holds, that can be waited for, given up and tried.  Keys are independent *)
(* of each other, and nothing is said of expiration here.                   *)
(***************************************************************************)
CONSTANT Calls      \* the callers of the lock

VARIABLE call       \* caller -> "idle", "waiting" in Lock, or "held"

Init == call = [c \in Calls |-> "idle"]

Becomes(c, from, to) ==
    /\ call[c] = from
    /\ call' = [call EXCEPT ![c] = to]

Free == \A c \in Calls : call[c] # "held"

Lock(c) == Becomes(c, "idle", "waiting")

\* Lock blocks until the lock is available or the context is cancelled.
LockAcquires(c) == Free /\ Becomes(c, "waiting", "held")
LockCanceled(c) == Becomes(c, "waiting", "idle")

TryLock(c) == Free /\ Becomes(c, "idle", "held")

Unlock(c) == Becomes(c, "held", "idle")

Next ==
    \E c \in Calls :
        Lock(c) \/ LockAcquires(c) \/ LockCanceled(c) \/ TryLock(c) \/ Unlock(c)

Spec == Init /\ [][Next]_call
=============================================================================
