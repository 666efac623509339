----------------------------- MODULE MemoryLocker -----------------------------
(***************************************************************************)
(* lock/memory.go: the in-process Locker, for one key.  Keys share only     *)
(* l.mu, which is held for the single map access that each step below makes.*)
(*                                                                          *)
(* Lock does not wait for the key's mutex itself: it starts a goroutine     *)
(* that does and that reports through a channel, so that Lock can give up   *)
(* when its context is cancelled.  A caller, the goroutine it has started,  *)
(* the one that cleans up after a cancellation and the one that unlocks     *)
(* after the TTL all run concurrently.                                      *)
(***************************************************************************)
CONSTANTS
    Calls,         \* callers; each makes one call at a time (bound)
    Cancellable,   \* whether contexts may be cancelled
    UsesTTL        \* whether LockWithTTL is used

ASSUME LockerAssumption == Cancellable \in BOOLEAN /\ UsesTTL \in BOOLEAN

VARIABLES
    mutex,     \* l.locks[key]: whether the sync.Mutex is locked
    holders,   \* l.holders[key]
    pc,        \* caller -> where it is
    ttl,       \* caller -> whether its lock expires
    waiter,    \* caller -> the goroutine its Lock started
    locked,    \* caller -> whether the channel of its Lock holds a message
    cleaner,   \* caller -> whether the clean-up goroutine is about to run
    timer      \* caller -> the goroutine its LockWithTTL started

vars == <<mutex, holders, pc, ttl, waiter, locked, cleaner, timer>>
goroutines == <<waiter, locked, cleaner, timer>>

Init ==
    /\ mutex = FALSE
    /\ holders = FALSE
    /\ pc = [c \in Calls |-> "idle"]
    /\ ttl = [c \in Calls |-> FALSE]
    /\ waiter = [c \in Calls |-> "none"]
    /\ locked = [c \in Calls |-> FALSE]
    /\ cleaner = [c \in Calls |-> FALSE]
    /\ timer = [c \in Calls |-> "none"]

Goto(c, from, to) ==
    /\ pc[c] = from
    /\ pc' = [pc EXCEPT ![c] = to]

\* A caller calls again only when the goroutines of its last call are gone.
Returned(c) == waiter[c] = "none" /\ ~cleaner[c] /\ timer[c] = "none"

-----------------------------------------------------------------------------
(* Lock and LockWithTTL *)

Lock(c) ==
    /\ Returned(c)
    /\ Goto(c, "idle", "locking")
    /\ \E expires \in BOOLEAN :
           /\ expires => UsesTTL
           /\ ttl' = [ttl EXCEPT ![c] = expires]
    /\ waiter' = [waiter EXCEPT ![c] = "blocked"]
    /\ locked' = [locked EXCEPT ![c] = FALSE]
    /\ UNCHANGED <<mutex, holders, cleaner, timer>>

\* Mutant: the goroutine does not wait.
WaiterLocks_Eager(c) ==
    /\ waiter[c] = "blocked"
    /\ mutex' = TRUE
    /\ waiter' = [waiter EXCEPT ![c] = "locked"]
    /\ UNCHANGED <<holders, pc, ttl, locked, cleaner, timer>>

\* mu.Lock() in the goroutine.
WaiterLocks(c) ==
    /\ waiter[c] = "blocked"
    /\ ~mutex
    /\ mutex' = TRUE
    /\ waiter' = [waiter EXCEPT ![c] = "locked"]
    /\ UNCHANGED <<holders, pc, ttl, locked, cleaner, timer>>

\* locked <- struct{}{}: the channel has room, so default is never taken.
WaiterSends(c) ==
    /\ waiter[c] = "locked"
    /\ waiter' = [waiter EXCEPT ![c] = "none"]
    /\ locked' = [locked EXCEPT ![c] = TRUE]
    /\ UNCHANGED <<mutex, holders, pc, ttl, cleaner, timer>>

LockReceives(c) ==
    /\ locked[c]
    /\ Goto(c, "locking", "received")
    /\ locked' = [locked EXCEPT ![c] = FALSE]
    /\ UNCHANGED <<mutex, holders, ttl, waiter, cleaner, timer>>

\* Mutant: LockWithTTL forgets to start its goroutine.
LockReturns_NoTimer(c) ==
    /\ Goto(c, "received", "held")
    /\ holders' = TRUE
    /\ UNCHANGED <<mutex, ttl, goroutines>>

LockReturns(c) ==
    /\ Goto(c, "received", "held")
    /\ holders' = TRUE
    /\ timer' = [timer EXCEPT ![c] = IF ttl[c] THEN "sleeping" ELSE "none"]
    /\ UNCHANGED <<mutex, ttl, waiter, locked, cleaner>>

LockCanceled(c) ==
    /\ Cancellable
    /\ Goto(c, "locking", "idle")
    /\ cleaner' = [cleaner EXCEPT ![c] = TRUE]
    /\ UNCHANGED <<mutex, holders, ttl, waiter, locked, timer>>

\* Mutant: unlocks without looking into the channel.
Cleanup_Always(c) ==
    /\ cleaner[c]
    /\ cleaner' = [cleaner EXCEPT ![c] = FALSE]
    /\ locked' = [locked EXCEPT ![c] = FALSE]
    /\ mutex' = FALSE
    /\ UNCHANGED <<holders, pc, ttl, waiter, timer>>

\* Looks into the channel once: the goroutine may not have got there yet.
Cleanup(c) ==
    /\ cleaner[c]
    /\ cleaner' = [cleaner EXCEPT ![c] = FALSE]
    /\ locked' = [locked EXCEPT ![c] = FALSE]
    /\ mutex' = IF locked[c] THEN FALSE ELSE mutex
    /\ UNCHANGED <<holders, pc, ttl, waiter, timer>>

-----------------------------------------------------------------------------
(* TryLock; a call that finds the mutex locked returns false at once. *)

TryLock(c) ==
    /\ Returned(c)
    /\ ~mutex
    /\ Goto(c, "idle", "trying")
    /\ mutex' = TRUE
    /\ ttl' = [ttl EXCEPT ![c] = FALSE]
    /\ UNCHANGED <<holders, goroutines>>

TryLockReturns(c) ==
    /\ Goto(c, "trying", IF holders THEN "idle" ELSE "held")
    /\ mutex' = ~holders
    /\ holders' = TRUE
    /\ UNCHANGED <<ttl, goroutines>>

-----------------------------------------------------------------------------
(* Unlock, by the caller and by the goroutine that waited for the TTL.  *)
(* Nothing checks whose lock it is.                                     *)

Unlock(c) ==
    /\ Goto(c, "held", IF holders THEN "unlocking" ELSE "idle")
    /\ holders' = FALSE
    /\ UNCHANGED <<mutex, ttl, goroutines>>

\* Mutant: mu.Unlock() is forgotten.
UnlockReturns_Locked(c) ==
    /\ Goto(c, "unlocking", "idle")
    /\ UNCHANGED <<mutex, holders, ttl, goroutines>>

UnlockReturns(c) ==
    /\ Goto(c, "unlocking", "idle")
    /\ mutex' = FALSE
    /\ UNCHANGED <<holders, ttl, goroutines>>

\* Mutant: does not ask whether the key is still locked.
Expire_Blind(c) ==
    /\ timer[c] = "sleeping"
    /\ timer' = [timer EXCEPT ![c] = "unlocking"]
    /\ holders' = FALSE
    /\ UNCHANGED <<mutex, pc, ttl, waiter, locked, cleaner>>

Expire(c) ==
    /\ timer[c] = "sleeping"
    /\ timer' = [timer EXCEPT ![c] = IF holders THEN "unlocking" ELSE "none"]
    /\ holders' = FALSE
    /\ UNCHANGED <<mutex, pc, ttl, waiter, locked, cleaner>>

ExpireReturns(c) ==
    /\ timer[c] = "unlocking"
    /\ timer' = [timer EXCEPT ![c] = "none"]
    /\ mutex' = FALSE
    /\ UNCHANGED <<holders, pc, ttl, waiter, locked, cleaner>>

-----------------------------------------------------------------------------
\* The steps of c's own goroutines that the runtime schedules sooner or later.
Runs(c) ==
    \/ WaiterSends(c)
    \/ LockReceives(c)
    \/ LockReturns(c)
    \/ Cleanup(c)
    \/ TryLockReturns(c)
    \/ UnlockReturns(c)
    \/ Expire(c)
    \/ ExpireReturns(c)

Next ==
    \E c \in Calls :
        \/ Lock(c)
        \/ WaiterLocks(c)
        \/ LockCanceled(c)
        \/ TryLock(c)
        \/ Unlock(c)
        \/ Runs(c)

Spec == Init /\ [][Next]_vars

\* Goroutines run; sync.Mutex hands itself to a goroutine that has waited for
\* long (its starvation mode); a caller without a TTL unlocks in the end.
FairSpec ==
    /\ Spec
    /\ \A c \in Calls :
           /\ WF_vars(Runs(c))
           /\ SF_vars(WaiterLocks(c))
           /\ WF_vars(~ttl[c] /\ Unlock(c))

-----------------------------------------------------------------------------
(* Properties *)

\* The state variables have their types.
TypeOK ==
    /\ mutex \in BOOLEAN
    /\ holders \in BOOLEAN
    /\ pc \in [Calls -> {"idle", "locking", "received", "trying", "held", "unlocking"}]
    /\ ttl \in [Calls -> BOOLEAN]
    /\ waiter \in [Calls -> {"none", "blocked", "locked"}]
    /\ locked \in [Calls -> BOOLEAN]
    /\ cleaner \in [Calls -> BOOLEAN]
    /\ timer \in [Calls -> {"none", "sleeping", "unlocking"}]

\* Two callers never hold the lock together, unless the time of one was limited.
MutualExclusion ==
    \A c, d \in Calls :
        (pc[c] = "held" /\ pc[d] = "held") => (c = d \/ ttl[c] \/ ttl[d])

\* mu.Unlock() never meets an unlocked mutex, which would end the whole process
\* ("fatal error: sync: unlock of unlocked mutex").
UnlockIsSafe ==
    \A c \in Calls :
        (\/ pc[c] = "unlocking"
         \/ timer[c] = "unlocking"
         \/ pc[c] = "trying"
         \/ cleaner[c] /\ locked[c]) => mutex

\* A locked mutex belongs to someone who is still going to unlock it: a caller,
\* a timer, or a goroutine whose result Lock or its clean-up will pick up.
LockIsOwned ==
    mutex => \E c \in Calls :
        \/ pc[c] \in {"received", "trying", "held", "unlocking"}
        \/ timer[c] = "unlocking"
        \/ (waiter[c] = "locked" \/ locked[c]) /\ (pc[c] = "locking" \/ cleaner[c])

\* Whoever calls Lock gets the lock, even if holders with a TTL never unlock.
LockAcquired == \A c \in Calls : (pc[c] = "locking") ~> (pc[c] = "held")

\* The call states of Locker that a caller's pc stands for: Lock takes effect
\* when it returns, Unlock when it starts.
callState ==
    [c \in Calls |-> CASE pc[c] \in {"locking", "received"} -> "waiting"
                       [] pc[c] = "held" -> "held"
                       [] OTHER -> "idle"]

L == INSTANCE Locker WITH call <- callState

\* MemoryLocker is a lock.Locker.
ImplementsLocker == L!Spec
=============================================================================
