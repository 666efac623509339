-------------------------- MODULE MemoryLockerProofs --------------------------
(***************************************************************************)
(* Theorems about MemoryLocker, for any number of callers.                  *)
(*                                                                          *)
(* The argument is that the mutex is a token.  Whoever has locked it passes *)
(* the claim to it from hand to hand: the waiting goroutine to the channel, *)
(* the channel to Lock or to the clean-up, Lock to the map l.holders, the   *)
(* map to the first Unlock that finds its entry there.  At any time at most *)
(* one such claim exists, and only while the mutex is locked.               *)
(***************************************************************************)
EXTENDS MemoryLocker, TLAPS

Kinds == {"waiter", "channel", "received", "trying", "unlocking", "expiring"}

\* The claims to the mutex on their way between Lock and Unlock.
Claim(k, c) ==
    \/ k = "waiter" /\ waiter[c] = "locked"
    \/ k = "channel" /\ locked[c]
    \/ k \in {"received", "trying", "unlocking"} /\ pc[c] = k
    \/ k = "expiring" /\ timer[c] = "unlocking"

OneClaim ==
    \A k, l \in Kinds, c, d \in Calls : Claim(k, c) /\ Claim(l, d) => k = l /\ c = d

ClaimsLock ==
    /\ \A k \in Kinds, c \in Calls : Claim(k, c) => mutex /\ ~holders
    /\ holders => mutex

LockInv == TypeOK /\ OneClaim /\ ClaimsLock

\* The inductive invariant of the lock.
LEMMA LockInvariant == Spec => []LockInv
<1>1. Init => LockInv
  BY DEF Init, LockInv, TypeOK, OneClaim, ClaimsLock, Claim, Kinds
<1>2. LockInv /\ [Next]_vars => LockInv'
  <2> SUFFICES ASSUME LockInv, [Next]_vars PROVE LockInv'
    OBVIOUS
  <2> USE DEF LockInv, TypeOK, OneClaim, ClaimsLock, Claim, Kinds
  <2>1. ASSUME NEW c \in Calls, Lock(c) PROVE LockInv'
    BY <2>1 DEF Lock, Goto, Returned
  <2>2. ASSUME NEW c \in Calls, WaiterLocks(c) PROVE LockInv'
    BY <2>2 DEF WaiterLocks
  <2>3. ASSUME NEW c \in Calls, WaiterSends(c) PROVE LockInv'
    BY <2>3 DEF WaiterSends
  <2>4. ASSUME NEW c \in Calls, LockReceives(c) PROVE LockInv'
    BY <2>4 DEF LockReceives, Goto
  <2>5. ASSUME NEW c \in Calls, LockReturns(c) PROVE LockInv'
    BY <2>5 DEF LockReturns, Goto
  <2>6. ASSUME NEW c \in Calls, LockCanceled(c) PROVE LockInv'
    BY <2>6 DEF LockCanceled, Goto
  <2>7. ASSUME NEW c \in Calls, Cleanup(c) PROVE LockInv'
    <3>1. TypeOK'
      BY <2>7 DEF Cleanup
    <3>2. locked[c] => Claim("channel", c)
      BY <2>7 DEF Cleanup
    <3>3. \A k \in Kinds, d \in Calls : Claim(k, d)' => Claim(k, d) /\ ~(k = "channel" /\ d = c)
      BY <2>7 DEF Cleanup
    <3>4. \A k \in Kinds, d \in Calls : locked[c] => ~Claim(k, d)'
      BY <3>2, <3>3
    <3>5. (locked[c] => ~holders) /\ holders' = holders /\ mutex' = (mutex /\ ~locked[c])
      BY <2>7, <3>2 DEF Cleanup
    <3> HIDE DEF Claim, Kinds
    <3> QED BY <3>1, <3>3, <3>4, <3>5
  <2>8. ASSUME NEW c \in Calls, TryLock(c) PROVE LockInv'
    BY <2>8 DEF TryLock, Goto, goroutines
  <2>9. ASSUME NEW c \in Calls, TryLockReturns(c) PROVE LockInv'
    BY <2>9 DEF TryLockReturns, Goto, goroutines
  <2>10. ASSUME NEW c \in Calls, Unlock(c) PROVE LockInv'
    <3>1. TypeOK'
      BY <2>10 DEF Unlock, Goto, goroutines
    <3>2. holders => \A k \in Kinds, d \in Calls : ~Claim(k, d)
      OBVIOUS
    <3>3. \A k \in Kinds, d \in Calls :
            Claim(k, d)' => Claim(k, d) \/ (holders /\ k = "unlocking" /\ d = c)
      BY <2>10 DEF Unlock, Goto, goroutines
    <3>4. mutex' = mutex /\ holders' = FALSE
      BY <2>10 DEF Unlock, Goto, goroutines
    <3> HIDE DEF Claim, Kinds
    <3> QED BY <3>1, <3>2, <3>3, <3>4
  <2>11. ASSUME NEW c \in Calls, UnlockReturns(c) PROVE LockInv'
    <3>1. TypeOK'
      BY <2>11 DEF UnlockReturns, Goto, goroutines
    <3>2. Claim("unlocking", c)
      BY <2>11 DEF UnlockReturns, Goto, goroutines
    <3>3. \A k \in Kinds, d \in Calls : Claim(k, d)' => Claim(k, d) /\ ~(k = "unlocking" /\ d = c)
      BY <2>11 DEF UnlockReturns, Goto, goroutines
    <3>4. \A k \in Kinds, d \in Calls : ~Claim(k, d)'
      BY <3>2, <3>3
    <3>5. (~holders) /\ holders' = holders /\ mutex' = FALSE
      BY <2>11, <3>2 DEF UnlockReturns, Goto, goroutines
    <3> HIDE DEF Claim, Kinds
    <3> QED BY <3>1, <3>3, <3>4, <3>5
  <2>12. ASSUME NEW c \in Calls, Expire(c) PROVE LockInv'
    <3>1. TypeOK'
      BY <2>12 DEF Expire
    <3>2. holders => \A k \in Kinds, d \in Calls : ~Claim(k, d)
      OBVIOUS
    <3>3. \A k \in Kinds, d \in Calls :
            Claim(k, d)' => Claim(k, d) \/ (holders /\ k = "expiring" /\ d = c)
      BY <2>12 DEF Expire
    <3>4. mutex' = mutex /\ holders' = FALSE
      BY <2>12 DEF Expire
    <3> HIDE DEF Claim, Kinds
    <3> QED BY <3>1, <3>2, <3>3, <3>4
  <2>13. ASSUME NEW c \in Calls, ExpireReturns(c) PROVE LockInv'
    <3>1. TypeOK'
      BY <2>13 DEF ExpireReturns
    <3>2. Claim("expiring", c)
      BY <2>13 DEF ExpireReturns
    <3>3. \A k \in Kinds, d \in Calls : Claim(k, d)' => Claim(k, d) /\ ~(k = "expiring" /\ d = c)
      BY <2>13 DEF ExpireReturns
    <3>4. \A k \in Kinds, d \in Calls : ~Claim(k, d)'
      BY <3>2, <3>3
    <3>5. (~holders) /\ holders' = holders /\ mutex' = FALSE
      BY <2>13, <3>2 DEF ExpireReturns
    <3> HIDE DEF Claim, Kinds
    <3> QED BY <3>1, <3>3, <3>4, <3>5
  <2>14. CASE UNCHANGED vars
    BY <2>14 DEF vars
  <2> QED BY <2>1, <2>2, <2>3, <2>4, <2>5, <2>6, <2>7, <2>8, <2>9, <2>10, <2>11, <2>12,
             <2>13, <2>14 DEF Next, Runs
<1> QED BY <1>1, <1>2, PTL DEF Spec

\* No interleaving of Lock, TryLock, Unlock, cancellations and expirations
\* makes Unlock hit an unlocked mutex.
THEOREM UnlocksAreSafe == Spec => []UnlockIsSafe
<1>1. LockInv => UnlockIsSafe
  BY DEF LockInv, ClaimsLock, Claim, Kinds, UnlockIsSafe
<1> QED BY <1>1, LockInvariant, PTL
-----------------------------------------------------------------------------
(***************************************************************************)
(* Without cancellation no claim is dropped: Lock waits for its goroutine,  *)
(* and the entry in l.holders stays until some Unlock takes it over.        *)
(***************************************************************************)
LockAwaitsGoroutine ==
    \A c \in Calls : /\ ~cleaner[c]
                     /\ waiter[c] # "none" \/ locked[c] => pc[c] = "locking"
                     /\ locked[c] => waiter[c] = "none"

LockIsClaimed ==
    /\ mutex => holders \/ \E k \in Kinds, c \in Calls : Claim(k, c)
    /\ holders => \E c \in Calls : pc[c] = "held"

OwnedInv == LockAwaitsGoroutine /\ LockIsClaimed

\* Every step that lets go of a claim unlocks the mutex or passes the claim on.
LEMMA OwnedStep ==
    ASSUME ~Cancellable, LockInv, OwnedInv, Next
    PROVE  OwnedInv'
<1> USE DEF LockInv, TypeOK, OwnedInv, LockAwaitsGoroutine, LockIsClaimed, Claim, Kinds
<1>1. PICK c \in Calls : \/ Lock(c) \/ WaiterLocks(c) \/ LockCanceled(c)
                         \/ TryLock(c) \/ Unlock(c) \/ Runs(c)
  BY DEF Next
<1>2. CASE Lock(c)
  BY <1>2 DEF Lock, Goto, Returned
<1>3. CASE WaiterLocks(c)
  BY <1>3 DEF WaiterLocks
<1>4. CASE WaiterSends(c)
  BY <1>4 DEF WaiterSends
<1>5. CASE LockReceives(c)
  BY <1>5 DEF LockReceives, Goto
<1>6. CASE LockReturns(c)
  BY <1>6 DEF LockReturns, Goto
<1>7. CASE LockCanceled(c)
  BY <1>7 DEF LockCanceled
<1>8. CASE Cleanup(c)
  BY <1>8 DEF Cleanup
<1>9. CASE TryLock(c)
  BY <1>9 DEF TryLock, Goto, goroutines
<1>10. CASE TryLockReturns(c)
  BY <1>10 DEF TryLockReturns, Goto, goroutines, ClaimsLock
<1>11. CASE Unlock(c)
  BY <1>11 DEF Unlock, Goto, goroutines
<1>12. CASE UnlockReturns(c)
  BY <1>12 DEF UnlockReturns, Goto, goroutines, ClaimsLock
<1>13. CASE Expire(c)
  BY <1>13 DEF Expire
<1>14. CASE ExpireReturns(c)
  BY <1>14 DEF ExpireReturns, ClaimsLock
<1> QED BY <1>1, <1>2, <1>3, <1>4, <1>5, <1>6, <1>7, <1>8, <1>9, <1>10, <1>11, <1>12, <1>13,
           <1>14 DEF Runs

\* Unless contexts are cancelled, a locked mutex always has an owner that is
\* going to unlock it, locks that expire included (memory.go Lock, LockWithTTL).
THEOREM LocksAreOwned == ASSUME ~Cancellable PROVE Spec => []LockIsOwned
<1>1. Init => OwnedInv
  BY DEF Init, OwnedInv, LockAwaitsGoroutine, LockIsClaimed
<1>2. LockInv /\ OwnedInv /\ [Next]_vars => OwnedInv'
  <2>1. LockInv /\ OwnedInv /\ Next => OwnedInv'
    BY OwnedStep
  <2>2. OwnedInv /\ UNCHANGED vars => OwnedInv'
    BY DEF OwnedInv, LockAwaitsGoroutine, LockIsClaimed, Claim, vars
  <2> QED BY <2>1, <2>2
<1>3. OwnedInv => LockIsOwned
  BY DEF OwnedInv, LockAwaitsGoroutine, LockIsClaimed, Claim, Kinds, LockIsOwned
<1> QED BY <1>1, <1>2, <1>3, LockInvariant, PTL DEF Spec
-----------------------------------------------------------------------------
(***************************************************************************)
(* Without expiration the entry in l.holders is the holder's own, so a      *)
(* holder keeps everybody else from getting as far as "held".               *)
(***************************************************************************)
NoExpiry == \A c \in Calls : ~ttl[c] /\ timer[c] = "none"

OneHolder ==
    /\ \A c \in Calls : pc[c] = "held" => holders
    /\ \A c, d \in Calls : pc[c] = "held" /\ pc[d] = "held" => c = d

HeldInv == NoExpiry /\ OneHolder

\* A caller that has found the mutex free may become the holder.
LEMMA HeldStep ==
    ASSUME ~UsesTTL, LockInv, HeldInv, Next
    PROVE  HeldInv'
<1> USE DEF LockInv, TypeOK, HeldInv, NoExpiry, OneHolder
<1>1. PICK c \in Calls : \/ Lock(c) \/ WaiterLocks(c) \/ LockCanceled(c)
                         \/ TryLock(c) \/ Unlock(c) \/ Runs(c)
  BY DEF Next
<1>2. CASE Lock(c)
  BY <1>2 DEF Lock, Goto
<1>3. CASE WaiterLocks(c) \/ WaiterSends(c) \/ Cleanup(c)
  <2>1. UNCHANGED <<pc, holders, ttl, timer>>
    BY <1>3 DEF WaiterLocks, WaiterSends, Cleanup
  <2> QED BY <2>1
<1>4. CASE LockCanceled(c)
  BY <1>4 DEF LockCanceled, Goto
<1>5. CASE LockReceives(c)
  BY <1>5 DEF LockReceives, Goto
<1>6. CASE LockReturns(c)
  <2>1. ~holders
    BY <1>6 DEF LockReturns, Goto, ClaimsLock, Claim, Kinds
  <2> QED BY <1>6, <2>1 DEF LockReturns, Goto
<1>7. CASE TryLock(c)
  BY <1>7 DEF TryLock, Goto, goroutines
<1>8. CASE TryLockReturns(c)
  <2>1. ~holders
    BY <1>8 DEF TryLockReturns, Goto, ClaimsLock, Claim, Kinds
  <2> QED BY <1>8, <2>1 DEF TryLockReturns, Goto, goroutines
<1>9. CASE Unlock(c)
  BY <1>9 DEF Unlock, Goto, goroutines
<1>10. CASE UnlockReturns(c)
  BY <1>10 DEF UnlockReturns, Goto, goroutines
<1>11. CASE Expire(c) \/ ExpireReturns(c)
  BY <1>11 DEF Expire, ExpireReturns
<1> QED BY <1>1, <1>2, <1>3, <1>4, <1>5, <1>6, <1>7, <1>8, <1>9, <1>10, <1>11 DEF Runs

\* The invariant of a lock that does not expire.
LEMMA HeldInvariant == ASSUME ~UsesTTL PROVE Spec => [](LockInv /\ HeldInv)
<1>1. Init => HeldInv
  BY DEF Init, HeldInv, NoExpiry, OneHolder
<1>2. LockInv /\ HeldInv /\ [Next]_vars => HeldInv'
  <2>1. LockInv /\ HeldInv /\ Next => HeldInv'
    BY HeldStep
  <2>2. HeldInv /\ UNCHANGED vars => HeldInv'
    BY DEF HeldInv, NoExpiry, OneHolder, vars
  <2> QED BY <2>1, <2>2
<1> QED BY <1>1, <1>2, LockInvariant, PTL DEF Spec

\* Two callers never hold a lock that does not expire, whatever is cancelled.
THEOREM MutuallyExclusive == ASSUME ~UsesTTL PROVE Spec => []MutualExclusion
<1>1. HeldInv => MutualExclusion
  BY DEF HeldInv, OneHolder, MutualExclusion
<1> QED BY <1>1, HeldInvariant, PTL

\* Every step of MemoryLocker is a step of the interface, or none.
LEMMA LockerStep ==
    ASSUME LockInv, HeldInv, Next
    PROVE  [L!Next]_callState
<1> USE DEF LockInv, TypeOK, callState
<1>1. PICK c \in Calls : \/ Lock(c) \/ WaiterLocks(c) \/ LockCanceled(c)
                         \/ TryLock(c) \/ Unlock(c) \/ Runs(c)
  BY DEF Next
<1>2. CASE Lock(c)
  <2>1. L!Lock(c)
    BY <1>2 DEF Lock, Goto, L!Lock, L!Becomes
  <2> QED BY <2>1 DEF L!Next
<1>3. CASE LockCanceled(c)
  <2>1. L!LockCanceled(c)
    BY <1>3 DEF LockCanceled, Goto, L!LockCanceled, L!Becomes
  <2> QED BY <2>1 DEF L!Next
<1>4. CASE LockReturns(c)
  <2>1. ~holders
    BY <1>4 DEF LockReturns, Goto, ClaimsLock, Claim, Kinds
  <2>2. L!LockAcquires(c)
    BY <1>4, <2>1 DEF LockReturns, Goto, L!LockAcquires, L!Becomes, L!Free, HeldInv, OneHolder
  <2> QED BY <2>2 DEF L!Next
<1>5. CASE TryLockReturns(c)
  <2>1. ~holders
    BY <1>5 DEF TryLockReturns, Goto, ClaimsLock, Claim, Kinds
  <2>2. L!TryLock(c)
    BY <1>5, <2>1 DEF TryLockReturns, Goto, L!TryLock, L!Becomes, L!Free, HeldInv, OneHolder
  <2> QED BY <2>2 DEF L!Next
<1>6. CASE Unlock(c)
  <2>1. L!Unlock(c)
    BY <1>6 DEF Unlock, Goto, L!Unlock, L!Becomes
  <2> QED BY <2>1 DEF L!Next
<1>7. CASE \/ WaiterLocks(c) \/ WaiterSends(c) \/ Cleanup(c) \/ Expire(c) \/ ExpireReturns(c)
  BY <1>7 DEF WaiterLocks, WaiterSends, Cleanup, Expire, ExpireReturns
<1>8. CASE LockReceives(c) \/ TryLock(c) \/ UnlockReturns(c)
  BY <1>8 DEF LockReceives, TryLock, UnlockReturns, Goto
<1> QED BY <1>1, <1>2, <1>3, <1>4, <1>5, <1>6, <1>7, <1>8 DEF Runs

\* MemoryLocker keeps the promise of the Locker interface as long as no lock
\* expires, cancellations included.
THEOREM MemoryLockerImplementsLocker == ASSUME ~UsesTTL PROVE Spec => ImplementsLocker
<1>1. Init => L!Init
  BY DEF Init, L!Init, callState
<1>2. LockInv /\ HeldInv /\ [Next]_vars => [L!Next]_callState
  <2>1. LockInv /\ HeldInv /\ Next => [L!Next]_callState
    BY LockerStep
  <2>2. UNCHANGED vars => UNCHANGED callState
    BY DEF vars, callState
  <2> QED BY <2>1, <2>2
<1> QED BY <1>1, <1>2, HeldInvariant, PTL DEF Spec, L!Spec, ImplementsLocker
=============================================================================
