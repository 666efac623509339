--------------------------- MODULE MCMultiInstance ---------------------------
(* Instances of MultiInstance for TLC. *)
EXTENDS MultiInstance

Setup(sequential, threshold, locking, ordered, other, entries) ==
    [isSequential |-> sequential, threshold |-> threshold, locking |-> locking,
     ordered |-> ordered, branch |-> other, entries |-> entries]

\* With a Locker and no completionCondition.  A loop that is entered again
\* needs a store that keeps the order of activities, and one that runs beside
\* another branch has to be sequential.
SafeSetups ==
    {Setup(s, 0, TRUE, TRUE, 0, 2) : s \in BOOLEAN}
    \cup {Setup(s, 0, TRUE, FALSE, 0, 1) : s \in BOOLEAN}
    \cup {Setup(TRUE, 0, TRUE, TRUE, 1, 2)}

\* nrOfCompletedInstances >= 2 with three instances.
EarlySetups == {Setup(FALSE, 2, TRUE, TRUE, 0, 1)}

\* Two completions of a parallel loop with no Locker.
UnlockedSetups == {Setup(FALSE, 0, FALSE, TRUE, 0, 1)}

\* A loop that is entered again on a store that keeps no order.
UnorderedSetups == {Setup(FALSE, 0, TRUE, FALSE, 0, 2)}

\* A parallel loop beside another branch.
BranchSetups == {Setup(FALSE, 0, TRUE, TRUE, 1, 1)}
=============================================================================
