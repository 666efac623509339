------------------------------ MODULE Countdown ------------------------------
(***************************************************************************)
(* What a multi-instance task promises: it is entered with some number of   *)
(* instances, every completion counts once, and with the last one, and not  *)
(* before, the process goes on, once.                                       *)
(***************************************************************************)
EXTENDS Naturals

CONSTANT Counts        \* the numbers of instances

VARIABLES
    left,              \* instances that have not been counted as completed
    passes             \* how often the process went on from the task

vars == <<left, passes>>

Init == left = 0 /\ passes = 0

Enter(n) ==
    /\ left = 0
    /\ left' = n
    /\ passes' = IF n = 0 THEN passes + 1 ELSE passes

Count ==
    /\ left > 0
    /\ left' = left - 1
    /\ passes' = IF left = 1 THEN passes + 1 ELSE passes

Next == (\E n \in Counts : Enter(n)) \/ Count

Spec == Init /\ [][Next]_vars
=============================================================================
