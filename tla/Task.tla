--------------------------------- MODULE Task ---------------------------------
(***************************************************************************)
(* A user task as the people who share it see it: it is claimed by one of    *)
(* them, may be given back, and is completed once.                          *)
(***************************************************************************)
CONSTANTS Users, NoUser

VARIABLES state, assignee

Init == state = "unclaimed" /\ assignee = NoUser

Claim(u) ==
    /\ state = "unclaimed"
    /\ state' = "active"
    /\ assignee' = u

Unclaim ==
    /\ state = "active"
    /\ state' = "unclaimed"
    /\ assignee' = NoUser

Complete ==
    /\ state = "active"
    /\ state' = "completed"
    /\ UNCHANGED assignee

Next == Unclaim \/ Complete \/ \E u \in Users : Claim(u)

Spec == Init /\ [][Next]_<<state, assignee>>
=============================================================================
