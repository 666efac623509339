----------------------------- MODULE MCListing -----------------------------
(* Instances of Deployment and Listing for TLC. *)
EXTENDS Listing, TLC

\* Keys, deployers and starters are alike.
Alike == Permutations(Keys) \cup Permutations(Deployers) \cup Permutations(Starters)

Setup(inMemory, deletes, again) == [memory |-> inMemory, deletes |-> deletes, again |-> again]

\* Nothing is deleted.
SQLSetups == {Setup(FALSE, "none", FALSE)}
MemorySetups == {Setup(TRUE, "none", FALSE)}

\* The setups in which lists are walked.
GrowingSetups == SQLSetups \cup MemorySetups

\* Only definitions that are not used are deleted, while no start of them is
\* under way, and a struct is deployed again only to a store that has copied it.
SafeSetups ==
    GrowingSetups \cup
    {Setup(FALSE, "none", TRUE), Setup(FALSE, "idle", FALSE), Setup(TRUE, "idle", FALSE)}

UnusedSetups == {Setup(FALSE, "unused", FALSE), Setup(TRUE, "unused", FALSE)}
DeleteSetups == {Setup(FALSE, "any", FALSE)}
AgainSetups == {Setup(TRUE, "none", TRUE)}
=============================================================================
