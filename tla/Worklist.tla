------------------------------ MODULE Worklist ------------------------------
(***************************************************************************)
(* The tasks of one user, as ListMyPendingActivities lists them: those that  *)
(* are assigned to the user, read page by page, and after them the unclaimed *)
(* ones the user is a candidate for, read in one go.  A client walks the      *)
(* pages while nothing changes.                                              *)
(***************************************************************************)
EXTENDS Paging

CONSTANTS
    MaxAssigned, MaxCandidate, MaxOthers,  \* bounds on the tasks there are
    PageSizes,
    Memory         \* whether the store is the one in memory

VARIABLES
    activities,    \* the open tasks in the order of the list: assigned to the user,
                   \* "candidate" or of somebody else
    size, page, got, done  \* the walk: page size, page, tasks got, whether it ended

vars == <<activities, size, page, got, done>>

Tasks(n, kind) == [k \in 1..n |-> [kind |-> kind, k |-> k]]

Init ==
    /\ \E a \in 0..MaxAssigned, c \in 0..MaxCandidate, o \in 0..MaxOthers :
          activities = Tasks(a, "assigned") \o Tasks(c, "candidate") \o Tasks(o, "other")
    /\ size \in PageSizes
    /\ page = 1
    /\ got = <<>>
    /\ done = FALSE

QueryActivities(kinds) == SelectSeq(activities, LAMBDA a : a.kind \in kinds)

\* The candidates of a task are written as []string and read as []any, which
\* only the way through JSON makes of them.
getActivityCandidates(a) == ~Memory /\ a.kind = "candidate"

\* The unclaimed tasks are appended to the page of assigned ones, and the
\* offset is applied to the result once more if it is too long.
ListMyPendingActivities ==
    LET assigned   == QueryActivities({"assigned"})
        candidates == SelectSeq(QueryActivities({"candidate", "other"}), getActivityCandidates)
        results    == Page(assigned, page, size) \o candidates
        offset     == Offset(page, size)
    IN  [items |-> IF Len(results) > Limit(size) /\ offset < Len(results)
                   THEN Page(results, page, size) ELSE results,
         total |-> Len(assigned) + Len(candidates)]

Next ==
    LET answer == ListMyPendingActivities
    IN  /\ ~done
        /\ got' = got \o answer.items
        /\ done' = (page >= TotalPages(answer.total, Limit(size)))
        /\ page' = IF done' THEN page ELSE page + 1
        /\ UNCHANGED <<activities, size>>

Spec == Init /\ [][Next]_vars

-----------------------------------------------------------------------------
\* A walk through the pages returns every task the user may do, once.
WorklistIsExact ==
    done => /\ ToSet(got) = ToSet(QueryActivities({"assigned", "candidate"}))
            /\ IsInjective(got)
=============================================================================
