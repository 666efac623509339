------------------------------ MODULE Listing ------------------------------
(***************************************************************************)
(* A client that walks the pages of a list while definitions are deployed   *)
(* and instances started.  The SQL stores count the rows with one statement  *)
(* and read the page with another; the in-memory store does both under its   *)
(* lock, but in the order in which Go walks a map, which is arbitrary.       *)
(*                                                                          *)
(* The client filters by key.  Lists of all keys, in which versions are equal *)
(* and new rows come in the middle, are not modelled, nor are instances that *)
(* start at the very same time.                                              *)
(***************************************************************************)
EXTENDS Deployment, Paging, FiniteSets

CONSTANTS
    PageSizes,     \* the page sizes clients ask for
    Listed         \* the setups in which clients walk lists (bound)

ASSUME PageSizesAssumption == PageSizes \subseteq Int

VARIABLE
    walk           \* the walk: pc, list, key, size, page, the total counted, the
                   \* rows got so far, the rows there were at first, and whether
                   \* the last total was out of date

vars == <<deploymentVars, walk>>

-----------------------------------------------------------------------------
(* The rows that match, in the orders in which the store may return them *)

\* ORDER BY version DESC
QueryDefinitions(key) ==
    {rows \in SetToSeqs({d \in definitions : d.key = key}) :
        setup.memory \/ \A i, j \in DOMAIN rows : i < j => rows[i].version >= rows[j].version}

\* The instances of a key.  A definition that is gone has no key.
InstancesOf(key) ==
    {i \in DOMAIN instances : instances[i].key = key /\ GetProcessDefinition(key, instances[i].n) # {}}

\* ORDER BY started_at DESC
QueryProcessInstances(key) ==
    {rows \in SetToSeqs(InstancesOf(key)) :
        setup.memory \/ \A i, j \in DOMAIN rows :
            i < j => instances[rows[i]].startedAt > instances[rows[j]].startedAt}

Rows(list, key) ==
    IF list = "definitions" THEN QueryDefinitions(key) ELSE QueryProcessInstances(key)

CurrentRows == Rows(walk.list, walk.key)

-----------------------------------------------------------------------------
ListInit ==
    /\ Init
    /\ walk = [pc |-> "none"]

\* A client asks for the first page.
List(list, key, size) ==
    /\ setup \in Listed
    /\ walk.pc = "none"
    /\ \E rows \in Rows(list, key) :
          walk' = [pc |-> "count", list |-> list, key |-> key, size |-> size, page |-> 1,
                   total |-> 0, got |-> <<>>, first |-> ToSet(rows), late |-> FALSE]
    /\ UNCHANGED deploymentVars

\* SELECT COUNT(*)
Count ==
    /\ walk.pc = "count" /\ ~setup.memory
    /\ \E rows \in CurrentRows :
          walk' = [walk EXCEPT !.pc = "select", !.total = Len(rows)]
    /\ UNCHANGED deploymentVars

\* The page is read, and the client goes on to the next if there is one.
Turn(rows, total) ==
    LET last == walk.page >= TotalPages(total, Limit(walk.size))
    IN  walk' = [walk EXCEPT !.pc = IF last THEN "done" ELSE "count",
                             !.page = IF last THEN @ ELSE @ + 1,
                             !.total = total,
                             !.late = total # Len(rows),
                             !.got = @ \o (IF total = 0 THEN <<>> ELSE Page(rows, walk.page, walk.size))]

\* SELECT ... LIMIT ... OFFSET
Select ==
    /\ walk.pc = "select"
    /\ \E rows \in CurrentRows : Turn(rows, walk.total)
    /\ UNCHANGED deploymentVars

\* Both at once, under the lock of the in-memory store.
Query ==
    /\ walk.pc = "count" /\ setup.memory
    /\ \E rows \in CurrentRows : Turn(rows, Len(rows))
    /\ UNCHANGED deploymentVars

Walking ==
    \/ \E list \in {"definitions", "instances"}, key \in Keys, size \in PageSizes : List(list, key, size)
    \/ Count
    \/ Select
    \/ Query

ListNext == (Next /\ UNCHANGED walk) \/ Walking

ListSpec == ListInit /\ [][ListNext]_vars

-----------------------------------------------------------------------------
(* Properties *)

\* Lists have an order and rows do not go away.
Stable == ~setup.memory /\ setup.deletes = "none"

\* On an SQL store from which nothing is deleted, the walk returns the newest of
\* the versions there were at first and leaves no gap among them, though versions
\* are inserted at the front between two pages.
WalkHasNoGaps ==
    (Stable /\ walk.pc # "none" /\ walk.list = "definitions") =>
        \A d \in walk.first : (\E g \in ToSet(walk.got) : g.version <= d.version) => d \in ToSet(walk.got)

\* On such a store a walk that has come to its end has returned every row there
\* was at first, unless rows were inserted between the count and the last page.
WalkMissesNothing ==
    (Stable /\ walk.pc = "done" /\ ~walk.late) => walk.first \subseteq ToSet(walk.got)

\* What clients expect of a walk: it returns every row there was at first.
WalkIsComplete ==
    walk.pc = "done" => walk.first \subseteq ToSet(walk.got)
=============================================================================
