--------------------------- MODULE MCTaskOperations ---------------------------
(***************************************************************************)
(* The approval processes on which module TaskOperations is checked.        *)
(***************************************************************************)
EXTENDS TaskOperations

\* apply, then one of two checks, then confirm.
ApprovalElements == {"start", "apply", "route", "legal", "tax", "confirm", "end"}
ApprovalTypes ==
    [start |-> "startEvent", apply |-> "userTask", route |-> "exclusiveGateway",
     legal |-> "userTask", tax |-> "serviceTask", confirm |-> "userTask", end |-> "endEvent"]
ApprovalFlows ==
    <<<<"start", "apply">>, <<"apply", "route">>, <<"route", "tax">>, <<"route", "legal">>,
      <<"tax", "confirm">>, <<"legal", "confirm">>, <<"confirm", "end">>>>
ApprovalStart == [i \in Instances |-> "start"]
ApprovalJumps == {"apply", "confirm", "end"}

SafeUsages ==
    {[kinds |-> {"and", "remove", "transfer", "timeout"}, serial |-> TRUE],
     [kinds |-> {"reject", "jump", "reclaim", "delegate", "timeout"}, serial |-> TRUE],
     [kinds |-> {"jump", "delegate", "transfer"}, serial |-> FALSE],
     [kinds |-> {"delegate", "transfer", "timeout", "crash"}, serial |-> FALSE]}

\* Two instances of a process with one task, and the flow after it fails for
\* the second one.
PairElements == {"start1", "task1", "end1", "start2", "task2", "end2"}
PairTypes ==
    [start1 |-> "startEvent", task1 |-> "userTask", end1 |-> "endEvent",
     start2 |-> "startEvent", task2 |-> "userTask", end2 |-> "endEvent"]
PairFlows ==
    <<<<"start1", "task1">>, <<"task1", "end1">>, <<"start2", "task2">>, <<"task2", "end2">>>>
PairInstances == {1, 2}
PairStart == <<"start1", "start2">>

Serial(kinds) == {[kinds |-> kinds, serial |-> TRUE]}
Concurrent(kinds) == {[kinds |-> kinds, serial |-> FALSE]}

JumpWithSigns == Serial({"and", "jump"})
RejectWithSigns == Serial({"and", "reject"})
DelegateWithSigns == Serial({"and", "delegate"})
OverlappingSigns == Serial({"and", "overlap"})
AnySign == Serial({"or"})
RemovedSigns == Serial({"and", "remove"})
ConcurrentRejects == Concurrent({"reject"})
ConcurrentSigns == Concurrent({"and"})
CrashingRejects == Serial({"reject", "crash"})
Timeouts == Serial({"timeout"})
=============================================================================
