------------------------------- MODULE MCEngine -------------------------------
(***************************************************************************)
(* A library of process definitions to run the engine on.  A configuration  *)
(* deploys some of them by naming them in Definitions.                      *)
(*                                                                          *)
(*   order     spec/SPEC.md's complete example, with billing done by hand:  *)
(*             fork, join, call activity (of shipping), throw event         *)
(*   expense   the README's approval: candidates, XOR, OR, service task,    *)
(*             rework loop                                                  *)
(*   alert     catch event, task with a boundary event, throw event         *)
(*   fulfil    spec/SPEC.md's complete example as it stands, up to ship     *)
(*   early     a fork whose first branch goes straight to its end           *)
(*   wait      a task in parallel with a catch event                        *)
(*   merge     two branches that reach the same task without a join         *)
(*   nested    a fork and join that calls itself                            *)
(*   broken    flows into a boundary event and a call of nothing, no default *)
(*   pool      a task with candidates and an interrupting boundary event    *)
(***************************************************************************)
EXTENDS Engine

MCElementsOf ==
    [ order    |-> {"start", "check", "fork", "pack", "bill", "join", "ship", "notify", "end"},
      shipping |-> {"s_start", "s_load", "s_end"},
      expense  |-> {"e_start", "e_fill", "e_notify", "e_review", "e_gw", "e_audit", "e_pay",
                    "e_log", "e_end", "e_rejected"},
      alert    |-> {"a_start", "a_wait", "a_task", "a_abort", "a_fix", "a_raise", "a_end"},
      fulfil   |-> {"f_start", "f_fork", "f_pack", "f_invoice", "f_join", "f_ship", "f_end"},
      early    |-> {"y_start", "y_fork", "y_end", "y_task"},
      wait     |-> {"w_start", "w_fork", "w_task", "w_catch", "w_join", "w_end"},
      merge    |-> {"m_start", "m_fork", "m_a", "m_b", "m_c", "m_end"},
      nested   |-> {"n_start", "n_fork", "n_a", "n_b", "n_gw", "n_again", "n_join", "n_end"},
      broken   |-> {"b_start", "b_task", "b_gw", "b_edge", "b_call", "b_end"},
      pool     |-> {"p_start", "p_task", "p_abort", "p_fix", "p_end"} ]

MCTypes ==
    [ start |-> "startEvent", check |-> "userTask", fork |-> "parallelGateway",
      pack |-> "userTask", bill |-> "userTask", join |-> "parallelGateway",
      ship |-> "callActivity", notify |-> "intermediateThrowEvent", end |-> "endEvent",
      s_start |-> "startEvent", s_load |-> "userTask", s_end |-> "endEvent",
      e_start |-> "startEvent", e_fill |-> "userTask", e_notify |-> "serviceTask",
      e_review |-> "userTask", e_gw |-> "exclusiveGateway", e_audit |-> "inclusiveGateway",
      e_pay |-> "userTask", e_log |-> "serviceTask", e_end |-> "endEvent",
      e_rejected |-> "endEvent",
      a_start |-> "startEvent", a_wait |-> "intermediateCatchEvent", a_task |-> "userTask",
      a_abort |-> "boundaryEvent", a_fix |-> "userTask",
      a_raise |-> "intermediateThrowEvent", a_end |-> "endEvent",
      f_start |-> "startEvent", f_fork |-> "parallelGateway", f_pack |-> "userTask",
      f_invoice |-> "serviceTask", f_join |-> "parallelGateway", f_ship |-> "userTask",
      f_end |-> "endEvent",
      y_start |-> "startEvent", y_fork |-> "parallelGateway", y_end |-> "endEvent",
      y_task |-> "userTask",
      w_start |-> "startEvent", w_fork |-> "parallelGateway", w_task |-> "userTask",
      w_catch |-> "intermediateCatchEvent", w_join |-> "parallelGateway", w_end |-> "endEvent",
      m_start |-> "startEvent", m_fork |-> "parallelGateway", m_a |-> "userTask",
      m_b |-> "userTask", m_c |-> "userTask", m_end |-> "endEvent",
      n_start |-> "startEvent", n_fork |-> "parallelGateway", n_a |-> "userTask",
      n_b |-> "userTask", n_gw |-> "exclusiveGateway", n_again |-> "callActivity",
      n_join |-> "parallelGateway", n_end |-> "endEvent",
      b_start |-> "startEvent", b_task |-> "userTask", b_gw |-> "exclusiveGateway",
      b_edge |-> "boundaryEvent", b_call |-> "callActivity", b_end |-> "endEvent",
      p_start |-> "startEvent", p_task |-> "userTask", p_abort |-> "boundaryEvent",
      p_fix |-> "userTask", p_end |-> "endEvent" ]

\* Source, target and the variables' value the condition asks for.
MCFlowList ==
    << <<"start", "check", "">>, <<"check", "fork", "">>, <<"fork", "pack", "">>,
       <<"fork", "bill", "">>, <<"pack", "join", "">>, <<"bill", "join", "">>,
       <<"join", "ship", "">>, <<"ship", "notify", "">>, <<"notify", "end", "">>,
       <<"s_start", "s_load", "">>, <<"s_load", "s_end", "">>,
       <<"e_start", "e_fill", "">>, <<"e_fill", "e_notify", "">>,
       <<"e_notify", "e_review", "">>, <<"e_review", "e_gw", "">>,
       <<"e_gw", "e_rejected", "reject">>, <<"e_gw", "e_fill", "rework">>,
       <<"e_gw", "e_audit", "">>, <<"e_audit", "e_pay", "">>,
       <<"e_audit", "e_log", "large">>, <<"e_log", "e_end", "">>, <<"e_pay", "e_end", "">>,
       <<"a_start", "a_wait", "">>, <<"a_wait", "a_task", "">>, <<"a_task", "a_raise", "">>,
       <<"a_raise", "a_fix", "">>, <<"a_abort", "a_fix", "">>, <<"a_fix", "a_end", "">>,
       <<"f_start", "f_fork", "">>, <<"f_fork", "f_pack", "">>,
       <<"f_fork", "f_invoice", "">>, <<"f_pack", "f_join", "">>,
       <<"f_invoice", "f_join", "">>, <<"f_join", "f_ship", "">>, <<"f_ship", "f_end", "">>,
       <<"y_start", "y_fork", "">>, <<"y_fork", "y_end", "">>, <<"y_fork", "y_task", "">>,
       <<"y_task", "y_end", "">>,
       <<"w_start", "w_fork", "">>, <<"w_fork", "w_task", "">>, <<"w_fork", "w_catch", "">>,
       <<"w_task", "w_join", "">>, <<"w_catch", "w_join", "">>, <<"w_join", "w_end", "">>,
       <<"m_start", "m_fork", "">>, <<"m_fork", "m_a", "">>, <<"m_fork", "m_b", "">>,
       <<"m_a", "m_c", "">>, <<"m_b", "m_c", "">>, <<"m_c", "m_end", "">>,
       <<"n_start", "n_fork", "">>, <<"n_fork", "n_a", "">>, <<"n_fork", "n_b", "">>,
       <<"n_a", "n_join", "">>, <<"n_b", "n_gw", "">>, <<"n_gw", "n_again", "rework">>,
       <<"n_gw", "n_join", "">>, <<"n_again", "n_join", "">>, <<"n_join", "n_end", "">>,
       <<"b_start", "b_task", "">>, <<"b_task", "b_gw", "">>,
       <<"b_gw", "b_edge", "reject">>, <<"b_gw", "b_call", "rework">>,
       <<"b_gw", "b_end", "approve">>, <<"b_call", "b_end", "">>,
       <<"p_start", "p_task", "">>, <<"p_task", "p_end", "">>, <<"p_abort", "p_fix", "">>,
       <<"p_fix", "p_end", "">> >>

-----------------------------------------------------------------------------
MCElements == UNION {MCElementsOf[d] : d \in Definitions}

MCElementType == [e \in MCElements |-> MCTypes[e]]

MCFlows == {f \in DOMAIN MCFlowList : MCFlowList[f][1] \in MCElements}

MCSourceRef == [f \in MCFlows |-> MCFlowList[f][1]]

MCTargetRef == [f \in MCFlows |-> MCFlowList[f][2]]

\* A condition fails on an instance without variables.
MCCondition ==
    [f \in MCFlows |-> [v \in Values |->
        CASE MCFlowList[f][3] = "" -> "none"
          [] MCFlowList[f][3] = v -> "true"
          [] v = NoVariables -> "error"
          [] OTHER -> "false"]]

MCStartEventID ==
    [d \in Definitions |-> CHOOSE e \in MCElementsOf[d] : MCTypes[e] = "startEvent"]

MCDefaultFlowID ==
    LET DefaultFlow(e) == {f \in MCFlows : /\ MCFlowList[f][1] = e /\ e \in {"e_gw", "n_gw"}
                                           /\ MCFlowList[f][3] = ""}
    IN  [e \in MCElements |-> IF DefaultFlow(e) = {} THEN NoFlow
                              ELSE CHOOSE f \in DefaultFlow(e) : TRUE]

MCSignals == {"orderShipped", "go", "abort"}

MCSignalRef ==
    [e \in MCElements |->
        CASE e = "notify" -> "orderShipped"
          [] e \in {"a_wait", "w_catch", "a_raise"} -> "go"
          [] e \in {"a_abort", "p_abort"} -> "abort"
          [] OTHER -> NoSignal]

MCAttachedToRef ==
    [e \in MCElements |->
        CASE e = "a_abort" -> "a_task"
          [] e = "p_abort" -> "p_task"
          [] OTHER -> NoElement]

MCCancelActivity == MCElements \cap {"a_abort", "p_abort"}

MCCalledElement ==
    [e \in MCElements |->
        CASE e = "ship" -> "shipping"
          [] e = "n_again" -> "nested"
          [] OTHER -> NoDefinition]

MCInheritVariables == MCElements \cap {"ship", "n_again"}

MCCandidateTasks == MCElements \cap {"e_review", "p_task"}
=============================================================================
