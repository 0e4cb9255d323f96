---------------------------- MODULE MCFlowRuntime ----------------------------
(***************************************************************************)
(* Two pinned graphs that between them hold every kind of node, and the    *)
(* instances of FlowRuntime over them.                                     *)
(***************************************************************************)
EXTENDS FlowRuntime, TLC

\* approval with a deadline -> natal chart -> goal; on timeout a work item whose
\* deadline follows the booking -> goal; rejected -> goal.
ChartNodes == {"chart", "draft", "task", "goal"}
ChartKind == [n \in ChartNodes |->
  CASE n = "chart" -> "chart" [] n = "draft" -> "approval"
    [] n = "task" -> "work_item" [] OTHER -> "terminal"]
ChartTarget ==
  [n \in ChartNodes |->
     CASE n = "draft" -> [h \in {"approved", "rejected", "timeout"} |->
                            CASE h = "approved" -> "chart" [] h = "timeout" -> "task"
                              [] OTHER -> "goal"]
       [] n = "chart" -> [h \in {"next"} |-> "goal"]
       [] n = "task"  -> [h \in {"success"} |-> "goal"]
       [] OTHER       -> << >>]
ChartExpiring == {"draft"}
ChartDue == {"task"}

\* condition -> message to the client -> goal, the false and error edges
\* leading to the goal as well.
MessageNodes == {"check", "message", "goal"}
MessageKind == [n \in MessageNodes |->
  CASE n = "check" -> "step" [] n = "message" -> "message" [] OTHER -> "terminal"]
MessageTarget ==
  [n \in MessageNodes |->
     CASE n = "check"   -> [h \in {"true", "false"} |-> IF h = "true" THEN "message" ELSE "goal"]
       [] n = "message" -> [h \in {"success", "error"} |-> "goal"]
       [] OTHER         -> << >>]

Symmetry == Permutations(Worker) \cup Permutations(Run)
==============================================================================
