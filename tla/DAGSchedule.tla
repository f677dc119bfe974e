----------------------------- MODULE DAGSchedule -----------------------------
(***************************************************************************)
(* What an execution of a workflow promises (docstrings of                 *)
(* saleha/core/workflow/workflow_engine.py), whatever batches and threads  *)
(* it uses: a node runs once, after everything it depends on has           *)
(* succeeded; it is skipped only below a failure; and the execution        *)
(* reports success exactly when every node succeeded.                      *)
(***************************************************************************)
CONSTANTS Nodes, Executions

VARIABLES
  deps,      \* what each node depends on
  outcome,   \* per execution, what became of each node
  report     \* per execution, what it told its caller

vars == <<deps, outcome, report>>

Outcome == {"waiting", "running", "succeeded", "failed", "skipped"}

Succeeded(e) == {n \in Nodes : outcome[e][n] = "succeeded"}
Broken(e) == {n \in Nodes : outcome[e][n] \in {"failed", "skipped"}}

Init ==
  /\ outcome = [e \in Executions |-> [n \in Nodes |-> "waiting"]]
  /\ report = [e \in Executions |-> "none"]

Becomes(e, n, from, to) ==
  /\ outcome[e][n] = from
  /\ outcome' = [outcome EXCEPT ![e][n] = to]
  /\ UNCHANGED <<deps, report>>

Start(e, n) == deps[n] \subseteq Succeeded(e) /\ Becomes(e, n, "waiting", "running")

Finish(e, n, result) == result \in {"succeeded", "failed"} /\ Becomes(e, n, "running", result)

Skip(e, n) == deps[n] \cap Broken(e) # {} /\ Becomes(e, n, "waiting", "skipped")

Publish(e) ==
  /\ report[e] = "none"
  /\ Succeeded(e) \cup Broken(e) = Nodes
  /\ report' = [report EXCEPT ![e] = IF Succeeded(e) = Nodes THEN "success" ELSE "failure"]
  /\ UNCHANGED <<deps, outcome>>

Next ==
  \E e \in Executions :
    \/ Publish(e)
    \/ \E n \in Nodes : Start(e, n) \/ Skip(e, n) \/ \E o \in Outcome : Finish(e, n, o)

Spec == Init /\ [][Next]_vars
==============================================================================
