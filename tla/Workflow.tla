------------------------------- MODULE Workflow -------------------------------
(***************************************************************************)
(* WorkflowDAG.execute (saleha/core/workflow/workflow_engine.py): nodes    *)
(* run batch by batch on a thread pool, a failure skips what depends on    *)
(* it.  A node object carries its own status, so every execution of the    *)
(* same WorkflowDAG reads and writes the same statuses: later executions   *)
(* meet what earlier ones left, and, where callers overlap (requests of    *)
(* the threaded web server for one registered workflow), each other's.     *)
(*                                                                         *)
(* Outputs, logs, events and durations are left out; node bodies are       *)
(* reduced to how they end.                                                *)
(***************************************************************************)
EXTENDS Integers, FiniteSets

CONSTANTS
  Nodes,        \* ids of the nodes of the DAG
  Unknown,      \* ids that depends_on may name and no node has
  Executions,   \* calls of execute()
  MaxWorkers,   \* max_workers
  Overlap       \* whether callers may execute the DAG at the same time

ASSUME WorkflowAssumption ==
  /\ IsFiniteSet(Nodes) /\ Nodes \cap Unknown = {}
  /\ MaxWorkers \in Nat \ {0}
  /\ Overlap \in BOOLEAN

VARIABLES
  deps,      \* node.depends_on
  status,    \* node.status, shared by all executions
  phase,     \* how far an execution is
  done,      \* the nodes of the batches it has left behind
  pc,        \* where its handling of each node is
  completed, healed, failed, skipped,   \* its lists of node ids
  success,   \* WorkflowExecutionResult.success
  body       \* how node.execute ended; history, read by no action

lists == <<completed, healed, failed, skipped>>
vars == <<deps, status, phase, done, pc, lists, success, body>>

NodeStatus == {"PENDING", "RUNNING", "COMPLETED", "FAILED", "SKIPPED", "HEALED"}

\* ended: the future is resolved; collected: as_completed has delivered it.
Places == {"waiting", "queued", "running", "returned", "completing", "ended",
           "collected", "skipped"}

Each(v) == [e \in Executions |-> v]
EachNode(v) == [n \in Nodes |-> v]

Init ==
  /\ deps \in [Nodes -> SUBSET (Nodes \cup Unknown)]
  /\ status = EachNode("PENDING")
  /\ phase = Each("new")
  /\ done = Each({})
  /\ pc = Each(EachNode("waiting"))
  /\ completed = Each({}) /\ healed = Each({}) /\ failed = Each({}) /\ skipped = Each({})
  /\ success = Each("none")
  /\ body = Each(EachNode("none"))

--------------------------------------------------------------------------------
(* get_topological_batches *)

\* Mutant: one dependency is enough.
NextBatchAnyDep(finished) ==
  {n \in Nodes \ finished : deps[n] = {} \/ deps[n] \cap finished # {}}

\* current_batch, once the nodes in `finished` are in earlier batches.
NextBatch(finished) == {n \in Nodes \ finished : deps[n] \subseteq finished}

\* The nodes of the first k batches.
Layers ==
  LET upTo[k \in Nat] == IF k = 0 THEN {} ELSE upTo[k - 1] \cup NextBatch(upTo[k - 1])
  IN  upTo

\* Mutant: no check for cycles.
OrderableUnchecked == \A n \in Nodes : deps[n] \subseteq Nodes

\* Neither a KeyError (unknown id) nor a ValueError (cycle).
Orderable ==
  /\ \A n \in Nodes : deps[n] \subseteq Nodes
  /\ Layers[Cardinality(Nodes)] = Nodes

--------------------------------------------------------------------------------
(* execute: the calling thread. *)

Batch(e) == NextBatch(done[e])

Moves(e, n, from, to) == pc[e][n] = from /\ pc' = [pc EXCEPT ![e][n] = to]
Sets(n, s) == status' = [status EXCEPT ![n] = s]

\* execute() is called; the batches are computed or an error is raised.
Begin(e) ==
  /\ phase[e] = "new"
  /\ Overlap \/ \A other \in Executions : phase[other] # "running"
  /\ phase' = [phase EXCEPT ![e] = IF Orderable THEN "running" ELSE "rejected"]
  /\ UNCHANGED <<deps, status, done, pc, lists, success, body>>

\* Mutant: only a failed dependency breaks a node, not a skipped one.
BrokenByFailure(n) == \E d \in deps[n] : status[d] = "FAILED"

\* broken_deps is not empty.
BrokenDeps(n) == \E d \in deps[n] : status[d] \in {"FAILED", "SKIPPED"}

\* The loop over a batch decides what is skipped before anything is submitted.
Examine(e, n) ==
  /\ phase[e] = "running"
  /\ n \in Batch(e)
  /\ \/ /\ BrokenDeps(n)
        /\ Moves(e, n, "waiting", "skipped")
        /\ Sets(n, "SKIPPED")
        /\ skipped' = [skipped EXCEPT ![e] = @ \cup {n}]
     \/ /\ ~BrokenDeps(n)
        /\ Moves(e, n, "waiting", "queued")
        /\ UNCHANGED <<status, skipped>>
  /\ UNCHANGED <<deps, phase, done, completed, healed, failed, success, body>>

\* as_completed: the node is listed by the status it has by then.
Collect(e, n) ==
  LET Listed(s, list) == IF status[n] = s THEN [list EXCEPT ![e] = @ \cup {n}] ELSE list
  IN  /\ Moves(e, n, "ended", "collected")
      /\ completed' = Listed("COMPLETED", completed)
      /\ healed' = Listed("HEALED", healed)
      /\ failed' = Listed("FAILED", failed)
      /\ UNCHANGED <<deps, status, phase, done, skipped, success, body>>

\* The pool of a batch is closed when every future of it was delivered.
CloseBatch(e) ==
  /\ phase[e] = "running"
  /\ done[e] # Nodes
  /\ \A n \in Batch(e) : pc[e][n] \in {"collected", "skipped"}
  /\ done' = [done EXCEPT ![e] = @ \cup Batch(e)]
  /\ UNCHANGED <<deps, status, phase, pc, lists, success, body>>

Conclude(e) ==
  /\ phase[e] = "running"
  /\ done[e] = Nodes
  /\ phase' = [phase EXCEPT ![e] = "done"]
  /\ success' = [success EXCEPT ![e] =
                   IF failed[e] = {} /\ skipped[e] = {} THEN "success" ELSE "failure"]
  /\ UNCHANGED <<deps, status, done, pc, lists, body>>

--------------------------------------------------------------------------------
(* _run_single_node: the workers. *)

Busy(e) == {n \in Nodes : pc[e][n] \in {"running", "returned", "completing"}}

FreeWorker(e) == Cardinality(Busy(e)) < MaxWorkers

Start(e, n) ==
  /\ \A m \in Batch(e) : pc[e][m] # "waiting"
  /\ FreeWorker(e)
  /\ Moves(e, n, "queued", "running")
  /\ Sets(n, "RUNNING")
  /\ UNCHANGED <<deps, phase, done, lists, success, body>>

\* node.execute returns.  Some kinds of node set their status to COMPLETED
\* before that; a self-healing one that needed a retry sets HEALED.
Return(e, n) ==
  /\ Moves(e, n, "running", "returned")
  /\ \/ /\ Sets(n, "HEALED")
        /\ body' = [body EXCEPT ![e][n] = "healed"]
     \/ /\ Sets(n, "COMPLETED") \/ UNCHANGED status
        /\ body' = [body EXCEPT ![e][n] = "returned"]
  /\ UNCHANGED <<deps, phase, done, lists, success>>

\* node.execute raises.
Raise(e, n) ==
  /\ Moves(e, n, "running", "ended")
  /\ Sets(n, "FAILED")
  /\ body' = [body EXCEPT ![e][n] = "raised"]
  /\ UNCHANGED <<deps, phase, done, lists, success>>

\* Mutant: HEALED is not looked for.
CheckNothing(e, n) ==
  /\ Moves(e, n, "returned", "completing")
  /\ UNCHANGED <<deps, status, phase, done, lists, success, body>>

\* if n.status == NodeStatus.HEALED
Check(e, n) ==
  /\ Moves(e, n, "returned", IF status[n] = "HEALED" THEN "ended" ELSE "completing")
  /\ UNCHANGED <<deps, status, phase, done, lists, success, body>>

Complete(e, n) ==
  /\ Moves(e, n, "completing", "ended")
  /\ Sets(n, "COMPLETED")
  /\ UNCHANGED <<deps, phase, done, lists, success, body>>

Handle(e, n) ==
  \/ Examine(e, n) \/ Collect(e, n)
  \/ Start(e, n) \/ Return(e, n) \/ Raise(e, n) \/ Check(e, n) \/ Complete(e, n)

Progress(e) == CloseBatch(e) \/ Conclude(e) \/ \E n \in Nodes : Handle(e, n)

Next == \E e \in Executions : Begin(e) \/ Progress(e)

Safety == Init /\ [][Next]_vars

\* Threads run, and every node's body ends (they have timeouts of their own).
Spec == Safety /\ \A e \in Executions : WF_vars(Progress(e))
-------------------------------------------------------------------------------
\* Type correctness; the pool of an execution runs at most max_workers bodies.
WorkflowTypeOK ==
  /\ deps \in [Nodes -> SUBSET (Nodes \cup Unknown)]
  /\ status \in [Nodes -> NodeStatus]
  /\ phase \in [Executions -> {"new", "running", "done", "rejected"}]
  /\ done \in [Executions -> SUBSET Nodes]
  /\ pc \in [Executions -> [Nodes -> Places]]
  /\ completed \in [Executions -> SUBSET Nodes]
  /\ healed \in [Executions -> SUBSET Nodes]
  /\ failed \in [Executions -> SUBSET Nodes]
  /\ skipped \in [Executions -> SUBSET Nodes]
  /\ success \in [Executions -> {"none", "success", "failure"}]
  /\ body \in [Executions -> [Nodes -> {"none", "returned", "healed", "raised"}]]
  /\ \A e \in Executions : Cardinality(Busy(e)) <= MaxWorkers

\* What became of a node in an execution, by what its body did there.
OutcomeOf(e, n) ==
  CASE pc[e][n] \in {"waiting", "queued"} -> "waiting"
    [] pc[e][n] = "running" -> "running"
    [] pc[e][n] = "skipped" -> "skipped"
    [] OTHER -> IF body[e][n] = "raised" THEN "failed" ELSE "succeeded"

Schedule ==
  INSTANCE DAGSchedule WITH
    outcome <- [e \in Executions |-> [n \in Nodes |-> OutcomeOf(e, n)]],
    report <- success

\* Batches, statuses and threads implement the schedule: no body runs before
\* all it depends on has succeeded in this very execution, whatever statuses
\* earlier executions left, and success is reported for nothing less.
ImplementsSchedule == Schedule!Spec

\* The four lists of a finished execution say of every node how it ended there,
\* once ("Complete summary of an executed workflow DAG").
ReportIsTrue ==
  \A e \in Executions : phase[e] = "done" =>
    /\ completed[e] = {n \in Nodes : body[e][n] = "returned"}
    /\ healed[e] = {n \in Nodes : body[e][n] = "healed"}
    /\ failed[e] = {n \in Nodes : body[e][n] = "raised"}
    /\ skipped[e] = {n \in Nodes : body[e][n] = "none"}

\* What n depends on, directly or not: whatever is in every set that holds what n
\* depends on, and what its own members depend on.
Upstream(n) ==
  {m \in Nodes : \A S \in SUBSET Nodes :
     deps[n] \subseteq S /\ (\A x \in S : deps[x] \subseteq S) => m \in S}

\* "downstream nodes are marked SKIPPED if an upstream node fails"
\* (tests/core_workflow/test_workflow_engine.py), at any distance, and no others.
FailuresCascade ==
  \A e \in Executions, n \in Nodes : phase[e] = "done" =>
    (n \in skipped[e] <=> \E m \in Upstream(n) : body[e][m] = "raised")

\* Every execution that was started ends: its batches cover the graph, no
\* worker or future is waited for in vain, and a graph without an order is
\* refused before anything runs.
ExecutionsEnd ==
  \A e \in Executions : phase[e] = "running" ~> phase[e] = "done"
===============================================================================
