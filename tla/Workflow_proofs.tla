---------------------------- MODULE Workflow_proofs ----------------------------
(***************************************************************************)
(* For every graph, number of nodes, executions and workers: executions    *)
(* that do not overlap implement DAGSchedule, and report the truth.        *)
(*                                                                         *)
(* The invariant says of each node where its handling is (Position), what  *)
(* body and lists say of it there (Stage), and that the shared status is   *)
(* that of the one execution that runs (StatusIsMine).                     *)
(***************************************************************************)
EXTENDS Workflow, FiniteSetTheorems, WellFoundedInduction, TLAPS

Typed ==
  /\ deps \in [Nodes -> SUBSET (Nodes \cup Unknown)]
  /\ status \in [Nodes -> NodeStatus]
  /\ phase \in [Executions -> {"new", "running", "done", "rejected"}]
  /\ done \in [Executions -> SUBSET Nodes]
  /\ pc \in [Executions -> [Nodes -> Places]]
  /\ completed \in [Executions -> SUBSET Nodes]
  /\ healed \in [Executions -> SUBSET Nodes]
  /\ failed \in [Executions -> SUBSET Nodes]
  /\ skipped \in [Executions -> SUBSET Nodes]
  /\ success \in [Executions -> {"none", "success", "failure"}]
  /\ body \in [Executions -> [Nodes -> {"none", "returned", "healed", "raised"}]]

\* No two executions run at once.
Alone ==
  \A e, f \in Executions : phase[e] = "running" /\ phase[f] = "running" => e = f

\* How far the handling of a node may be, given the batches left behind.
Position(e, n) ==
  /\ n \in done[e] => pc[e][n] \in {"collected", "skipped"}
  /\ pc[e][n] # "waiting" => n \in done[e] \/ deps[n] \subseteq done[e]
  /\ pc[e][n] \notin {"waiting", "collected", "skipped"} => phase[e] = "running"
  /\ phase[e] \in {"new", "rejected"} => pc[e][n] = "waiting"
  /\ phase[e] = "done" => n \in done[e]

\* What a queued node depends on has been collected, and did not raise.
Ready(e, n) ==
  pc[e][n] = "queued" =>
    \A d \in deps[n] : d \in Nodes /\ pc[e][d] = "collected" /\ body[e][d] # "raised"

\* What history and lists say of a node, by where its handling is.
Stage(e, n) ==
  /\ pc[e][n] \in {"waiting", "queued", "running", "skipped"} <=> body[e][n] = "none"
  /\ pc[e][n] = "returned" => body[e][n] \in {"returned", "healed"}
  /\ pc[e][n] = "completing" => body[e][n] = "returned"
  /\ n \in completed[e] <=> pc[e][n] = "collected" /\ body[e][n] = "returned"
  /\ n \in healed[e] <=> pc[e][n] = "collected" /\ body[e][n] = "healed"
  /\ n \in failed[e] <=> pc[e][n] = "collected" /\ body[e][n] = "raised"
  /\ n \in skipped[e] <=> pc[e][n] = "skipped"

\* While an execution runs, the shared status of a node it has handled is its own.
StatusIsMine(e, n) ==
  phase[e] = "running" =>
    /\ pc[e][n] = "running" => status[n] = "RUNNING"
    /\ pc[e][n] = "returned" => (status[n] = "HEALED" <=> body[e][n] = "healed")
    /\ pc[e][n] \in {"ended", "collected"} =>
         /\ body[e][n] = "returned" => status[n] = "COMPLETED"
         /\ body[e][n] = "healed" => status[n] = "HEALED"
         /\ body[e][n] = "raised" => status[n] = "FAILED"
    /\ pc[e][n] = "skipped" => status[n] = "SKIPPED"

Reported(e) == success[e] # "none" <=> phase[e] = "done"

WorkflowInv ==
  /\ Typed
  /\ Alone
  /\ \A e \in Executions : Reported(e)
  /\ \A e \in Executions, n \in Nodes :
       Position(e, n) /\ Ready(e, n) /\ Stage(e, n) /\ StatusIsMine(e, n)

USE DEF lists

\* A step moves the handling of one node and of no other.
LEMMA MovesOne ==
  ASSUME Typed, NEW e \in Executions, NEW n \in Nodes, NEW from, NEW to \in Places,
         Moves(e, n, from, to)
  PROVE  /\ pc' \in [Executions -> [Nodes -> Places]]
         /\ pc[e][n] = from /\ pc'[e][n] = to
         /\ \A f \in Executions, m \in Nodes :
              f # e \/ m # n => pc'[f][m] = pc[f][m]
BY DEF Moves, Typed

\* A step sets the status of one node.
LEMMA SetsOne ==
  ASSUME Typed, NEW n \in Nodes, NEW s \in NodeStatus, Sets(n, s)
  PROVE  /\ status' \in [Nodes -> NodeStatus]
         /\ status'[n] = s
         /\ \A m \in Nodes : m # n => status'[m] = status[m]
BY DEF Sets, Typed

\* Nothing has been handled when the DAG is new.
LEMMA InitInv == Init => WorkflowInv
BY DEF Init, WorkflowInv, Typed, Alone, Reported, Position, Ready, Stage, StatusIsMine,
       Each, EachNode, NodeStatus, Places

\* execute() is called while no other execution runs.
LEMMA BeginInv ==
  ASSUME ~Overlap, WorkflowInv, NEW e \in Executions, Begin(e)
  PROVE  WorkflowInv'
BY DEF Begin, WorkflowInv, Typed, Alone, Reported, Position, Ready, Stage, StatusIsMine

\* The loop over the batch skips a node or has it queued.
LEMMA ExamineInv ==
  ASSUME WorkflowInv, NEW e \in Executions, NEW n \in Nodes, Examine(e, n)
  PROVE  WorkflowInv'
<1>1. /\ phase[e] = "running" /\ n \in Batch(e)
      /\ UNCHANGED <<deps, phase, done, completed, healed, failed, success, body>>
  BY DEF Examine
<1>2. n \notin done[e] /\ deps[n] \subseteq done[e]
  BY <1>1 DEF Batch, NextBatch
<1>3. CASE /\ BrokenDeps(n)
           /\ Moves(e, n, "waiting", "skipped")
           /\ Sets(n, "SKIPPED")
           /\ skipped' = [skipped EXCEPT ![e] = @ \cup {n}]
  <2>1. /\ pc' \in [Executions -> [Nodes -> Places]]
        /\ pc[e][n] = "waiting" /\ pc'[e][n] = "skipped"
        /\ \A f \in Executions, m \in Nodes :
             f # e \/ m # n => pc'[f][m] = pc[f][m]
    BY <1>3, MovesOne DEF WorkflowInv, Places
  <2>2. /\ status' \in [Nodes -> NodeStatus]
        /\ status'[n] = "SKIPPED"
        /\ \A m \in Nodes : m # n => status'[m] = status[m]
    BY <1>3, SetsOne DEF WorkflowInv, NodeStatus
  <2>3. /\ skipped' \in [Executions -> SUBSET Nodes]
        /\ \A f \in Executions, m \in Nodes :
             m \in skipped'[f] <=> m \in skipped[f] \/ (f = e /\ m = n)
    BY <1>3 DEF WorkflowInv, Typed
  <2>4. Typed'
    BY <1>1, <2>1, <2>2, <2>3 DEF WorkflowInv, Typed
  <2>5. ASSUME NEW f \in Executions, NEW m \in Nodes
        PROVE  Position(f, m)' /\ Ready(f, m)' /\ Stage(f, m)' /\ StatusIsMine(f, m)'
    <3>1. Position(f, m)'
      BY <1>1, <1>2, <2>1 DEF WorkflowInv, Position
    <3>2. Ready(f, m)'
      BY <1>1, <2>1 DEF WorkflowInv, Ready
    <3>3. Stage(f, m)'
      BY <1>1, <2>1, <2>3 DEF WorkflowInv, Stage
    <3>4. StatusIsMine(f, m)'
      BY <1>1, <2>1, <2>2 DEF WorkflowInv, StatusIsMine, Alone
    <3>5. QED BY <3>1, <3>2, <3>3, <3>4
  <2>6. Alone' /\ \A f \in Executions : Reported(f)'
    BY <1>1 DEF WorkflowInv, Alone, Reported
  <2>7. QED BY <2>4, <2>5, <2>6 DEF WorkflowInv
<1>4. CASE /\ ~BrokenDeps(n)
           /\ Moves(e, n, "waiting", "queued")
           /\ UNCHANGED <<status, skipped>>
  <2>1. /\ pc' \in [Executions -> [Nodes -> Places]]
        /\ pc[e][n] = "waiting" /\ pc'[e][n] = "queued"
        /\ \A f \in Executions, m \in Nodes :
             f # e \/ m # n => pc'[f][m] = pc[f][m]
    BY <1>4, MovesOne DEF WorkflowInv, Places
  <2>2. Typed'
    BY <1>1, <1>4, <2>1 DEF WorkflowInv, Typed
  \* A dependency in an earlier batch whose status is neither FAILED nor
  \* SKIPPED was collected, and its body did not raise.
  <2>3. ASSUME NEW d \in deps[n]
        PROVE  d \in Nodes /\ pc[e][d] = "collected" /\ body[e][d] # "raised"
    <3>1. d \in done[e] /\ d \in Nodes
      BY <1>2 DEF WorkflowInv, Typed
    <3>2. pc[e][d] \in {"collected", "skipped"} /\ Stage(e, d) /\ StatusIsMine(e, d)
      BY <3>1 DEF WorkflowInv, Position
    <3>3. status[d] \notin {"FAILED", "SKIPPED"}
      BY <1>4 DEF BrokenDeps
    <3>4. QED BY <1>1, <3>1, <3>2, <3>3 DEF StatusIsMine
  <2>4. ASSUME NEW f \in Executions, NEW m \in Nodes
        PROVE  Position(f, m)' /\ Ready(f, m)' /\ Stage(f, m)' /\ StatusIsMine(f, m)'
    <3>1. Position(f, m)'
      BY <1>1, <1>2, <2>1 DEF WorkflowInv, Position
    <3>2. Ready(f, m)'
      BY <1>1, <2>1, <2>3 DEF WorkflowInv, Ready
    <3>3. Stage(f, m)'
      BY <1>1, <1>4, <2>1 DEF WorkflowInv, Stage
    <3>4. StatusIsMine(f, m)'
      BY <1>1, <1>4, <2>1 DEF WorkflowInv, StatusIsMine
    <3>5. QED BY <3>1, <3>2, <3>3, <3>4
  <2>5. Alone' /\ \A f \in Executions : Reported(f)'
    BY <1>1 DEF WorkflowInv, Alone, Reported
  <2>6. QED BY <2>2, <2>4, <2>5 DEF WorkflowInv
<1>5. QED BY <1>3, <1>4 DEF Examine

\* A worker takes a queued node.
LEMMA StartInv ==
  ASSUME WorkflowInv, NEW e \in Executions, NEW n \in Nodes, Start(e, n)
  PROVE  WorkflowInv'
<1>1. UNCHANGED <<deps, phase, done, completed, healed, failed, skipped, success, body>>
  BY DEF Start
<1>2. /\ pc' \in [Executions -> [Nodes -> Places]]
      /\ pc[e][n] = "queued" /\ pc'[e][n] = "running"
      /\ \A f \in Executions, m \in Nodes :
           f # e \/ m # n => pc'[f][m] = pc[f][m]
  BY MovesOne DEF Start, WorkflowInv, Places
<1>3. /\ status' \in [Nodes -> NodeStatus]
      /\ status'[n] = "RUNNING"
      /\ \A m \in Nodes : m # n => status'[m] = status[m]
  BY SetsOne DEF Start, WorkflowInv, NodeStatus
<1>4. UNCHANGED body
  BY <1>1
<1>5. phase[e] = "running" /\ n \notin done[e]
  BY <1>2 DEF WorkflowInv, Position
<1>6. Typed'
  BY <1>1, <1>2, <1>3, <1>4 DEF WorkflowInv, Typed
<1>7. ASSUME NEW f \in Executions, NEW m \in Nodes
      PROVE  Position(f, m)' /\ Ready(f, m)' /\ Stage(f, m)' /\ StatusIsMine(f, m)'
  <2>1. Position(f, m)'
    BY <1>1, <1>2, <1>5 DEF WorkflowInv, Position
  <2>2. Ready(f, m)'
    BY <1>1, <1>2, <1>4 DEF WorkflowInv, Ready
  <2>3. Stage(f, m)'
    BY <1>1, <1>2, <1>4 DEF WorkflowInv, Stage
  <2>4. StatusIsMine(f, m)'
    BY <1>1, <1>2, <1>3, <1>4, <1>5 DEF WorkflowInv, Alone, Stage, StatusIsMine
  <2>5. QED BY <2>1, <2>2, <2>3, <2>4
<1>8. Alone' /\ \A f \in Executions : Reported(f)'
  BY <1>1 DEF WorkflowInv, Alone, Reported
<1>9. QED BY <1>6, <1>7, <1>8 DEF WorkflowInv

\* A worker marks a node COMPLETED.
LEMMA CompleteInv ==
  ASSUME WorkflowInv, NEW e \in Executions, NEW n \in Nodes, Complete(e, n)
  PROVE  WorkflowInv'
<1>1. UNCHANGED <<deps, phase, done, completed, healed, failed, skipped, success, body>>
  BY DEF Complete
<1>2. /\ pc' \in [Executions -> [Nodes -> Places]]
      /\ pc[e][n] = "completing" /\ pc'[e][n] = "ended"
      /\ \A f \in Executions, m \in Nodes :
           f # e \/ m # n => pc'[f][m] = pc[f][m]
  BY MovesOne DEF Complete, WorkflowInv, Places
<1>3. /\ status' \in [Nodes -> NodeStatus]
      /\ status'[n] = "COMPLETED"
      /\ \A m \in Nodes : m # n => status'[m] = status[m]
  BY SetsOne DEF Complete, WorkflowInv, NodeStatus
<1>4. UNCHANGED body
  BY <1>1
<1>5. phase[e] = "running" /\ n \notin done[e]
  BY <1>2 DEF WorkflowInv, Position
<1>6. Typed'
  BY <1>1, <1>2, <1>3, <1>4 DEF WorkflowInv, Typed
<1>7. ASSUME NEW f \in Executions, NEW m \in Nodes
      PROVE  Position(f, m)' /\ Ready(f, m)' /\ Stage(f, m)' /\ StatusIsMine(f, m)'
  <2>1. Position(f, m)'
    BY <1>1, <1>2, <1>5 DEF WorkflowInv, Position
  <2>2. Ready(f, m)'
    BY <1>1, <1>2, <1>4 DEF WorkflowInv, Ready
  <2>3. Stage(f, m)'
    BY <1>1, <1>2, <1>4 DEF WorkflowInv, Stage
  <2>4. StatusIsMine(f, m)'
    BY <1>1, <1>2, <1>3, <1>4, <1>5 DEF WorkflowInv, Alone, Stage, StatusIsMine
  <2>5. QED BY <2>1, <2>2, <2>3, <2>4
<1>8. Alone' /\ \A f \in Executions : Reported(f)'
  BY <1>1 DEF WorkflowInv, Alone, Reported
<1>9. QED BY <1>6, <1>7, <1>8 DEF WorkflowInv

\* The body of a node raises.
LEMMA RaiseInv ==
  ASSUME WorkflowInv, NEW e \in Executions, NEW n \in Nodes, Raise(e, n)
  PROVE  WorkflowInv'
<1>1. UNCHANGED <<deps, phase, done, completed, healed, failed, skipped, success>>
  BY DEF Raise
<1>2. /\ pc' \in [Executions -> [Nodes -> Places]]
      /\ pc[e][n] = "running" /\ pc'[e][n] = "ended"
      /\ \A f \in Executions, m \in Nodes :
           f # e \/ m # n => pc'[f][m] = pc[f][m]
  BY MovesOne DEF Raise, WorkflowInv, Places
<1>3. /\ status' \in [Nodes -> NodeStatus]
      /\ status'[n] = "FAILED"
      /\ \A m \in Nodes : m # n => status'[m] = status[m]
  BY SetsOne DEF Raise, WorkflowInv, NodeStatus
<1>4. /\ body' \in [Executions -> [Nodes -> {"none", "returned", "healed", "raised"}]]
      /\ body'[e][n] = "raised"
      /\ \A f \in Executions, m \in Nodes :
           f # e \/ m # n => body'[f][m] = body[f][m]
  BY DEF Raise, WorkflowInv, Typed
<1>5. phase[e] = "running" /\ n \notin done[e]
  BY <1>2 DEF WorkflowInv, Position
<1>6. Typed'
  BY <1>1, <1>2, <1>3, <1>4 DEF WorkflowInv, Typed
<1>7. ASSUME NEW f \in Executions, NEW m \in Nodes
      PROVE  Position(f, m)' /\ Ready(f, m)' /\ Stage(f, m)' /\ StatusIsMine(f, m)'
  <2>1. Position(f, m)'
    BY <1>1, <1>2, <1>5 DEF WorkflowInv, Position
  <2>2. Ready(f, m)'
    <3>1. SUFFICES ASSUME pc'[f][m] = "queued", NEW d \in deps[m]
                   PROVE  d \in Nodes /\ pc'[f][d] = "collected" /\ body'[f][d] # "raised"
      BY <1>1 DEF Ready
    <3>2. pc[f][m] = "queued"
      BY <1>2, <3>1
    <3>3. d \in Nodes /\ pc[f][d] = "collected" /\ body[f][d] # "raised"
      BY <3>1, <3>2 DEF WorkflowInv, Ready
    <3>4. QED BY <1>2, <1>4, <3>3
  <2>3. Stage(f, m)'
    BY <1>1, <1>2, <1>4 DEF WorkflowInv, Stage
  <2>4. StatusIsMine(f, m)'
    BY <1>1, <1>2, <1>3, <1>4, <1>5 DEF WorkflowInv, Alone, Stage, StatusIsMine
  <2>5. QED BY <2>1, <2>2, <2>3, <2>4
<1>8. Alone' /\ \A f \in Executions : Reported(f)'
  BY <1>1 DEF WorkflowInv, Alone, Reported
<1>9. QED BY <1>6, <1>7, <1>8 DEF WorkflowInv

\* The body of a node returns, healed or not.
LEMMA ReturnInv ==
  ASSUME WorkflowInv, NEW e \in Executions, NEW n \in Nodes, Return(e, n)
  PROVE  WorkflowInv'
<1>1. UNCHANGED <<deps, phase, done, completed, healed, failed, skipped, success>>
  BY DEF Return
<1>2. /\ pc' \in [Executions -> [Nodes -> Places]]
      /\ pc[e][n] = "running" /\ pc'[e][n] = "returned"
      /\ \A f \in Executions, m \in Nodes :
           f # e \/ m # n => pc'[f][m] = pc[f][m]
  BY MovesOne DEF Return, WorkflowInv, Places
<1>3. /\ status' \in [Nodes -> NodeStatus]
      /\ \A m \in Nodes : m # n => status'[m] = status[m]
  BY SetsOne DEF Return, WorkflowInv, Typed, NodeStatus
<1>4. /\ body' \in [Executions -> [Nodes -> {"none", "returned", "healed", "raised"}]]
      /\ body'[e][n] \in {"returned", "healed"}
      /\ \A f \in Executions, m \in Nodes :
           f # e \/ m # n => body'[f][m] = body[f][m]
  <2>1. PICK b \in {"returned", "healed"} : body' = [body EXCEPT ![e][n] = b]
    BY DEF Return
  <2>2. QED BY <2>1 DEF WorkflowInv, Typed
<1>5. phase[e] = "running" /\ n \notin done[e]
  BY <1>2 DEF WorkflowInv, Position
<1>6. status'[n] = "HEALED" <=> body'[e][n] = "healed"
  <2>1. status[n] = "RUNNING"
    BY <1>2, <1>5 DEF WorkflowInv, StatusIsMine
  <2>2. CASE Sets(n, "HEALED") /\ body' = [body EXCEPT ![e][n] = "healed"]
    BY <2>2, SetsOne DEF WorkflowInv, Typed, NodeStatus
  <2>3. CASE /\ Sets(n, "COMPLETED") \/ UNCHANGED status
             /\ body' = [body EXCEPT ![e][n] = "returned"]
    BY <2>1, <2>3, SetsOne DEF WorkflowInv, Typed, NodeStatus
  <2>4. QED BY <2>2, <2>3 DEF Return
<1>7. Typed'
  BY <1>1, <1>2, <1>3, <1>4 DEF WorkflowInv, Typed
<1>8. ASSUME NEW f \in Executions, NEW m \in Nodes
      PROVE  Position(f, m)' /\ Ready(f, m)' /\ Stage(f, m)' /\ StatusIsMine(f, m)'
  <2>1. Position(f, m)'
    BY <1>1, <1>2, <1>5 DEF WorkflowInv, Position
  <2>2. Ready(f, m)'
    <3>1. SUFFICES ASSUME pc'[f][m] = "queued", NEW d \in deps[m]
                   PROVE  d \in Nodes /\ pc'[f][d] = "collected" /\ body'[f][d] # "raised"
      BY <1>1 DEF Ready
    <3>2. pc[f][m] = "queued"
      BY <1>2, <3>1
    <3>3. d \in Nodes /\ pc[f][d] = "collected" /\ body[f][d] # "raised"
      BY <3>1, <3>2 DEF WorkflowInv, Ready
    <3>4. QED BY <1>2, <1>4, <3>3
  <2>3. Stage(f, m)'
    BY <1>1, <1>2, <1>4 DEF WorkflowInv, Stage
  <2>4. StatusIsMine(f, m)'
    BY <1>1, <1>2, <1>3, <1>4, <1>5, <1>6 DEF WorkflowInv, Alone, Stage, StatusIsMine
  <2>5. QED BY <2>1, <2>2, <2>3, <2>4
<1>9. Alone' /\ \A f \in Executions : Reported(f)'
  BY <1>1 DEF WorkflowInv, Alone, Reported
<1>10. QED BY <1>7, <1>8, <1>9 DEF WorkflowInv

\* A worker looks whether the node healed itself.
LEMMA CheckInv ==
  ASSUME WorkflowInv, NEW e \in Executions, NEW n \in Nodes, Check(e, n)
  PROVE  WorkflowInv'
<1>1. UNCHANGED <<deps, status, phase, done, completed, healed, failed, skipped, success, body>>
  BY DEF Check
<1>2. /\ pc' \in [Executions -> [Nodes -> Places]]
      /\ pc[e][n] = "returned"
      /\ pc'[e][n] = IF status[n] = "HEALED" THEN "ended" ELSE "completing"
      /\ \A f \in Executions, m \in Nodes :
           f # e \/ m # n => pc'[f][m] = pc[f][m]
  BY MovesOne DEF Check, WorkflowInv, Places
<1>3. phase[e] = "running" /\ n \notin done[e]
  BY <1>2 DEF WorkflowInv, Position
<1>4. /\ body[e][n] \in {"returned", "healed"}
      /\ status[n] = "HEALED" <=> body[e][n] = "healed"
  BY <1>2, <1>3 DEF WorkflowInv, Stage, StatusIsMine
<1>5. Typed'
  BY <1>1, <1>2 DEF WorkflowInv, Typed
<1>6. ASSUME NEW f \in Executions, NEW m \in Nodes
      PROVE  Position(f, m)' /\ Ready(f, m)' /\ Stage(f, m)' /\ StatusIsMine(f, m)'
  <2>1. Position(f, m)'
    BY <1>1, <1>2, <1>3 DEF WorkflowInv, Position
  <2>2. Ready(f, m)'
    BY <1>1, <1>2 DEF WorkflowInv, Ready
  <2>3. Stage(f, m)'
    BY <1>1, <1>2, <1>4 DEF WorkflowInv, Stage
  <2>4. StatusIsMine(f, m)'
    BY <1>1, <1>2, <1>4, <1>3 DEF WorkflowInv, Alone, Stage, StatusIsMine
  <2>5. QED BY <2>1, <2>2, <2>3, <2>4
<1>7. Alone' /\ \A f \in Executions : Reported(f)'
  BY <1>1 DEF WorkflowInv, Alone, Reported
<1>8. QED BY <1>5, <1>6, <1>7 DEF WorkflowInv

\* as_completed delivers a node, and it is listed by its status.
LEMMA CollectInv ==
  ASSUME WorkflowInv, NEW e \in Executions, NEW n \in Nodes, Collect(e, n)
  PROVE  WorkflowInv'
<1>1. UNCHANGED <<deps, status, phase, done, skipped, success, body>>
  BY DEF Collect
<1>2. /\ pc' \in [Executions -> [Nodes -> Places]]
      /\ pc[e][n] = "ended" /\ pc'[e][n] = "collected"
      /\ \A f \in Executions, m \in Nodes :
           f # e \/ m # n => pc'[f][m] = pc[f][m]
  BY MovesOne DEF Collect, WorkflowInv, Places
<1>3. phase[e] = "running" /\ n \notin done[e]
  BY <1>2 DEF WorkflowInv, Position
<1>4. /\ body[e][n] = "returned" <=> status[n] = "COMPLETED"
      /\ body[e][n] = "healed" <=> status[n] = "HEALED"
      /\ body[e][n] = "raised" <=> status[n] = "FAILED"
  <2>1. body[e][n] \in {"returned", "healed", "raised"}
    <3>1. body[e][n] \in {"none", "returned", "healed", "raised"}
      BY DEF WorkflowInv, Typed
    <3>2. QED BY <1>2, <3>1 DEF WorkflowInv, Stage
  <2>2. /\ body[e][n] = "returned" => status[n] = "COMPLETED"
        /\ body[e][n] = "healed" => status[n] = "HEALED"
        /\ body[e][n] = "raised" => status[n] = "FAILED"
    BY <1>2, <1>3 DEF WorkflowInv, StatusIsMine
  <2>3. QED BY <2>1, <2>2
<1>5. /\ completed' \in [Executions -> SUBSET Nodes]
      /\ healed' \in [Executions -> SUBSET Nodes]
      /\ failed' \in [Executions -> SUBSET Nodes]
      /\ \A f \in Executions, m \in Nodes :
           /\ m \in completed'[f] <=>
                m \in completed[f] \/ (f = e /\ m = n /\ body[e][n] = "returned")
           /\ m \in healed'[f] <=>
                m \in healed[f] \/ (f = e /\ m = n /\ body[e][n] = "healed")
           /\ m \in failed'[f] <=>
                m \in failed[f] \/ (f = e /\ m = n /\ body[e][n] = "raised")
  BY <1>4 DEF Collect, WorkflowInv, Typed
<1>6. Typed'
  BY <1>1, <1>2, <1>5 DEF WorkflowInv, Typed
<1>7. ASSUME NEW f \in Executions, NEW m \in Nodes
      PROVE  Position(f, m)' /\ Ready(f, m)' /\ Stage(f, m)' /\ StatusIsMine(f, m)'
  <2>1. Position(f, m)'
    BY <1>1, <1>2, <1>3 DEF WorkflowInv, Position
  <2>2. Ready(f, m)'
    BY <1>1, <1>2 DEF WorkflowInv, Ready
  <2>3. Stage(f, m)'
    <3>1. Stage(f, m) /\ body[f][m] \in {"none", "returned", "healed", "raised"}
      BY DEF WorkflowInv, Typed
    <3>2. CASE f # e \/ m # n
      BY <1>1, <1>2, <1>5, <3>1, <3>2 DEF Stage
    <3>3. CASE f = e /\ m = n
      BY <1>1, <1>2, <1>5, <3>1, <3>3 DEF Stage
    <3>4. QED BY <3>2, <3>3
  <2>4. StatusIsMine(f, m)'
    BY <1>1, <1>2, <1>3 DEF WorkflowInv, Alone, Stage, StatusIsMine
  <2>5. QED BY <2>1, <2>2, <2>3, <2>4
<1>8. Alone' /\ \A f \in Executions : Reported(f)'
  BY <1>1 DEF WorkflowInv, Alone, Reported
<1>9. QED BY <1>6, <1>7, <1>8 DEF WorkflowInv

\* The pool of a batch closes, and the next batch begins.
LEMMA CloseBatchInv ==
  ASSUME WorkflowInv, NEW e \in Executions, CloseBatch(e)
  PROVE  WorkflowInv'
<1>1. /\ phase[e] = "running"
      /\ UNCHANGED <<deps, status, phase, pc, lists, success, body>>
  BY DEF CloseBatch
<1>2. /\ done' \in [Executions -> SUBSET Nodes]
      /\ \A f \in Executions : f # e => done'[f] = done[f]
      /\ done[e] \subseteq done'[e]
      /\ \A n \in done'[e] : n \in done[e] \/ pc[e][n] \in {"collected", "skipped"}
  BY DEF CloseBatch, Batch, NextBatch, WorkflowInv, Typed
<1>3. Typed'
  BY <1>1, <1>2 DEF WorkflowInv, Typed
<1>4. ASSUME NEW f \in Executions, NEW n \in Nodes
      PROVE  Position(f, n)' /\ Ready(f, n)' /\ Stage(f, n)' /\ StatusIsMine(f, n)'
  <2>1. Position(f, n)'
    BY <1>1, <1>2 DEF WorkflowInv, Position
  <2>2. Ready(f, n)' /\ Stage(f, n)' /\ StatusIsMine(f, n)'
    BY <1>1 DEF WorkflowInv, Ready, Stage, StatusIsMine
  <2>3. QED BY <2>1, <2>2
<1>5. Alone' /\ \A f \in Executions : Reported(f)'
  BY <1>1 DEF WorkflowInv, Alone, Reported
<1>6. QED BY <1>3, <1>4, <1>5 DEF WorkflowInv

\* The last batch is closed and the result is returned.
LEMMA ConcludeInv ==
  ASSUME WorkflowInv, NEW e \in Executions, Conclude(e)
  PROVE  WorkflowInv'
<1>1. /\ phase[e] = "running" /\ done[e] = Nodes
      /\ UNCHANGED <<deps, status, done, pc, lists, body>>
  BY DEF Conclude
<1>2. /\ phase' \in [Executions -> {"new", "running", "done", "rejected"}]
      /\ success' \in [Executions -> {"none", "success", "failure"}]
      /\ phase'[e] = "done" /\ success'[e] # "none"
      /\ \A f \in Executions : f # e => phase'[f] = phase[f] /\ success'[f] = success[f]
  BY DEF Conclude, WorkflowInv, Typed
<1>3. Typed'
  BY <1>1, <1>2 DEF WorkflowInv, Typed
<1>4. ASSUME NEW f \in Executions, NEW n \in Nodes
      PROVE  Position(f, n)' /\ Ready(f, n)' /\ Stage(f, n)' /\ StatusIsMine(f, n)'
  <2>1. Position(f, n)'
    BY <1>1, <1>2 DEF WorkflowInv, Position
  <2>2. Ready(f, n)' /\ Stage(f, n)' /\ StatusIsMine(f, n)'
    BY <1>1, <1>2 DEF WorkflowInv, Ready, Stage, StatusIsMine
  <2>3. QED BY <2>1, <2>2
<1>5. Alone' /\ \A f \in Executions : Reported(f)'
  BY <1>1, <1>2 DEF WorkflowInv, Alone, Reported
<1>6. QED BY <1>3, <1>4, <1>5 DEF WorkflowInv

\* The inductive invariant of executions that do not overlap.
THEOREM Invariance ==
  ASSUME ~Overlap
  PROVE  Safety => []WorkflowInv
<1>1. ASSUME WorkflowInv, [Next]_vars
      PROVE  WorkflowInv'
  <2>1. CASE UNCHANGED vars
    BY <1>1, <2>1 DEF vars, WorkflowInv, Typed, Alone, Reported, Position, Ready, Stage,
                      StatusIsMine
  <2>2. ASSUME NEW e \in Executions, Begin(e) PROVE WorkflowInv'
    BY <1>1, <2>2, BeginInv
  <2>3. ASSUME NEW e \in Executions, CloseBatch(e) PROVE WorkflowInv'
    BY <1>1, <2>3, CloseBatchInv
  <2>4. ASSUME NEW e \in Executions, Conclude(e) PROVE WorkflowInv'
    BY <1>1, <2>4, ConcludeInv
  <2>5. ASSUME NEW e \in Executions, NEW n \in Nodes, Handle(e, n) PROVE WorkflowInv'
    BY <1>1, <2>5, ExamineInv, CollectInv, StartInv, ReturnInv, RaiseInv, CheckInv,
       CompleteInv DEF Handle
  <2>6. QED BY <1>1, <2>1, <2>2, <2>3, <2>4, <2>5 DEF Next, Progress
<1>2. QED BY <1>1, InitInv, PTL DEF Safety

\* The pool of an execution is never exceeded.
WithinPool == \A e \in Executions : Cardinality(Busy(e)) <= MaxWorkers

LEMMA PoolKept ==
  ASSUME WorkflowInv, WithinPool, [Next]_vars
  PROVE  WithinPool'
<1>1. SUFFICES ASSUME NEW f \in Executions PROVE Cardinality(Busy(f)') <= MaxWorkers
  BY DEF WithinPool
<1>2. IsFiniteSet(Busy(f)) /\ Cardinality(Busy(f)) \in Nat /\ Cardinality(Busy(f)) <= MaxWorkers
  <2>1. IsFiniteSet(Nodes) /\ Busy(f) \subseteq Nodes
    BY WorkflowAssumption DEF Busy
  <2>2. QED BY <2>1, FS_Subset, FS_CardinalityType DEF WithinPool
<1>3. CASE Busy(f)' \subseteq Busy(f)
  <2>1. Cardinality(Busy(f)') <= Cardinality(Busy(f)) /\ Cardinality(Busy(f)') \in Nat
    BY <1>2, <1>3, FS_Subset, FS_CardinalityType
  <2>2. QED BY <1>2, <2>1, WorkflowAssumption
<1>4. ASSUME NEW e \in Executions, NEW n \in Nodes, Start(e, n)
      PROVE  Cardinality(Busy(f)') <= MaxWorkers
  <2>1. /\ \A g \in Executions, m \in Nodes : g # e \/ m # n => pc'[g][m] = pc[g][m]
        /\ pc[e][n] = "queued"
    BY <1>4, MovesOne DEF Start, WorkflowInv, Places
  <2>2. CASE f # e
    <3>1. Busy(f)' \subseteq Busy(f)
      BY <2>1, <2>2 DEF Busy
    <3>2. QED BY <1>3, <3>1
  <2>3. CASE f = e
    <3>1. Cardinality(Busy(f)) < MaxWorkers
      BY <1>4, <2>3 DEF Start, FreeWorker
    <3>2. Busy(f)' \subseteq Busy(f) \cup {n}
      BY <2>1, <2>3 DEF Busy
    <3>3. /\ IsFiniteSet(Busy(f) \cup {n})
          /\ Cardinality(Busy(f) \cup {n}) \in {Cardinality(Busy(f)), Cardinality(Busy(f)) + 1}
      BY <1>2, FS_AddElement
    <3>4. /\ Cardinality(Busy(f)') <= Cardinality(Busy(f) \cup {n})
          /\ Cardinality(Busy(f)') \in Nat
      BY <3>2, <3>3, FS_Subset, FS_CardinalityType
    <3>5. QED BY <1>2, <3>1, <3>3, <3>4, WorkflowAssumption
  <2>4. QED BY <2>2, <2>3
<1>5. ASSUME NEW e \in Executions, NEW n \in Nodes,
             Return(e, n) \/ Raise(e, n) \/ Check(e, n) \/ Complete(e, n)
             \/ Examine(e, n) \/ Collect(e, n)
      PROVE  Busy(f)' \subseteq Busy(f)
  <2>1. PICK from \in Places, to \in Places :
          /\ Moves(e, n, from, to)
          /\ to \in {"running", "returned", "completing"} =>
               from \in {"running", "returned", "completing"}
    BY <1>5 DEF Return, Raise, Check, Complete, Examine, Collect, Places
  <2>2. /\ pc[e][n] = from /\ pc'[e][n] = to
        /\ \A g \in Executions, m \in Nodes : g # e \/ m # n => pc'[g][m] = pc[g][m]
    BY <2>1, MovesOne DEF WorkflowInv
  <2>3. QED BY <2>1, <2>2 DEF Busy
<1>6. ASSUME UNCHANGED pc PROVE Busy(f)' \subseteq Busy(f)
  BY <1>6 DEF Busy
<1>7. QED
  BY <1>3, <1>4, <1>5, <1>6
     DEF Next, Progress, Handle, Begin, CloseBatch, Conclude, vars

\* WorkflowTypeOK: type correctness, and at most max_workers bodies at once.
THEOREM TypeCorrect ==
  ASSUME ~Overlap
  PROVE  Safety => []WorkflowTypeOK
<1>1. Init => WithinPool
  <2>1. ASSUME Init, NEW e \in Executions PROVE Busy(e) = {}
    BY <2>1 DEF Init, Busy, Each, EachNode
  <2>2. QED BY <2>1, FS_EmptySet, WorkflowAssumption DEF WithinPool
<1>2. WorkflowInv /\ WithinPool => WorkflowTypeOK
  BY DEF WorkflowInv, WithinPool, Typed, WorkflowTypeOK
<1>3. QED BY <1>1, <1>2, PoolKept, Invariance, PTL DEF Safety

\* ReportIsTrue: the lists of a finished execution say of every node how its
\* body ended in that execution.
THEOREM ReportsAreTrue ==
  ASSUME ~Overlap
  PROVE  Safety => []ReportIsTrue
<1>1. ASSUME WorkflowInv, NEW e \in Executions, phase[e] = "done"
      PROVE  /\ completed[e] = {n \in Nodes : body[e][n] = "returned"}
             /\ healed[e] = {n \in Nodes : body[e][n] = "healed"}
             /\ failed[e] = {n \in Nodes : body[e][n] = "raised"}
             /\ skipped[e] = {n \in Nodes : body[e][n] = "none"}
  <2>1. ASSUME NEW n \in Nodes
        PROVE  pc[e][n] \in {"collected", "skipped"} /\ Stage(e, n)
    BY <1>1 DEF WorkflowInv, Position
  <2>2. /\ completed[e] \subseteq Nodes /\ healed[e] \subseteq Nodes
        /\ failed[e] \subseteq Nodes /\ skipped[e] \subseteq Nodes
    BY <1>1 DEF WorkflowInv, Typed
  <2>3. QED BY <2>1, <2>2 DEF Stage
<1>2. WorkflowInv => ReportIsTrue
  BY <1>1 DEF ReportIsTrue
<1>3. QED BY <1>2, Invariance, PTL

--------------------------------------------------------------------------------
(* The schedule is implemented. *)

Outcomes == [e \in Executions |-> [n \in Nodes |-> OutcomeOf(e, n)]]

\* A step that changes what became of one node changes the mapped state there.
LEMMA OneOutcome ==
  ASSUME NEW e \in Executions, NEW n \in Nodes, NEW to,
         OutcomeOf(e, n)' = to,
         \A f \in Executions, m \in Nodes :
           f # e \/ m # n => OutcomeOf(f, m)' = OutcomeOf(f, m)
  PROVE  Outcomes' = [Outcomes EXCEPT ![e][n] = to]
BY DEF Outcomes

\* A step that changes what became of no node is invisible in the schedule.
LEMMA NoOutcome ==
  ASSUME \A f \in Executions, m \in Nodes : OutcomeOf(f, m)' = OutcomeOf(f, m)
  PROVE  Outcomes' = Outcomes
BY DEF Outcomes

\* Skipping a node is a Skip, queueing one is invisible.
LEMMA ExamineSchedules ==
  ASSUME WorkflowInv, NEW e \in Executions, NEW n \in Nodes, Examine(e, n)
  PROVE  [Schedule!Next]_(Schedule!vars)
<1>1. UNCHANGED <<deps, success, body>>
  BY DEF Examine
<1>2. CASE Moves(e, n, "waiting", "skipped") /\ BrokenDeps(n)
  <2>1. PICK d \in deps[n] : status[d] \in {"FAILED", "SKIPPED"}
    BY <1>2 DEF BrokenDeps
  <2>2. d \in done[e] /\ d \in Nodes
    BY <2>1 DEF Examine, Batch, NextBatch, WorkflowInv, Typed
  <2>3. OutcomeOf(e, d) \in {"failed", "skipped"}
    <3>1. Position(e, d) /\ Stage(e, d) /\ StatusIsMine(e, d) /\ phase[e] = "running"
      BY <2>2 DEF WorkflowInv, Examine
    <3>2. body[e][d] \in {"none", "returned", "healed", "raised"}
      BY <2>2 DEF WorkflowInv, Typed
    <3>3. QED BY <2>1, <2>2, <3>1, <3>2 DEF Position, Stage, StatusIsMine, OutcomeOf
  <2>4. Outcomes[e][n] = "waiting" /\ Outcomes' = [Outcomes EXCEPT ![e][n] = "skipped"]
    <3>1. /\ pc[e][n] = "waiting" /\ pc'[e][n] = "skipped"
          /\ \A f \in Executions, m \in Nodes : f # e \/ m # n => pc'[f][m] = pc[f][m]
      BY <1>2, MovesOne DEF WorkflowInv, Places
    <3>2. OutcomeOf(e, n)' = "skipped"
      BY <3>1 DEF OutcomeOf
    <3>3. \A f \in Executions, m \in Nodes :
            f # e \/ m # n => OutcomeOf(f, m)' = OutcomeOf(f, m)
      BY <1>1, <3>1 DEF OutcomeOf
    <3>4. Outcomes' = [Outcomes EXCEPT ![e][n] = "skipped"]
      BY <3>2, <3>3, OneOutcome
    <3>5. QED BY <3>1, <3>4 DEF Outcomes, OutcomeOf
  <2>5. Schedule!Skip(e, n)
    BY <1>1, <2>1, <2>2, <2>3, <2>4
       DEF Schedule!Skip, Schedule!Broken, Schedule!Becomes, Outcomes
  <2>6. QED BY <2>5 DEF Schedule!Next
<1>3. CASE Moves(e, n, "waiting", "queued")
  <2>1. /\ pc[e][n] = "waiting" /\ pc'[e][n] = "queued"
        /\ \A f \in Executions, m \in Nodes : f # e \/ m # n => pc'[f][m] = pc[f][m]
    BY <1>3, MovesOne DEF WorkflowInv, Places
  <2>2. Outcomes' = Outcomes
    BY <1>1, <2>1, NoOutcome DEF OutcomeOf
  <2>3. QED BY <1>1, <2>2 DEF Schedule!vars, Outcomes
<1>4. QED BY <1>2, <1>3 DEF Examine

\* A body starts when all it depends on has succeeded.
LEMMA StartSchedules ==
  ASSUME WorkflowInv, NEW e \in Executions, NEW n \in Nodes, Start(e, n)
  PROVE  [Schedule!Next]_(Schedule!vars)
<1>1. /\ pc' \in [Executions -> [Nodes -> Places]]
      /\ pc[e][n] = "queued" /\ pc'[e][n] = "running"
      /\ \A f \in Executions, m \in Nodes : f # e \/ m # n => pc'[f][m] = pc[f][m]
  BY MovesOne DEF Start, WorkflowInv, Places
<1>2. UNCHANGED <<deps, success, body>>
  BY DEF Start
<1>3. Outcomes[e][n] = "waiting" /\ Outcomes' = [Outcomes EXCEPT ![e][n] = "running"]
  <2>1. OutcomeOf(e, n)' = "running"
    BY <1>1 DEF OutcomeOf
  <2>2. \A f \in Executions, m \in Nodes :
          f # e \/ m # n => OutcomeOf(f, m)' = OutcomeOf(f, m)
    BY <1>1, <1>2 DEF OutcomeOf
  <2>3. Outcomes' = [Outcomes EXCEPT ![e][n] = "running"]
    BY <2>1, <2>2, OneOutcome
  <2>4. QED BY <1>1, <2>3 DEF Outcomes, OutcomeOf
<1>4. ASSUME NEW d \in deps[n]
      PROVE  d \in Nodes /\ Outcomes[e][d] = "succeeded"
  <2>1. d \in Nodes /\ pc[e][d] = "collected" /\ body[e][d] # "raised"
    BY <1>1 DEF WorkflowInv, Ready
  <2>2. QED BY <2>1 DEF Outcomes, OutcomeOf
<1>5. Schedule!Start(e, n)
  BY <1>2, <1>3, <1>4 DEF Schedule!Start, Schedule!Succeeded, Schedule!Becomes, Outcomes
<1>6. QED BY <1>5 DEF Schedule!Next

\* A body that raises has failed.
LEMMA RaiseSchedules ==
  ASSUME WorkflowInv, NEW e \in Executions, NEW n \in Nodes, Raise(e, n)
  PROVE  [Schedule!Next]_(Schedule!vars)
<1>1. /\ pc' \in [Executions -> [Nodes -> Places]]
      /\ pc[e][n] = "running" /\ pc'[e][n] = "ended"
      /\ \A f \in Executions, m \in Nodes : f # e \/ m # n => pc'[f][m] = pc[f][m]
  BY MovesOne DEF Raise, WorkflowInv, Places
<1>2. UNCHANGED <<deps, success>>
  BY DEF Raise
<1>3. /\ body'[e][n] = "raised"
      /\ \A f \in Executions, m \in Nodes : f # e \/ m # n => body'[f][m] = body[f][m]
  BY DEF Raise, WorkflowInv, Typed
<1>4. Outcomes[e][n] = "running" /\ Outcomes' = [Outcomes EXCEPT ![e][n] = "failed"]
  <2>1. OutcomeOf(e, n)' = "failed"
    BY <1>1, <1>3 DEF OutcomeOf
  <2>2. \A f \in Executions, m \in Nodes :
          f # e \/ m # n => OutcomeOf(f, m)' = OutcomeOf(f, m)
    BY <1>1, <1>3 DEF OutcomeOf
  <2>3. Outcomes' = [Outcomes EXCEPT ![e][n] = "failed"]
    BY <2>1, <2>2, OneOutcome
  <2>4. QED BY <1>1, <2>3 DEF Outcomes, OutcomeOf
<1>5. Schedule!Finish(e, n, "failed")
  BY <1>2, <1>4 DEF Schedule!Finish, Schedule!Becomes, Outcomes
<1>6. QED BY <1>5 DEF Schedule!Next, Schedule!Outcome

\* A body that returns has succeeded, healed or not.
LEMMA ReturnSchedules ==
  ASSUME WorkflowInv, NEW e \in Executions, NEW n \in Nodes, Return(e, n)
  PROVE  [Schedule!Next]_(Schedule!vars)
<1>1. /\ pc' \in [Executions -> [Nodes -> Places]]
      /\ pc[e][n] = "running" /\ pc'[e][n] = "returned"
      /\ \A f \in Executions, m \in Nodes : f # e \/ m # n => pc'[f][m] = pc[f][m]
  BY MovesOne DEF Return, WorkflowInv, Places
<1>2. UNCHANGED <<deps, success>>
  BY DEF Return
<1>3. /\ body'[e][n] \in {"returned", "healed"}
      /\ \A f \in Executions, m \in Nodes : f # e \/ m # n => body'[f][m] = body[f][m]
  <2>1. PICK b \in {"returned", "healed"} : body' = [body EXCEPT ![e][n] = b]
    BY DEF Return
  <2>2. QED BY <2>1 DEF WorkflowInv, Typed
<1>4. Outcomes[e][n] = "running" /\ Outcomes' = [Outcomes EXCEPT ![e][n] = "succeeded"]
  <2>1. OutcomeOf(e, n)' = "succeeded"
    BY <1>1, <1>3 DEF OutcomeOf
  <2>2. \A f \in Executions, m \in Nodes :
          f # e \/ m # n => OutcomeOf(f, m)' = OutcomeOf(f, m)
    BY <1>1, <1>3 DEF OutcomeOf
  <2>3. Outcomes' = [Outcomes EXCEPT ![e][n] = "succeeded"]
    BY <2>1, <2>2, OneOutcome
  <2>4. QED BY <1>1, <2>3 DEF Outcomes, OutcomeOf
<1>5. Schedule!Finish(e, n, "succeeded")
  BY <1>2, <1>4 DEF Schedule!Finish, Schedule!Becomes, Outcomes
<1>6. QED BY <1>5 DEF Schedule!Next, Schedule!Outcome

\* What a worker and the calling thread do with an ended body is invisible.
LEMMA SettleSchedules ==
  ASSUME WorkflowInv, NEW e \in Executions, NEW n \in Nodes,
         Check(e, n) \/ Complete(e, n) \/ Collect(e, n)
  PROVE  [Schedule!Next]_(Schedule!vars)
<1>1. /\ pc[e][n] \in {"returned", "completing", "ended"}
      /\ pc'[e][n] \in {"completing", "ended", "collected"}
      /\ \A f \in Executions, m \in Nodes : f # e \/ m # n => pc'[f][m] = pc[f][m]
  <2>1. PICK from \in {"returned", "completing", "ended"},
             to \in {"completing", "ended", "collected"} : Moves(e, n, from, to)
    BY DEF Check, Complete, Collect
  <2>2. QED BY <2>1, MovesOne DEF WorkflowInv, Places
<1>2. UNCHANGED <<deps, success, body>>
  BY DEF Check, Complete, Collect
<1>3. Outcomes' = Outcomes
  BY <1>1, <1>2, NoOutcome DEF OutcomeOf
<1>4. QED BY <1>2, <1>3 DEF Schedule!vars, Outcomes

\* The result of a finished execution is a Publish.
LEMMA ConcludeSchedules ==
  ASSUME WorkflowInv, NEW e \in Executions, Conclude(e)
  PROVE  [Schedule!Next]_(Schedule!vars)
<1>1. UNCHANGED <<deps, pc, body>> /\ done[e] = Nodes /\ phase[e] = "running"
  BY DEF Conclude
<1>2. Outcomes' = Outcomes
  BY <1>1, NoOutcome DEF OutcomeOf
<1>3. success[e] = "none"
  BY <1>1 DEF WorkflowInv, Reported
<1>4. ASSUME NEW n \in Nodes
      PROVE  /\ Outcomes[e][n] \in {"succeeded", "failed", "skipped"}
             /\ Outcomes[e][n] # "succeeded" <=> n \in failed[e] \/ n \in skipped[e]
  <2>1. pc[e][n] \in {"collected", "skipped"} /\ Stage(e, n)
    BY <1>1 DEF WorkflowInv, Position
  <2>2. QED BY <2>1 DEF Stage, Outcomes, OutcomeOf
<1>5. failed[e] = {} /\ skipped[e] = {} <=> \A n \in Nodes : Outcomes[e][n] = "succeeded"
  BY <1>4 DEF WorkflowInv, Typed
<1>6. success' = [success EXCEPT ![e] =
                    IF {n \in Nodes : Outcomes[e][n] = "succeeded"} = Nodes
                    THEN "success" ELSE "failure"]
  BY <1>5 DEF Conclude
<1>7. Schedule!Publish(e)
  BY <1>1, <1>2, <1>3, <1>4, <1>6
     DEF Schedule!Publish, Schedule!Succeeded, Schedule!Broken, Outcomes
<1>8. QED BY <1>7 DEF Schedule!Next

\* Beginning an execution and closing a batch are invisible.
LEMMA SilentSchedules ==
  ASSUME NEW e \in Executions, Begin(e) \/ CloseBatch(e)
  PROVE  [Schedule!Next]_(Schedule!vars)
<1>1. UNCHANGED <<deps, pc, body, success>>
  BY DEF Begin, CloseBatch
<1>2. Outcomes' = Outcomes
  BY <1>1, NoOutcome DEF OutcomeOf
<1>3. QED BY <1>1, <1>2 DEF Schedule!vars, Outcomes

\* Every step of an execution is a step of the schedule, or invisible there.
LEMMA StepSchedules ==
  ASSUME WorkflowInv, [Next]_vars
  PROVE  [Schedule!Next]_(Schedule!vars)
<1>1. CASE UNCHANGED vars
  <2>1. UNCHANGED <<deps, pc, body, success>>
    BY <1>1 DEF vars
  <2>2. Outcomes' = Outcomes
    BY <2>1, NoOutcome DEF OutcomeOf
  <2>3. QED BY <2>1, <2>2 DEF Schedule!vars, Outcomes
<1>2. ASSUME NEW e \in Executions, Begin(e) \/ CloseBatch(e)
      PROVE  [Schedule!Next]_(Schedule!vars)
  BY <1>2, SilentSchedules
<1>3. ASSUME NEW e \in Executions, Conclude(e)
      PROVE  [Schedule!Next]_(Schedule!vars)
  BY <1>3, ConcludeSchedules
<1>4. ASSUME NEW e \in Executions, NEW n \in Nodes, Handle(e, n)
      PROVE  [Schedule!Next]_(Schedule!vars)
  BY <1>4, ExamineSchedules, StartSchedules, ReturnSchedules, RaiseSchedules,
     SettleSchedules DEF Handle
<1>5. QED BY <1>1, <1>2, <1>3, <1>4 DEF Next, Progress

LEMMA InitSchedules == Init => Schedule!Init
BY DEF Init, Schedule!Init, OutcomeOf, Each, EachNode

\* ImplementsSchedule: batches, shared statuses and threads implement the
\* schedule, for every graph and number of workers, as long as executions of
\* the same DAG do not overlap.
THEOREM Implementation ==
  ASSUME ~Overlap
  PROVE  Safety => ImplementsSchedule
BY InitSchedules, StepSchedules, Invariance, PTL
   DEF Safety, ImplementsSchedule, Schedule!Spec

--------------------------------------------------------------------------------
(* Failures cascade: an invariant of the schedule, seen through the mapping. *)

\* A node is upstream of what depends on it, and so is all that is upstream of it.
LEMMA UpstreamFacts ==
  ASSUME NEW n \in Nodes, NEW d \in deps[n], d \in Nodes
  PROVE  d \in Upstream(n) /\ Upstream(d) \subseteq Upstream(n)
<1>1. ASSUME NEW S \in SUBSET Nodes, deps[n] \subseteq S, \A x \in S : deps[x] \subseteq S
      PROVE  d \in S /\ deps[d] \subseteq S
  BY <1>1
<1>2. QED BY <1>1 DEF Upstream

\* A set that holds what n depends on, and what its members do, holds all upstream of n.
LEMMA UpstreamInside ==
  ASSUME NEW n \in Nodes, NEW S \in SUBSET Nodes,
         deps[n] \subseteq S, \A x \in S : deps[x] \subseteq S
  PROVE  Upstream(n) \subseteq S
BY DEF Upstream

\* What is skipped has a failure upstream; what was started depends on nothing else
\* than successes.
Caused ==
  \A e \in Executions, n \in Nodes :
    Outcomes[e][n] = "skipped" => \E m \in Upstream(n) : Outcomes[e][m] = "failed"

Grounded ==
  \A e \in Executions, n \in Nodes :
    Outcomes[e][n] \in {"running", "succeeded", "failed"} =>
      deps[n] \subseteq {d \in Nodes : Outcomes[e][d] = "succeeded"}

LEMMA OutcomesTyped ==
  DOMAIN Outcomes = Executions /\ \A e \in Executions : DOMAIN Outcomes[e] = Nodes
BY DEF Outcomes

\* When one outcome changes, to an end that it keeps, the causes of others remain.
LEMMA CauseStays ==
  ASSUME Caused, NEW e \in Executions, NEW n \in Nodes, deps' = deps,
         Outcomes[e][n] \in {"waiting", "running"}, NEW to,
         Outcomes' = [Outcomes EXCEPT ![e][n] = to],
         to = "skipped" => \E m \in Upstream(n) : Outcomes[e][m] = "failed"
  PROVE  Caused'
<1>1. \A f \in Executions, m \in Nodes :
        Outcomes'[f][m] = IF f = e /\ m = n THEN to ELSE Outcomes[f][m]
  BY OutcomesTyped
<1>2. \A m : Upstream(m)' = Upstream(m)
  BY DEF Upstream
<1>3. \A m \in Nodes : Upstream(m) \subseteq Nodes
  BY DEF Upstream
<1>4. ASSUME NEW f \in Executions, NEW m \in Nodes, Outcomes'[f][m] = "skipped"
      PROVE  \E u \in Upstream(m) : Outcomes'[f][u] = "failed"
  <2>1. PICK u \in Upstream(m) : Outcomes[f][u] = "failed"
    BY <1>1, <1>4 DEF Caused
  <2>2. Outcomes'[f][u] = Outcomes[f][u]
    BY <1>1, <1>3, <2>1
  <2>3. QED BY <2>1, <2>2
<1>5. QED BY <1>2, <1>4 DEF Caused

LEMMA GroundStays ==
  ASSUME Grounded, NEW e \in Executions, NEW n \in Nodes, deps' = deps,
         Outcomes[e][n] \in {"waiting", "running"}, NEW to,
         Outcomes' = [Outcomes EXCEPT ![e][n] = to],
         to \in {"running", "succeeded", "failed"} =>
           deps[n] \subseteq {d \in Nodes : Outcomes[e][d] = "succeeded"}
  PROVE  Grounded'
<1>1. \A f \in Executions, m \in Nodes :
        Outcomes'[f][m] = IF f = e /\ m = n THEN to ELSE Outcomes[f][m]
  BY OutcomesTyped
<1>2. ASSUME NEW f \in Executions, NEW m \in Nodes,
             Outcomes'[f][m] \in {"running", "succeeded", "failed"}, NEW d \in deps[m]
      PROVE  d \in Nodes /\ Outcomes'[f][d] = "succeeded"
  <2>1. d \in Nodes /\ Outcomes[f][d] = "succeeded"
    BY <1>1, <1>2 DEF Grounded
  <2>2. QED BY <1>1, <2>1
<1>3. QED BY <1>2 DEF Grounded

LEMMA CascadeStep ==
  ASSUME Caused, Grounded, [Schedule!Next]_(Schedule!vars)
  PROVE  Caused' /\ Grounded'
<1>1. CASE UNCHANGED <<deps, Outcomes>>
  <2>1. \A m : Upstream(m)' = Upstream(m)
    BY <1>1 DEF Upstream
  <2>2. QED BY <1>1, <2>1 DEF Caused, Grounded
<1>2. ASSUME NEW e \in Executions, NEW n \in Nodes, NEW to,
             Schedule!Becomes(e, n, "waiting", to) \/ Schedule!Becomes(e, n, "running", to)
      PROVE  /\ Outcomes[e][n] \in {"waiting", "running"} /\ deps' = deps
             /\ Outcomes' = [Outcomes EXCEPT ![e][n] = to]
  BY <1>2 DEF Schedule!Becomes, Outcomes
<1>3. ASSUME NEW e \in Executions, NEW n \in Nodes, Schedule!Start(e, n)
      PROVE  Caused' /\ Grounded'
  <2>1. deps[n] \subseteq {d \in Nodes : Outcomes[e][d] = "succeeded"}
    BY <1>3 DEF Schedule!Start, Schedule!Succeeded, Outcomes
  <2>2. Schedule!Becomes(e, n, "waiting", "running")
    BY <1>3 DEF Schedule!Start
  <2>3. QED BY <1>2, <2>1, <2>2, CauseStays, GroundStays
<1>4. ASSUME NEW e \in Executions, NEW n \in Nodes, NEW to, Schedule!Finish(e, n, to)
      PROVE  Caused' /\ Grounded'
  <2>1. Schedule!Becomes(e, n, "running", to) /\ to # "skipped" /\ Outcomes[e][n] = "running"
    BY <1>4 DEF Schedule!Finish, Schedule!Becomes, Outcomes
  <2>2. deps[n] \subseteq {d \in Nodes : Outcomes[e][d] = "succeeded"}
    BY <2>1 DEF Grounded
  <2>3. QED BY <1>2, <2>1, <2>2, CauseStays, GroundStays
<1>5. ASSUME NEW e \in Executions, NEW n \in Nodes, Schedule!Skip(e, n)
      PROVE  Caused' /\ Grounded'
  <2>1. PICK d \in deps[n] : d \in Nodes /\ Outcomes[e][d] \in {"failed", "skipped"}
    BY <1>5 DEF Schedule!Skip, Schedule!Broken, Outcomes
  <2>2. d \in Upstream(n) /\ Upstream(d) \subseteq Upstream(n)
    BY <2>1, UpstreamFacts
  <2>3. \E m \in Upstream(n) : Outcomes[e][m] = "failed"
    BY <2>1, <2>2 DEF Caused
  <2>4. Schedule!Becomes(e, n, "waiting", "skipped")
    BY <1>5 DEF Schedule!Skip
  <2>5. QED BY <1>2, <2>3, <2>4, CauseStays, GroundStays
<1>6. ASSUME NEW e \in Executions, Schedule!Publish(e)
      PROVE  UNCHANGED <<deps, Outcomes>>
  BY <1>6 DEF Schedule!Publish, Outcomes
<1>7. UNCHANGED Schedule!vars => UNCHANGED <<deps, Outcomes>>
  BY DEF Schedule!vars, Outcomes
<1>8. QED BY <1>1, <1>3, <1>4, <1>5, <1>6, <1>7 DEF Schedule!Next

\* FailuresCascade: in a finished execution, exactly the nodes with a failure upstream,
\* at any distance, were skipped.
THEOREM FailureCascades ==
  ASSUME ~Overlap
  PROVE  Safety => []FailuresCascade
<1>1. Init => Caused /\ Grounded
  BY DEF Init, Caused, Grounded, Outcomes, OutcomeOf, Each, EachNode
<1>2. WorkflowInv /\ Caused /\ Grounded /\ [Next]_vars => Caused' /\ Grounded'
  BY StepSchedules, CascadeStep
<1>3. WorkflowInv /\ Caused /\ Grounded => FailuresCascade
  <2>1. SUFFICES ASSUME WorkflowInv, Caused, Grounded,
                        NEW e \in Executions, NEW n \in Nodes, phase[e] = "done"
                 PROVE  n \in skipped[e] <=> \E m \in Upstream(n) : body[e][m] = "raised"
    BY DEF FailuresCascade
  <2>2. \A m \in Nodes :
          /\ pc[e][m] \in {"collected", "skipped"} /\ Stage(e, m)
          /\ body[e][m] \in {"none", "returned", "healed", "raised"}
    BY <2>1 DEF WorkflowInv, Position, Typed
  <2>3. \A m \in Nodes :
          /\ m \in skipped[e] <=> Outcomes[e][m] = "skipped"
          /\ body[e][m] = "raised" <=> Outcomes[e][m] = "failed"
          /\ Outcomes[e][m] \in {"succeeded", "failed", "skipped"}
    BY <2>2 DEF Stage, Outcomes, OutcomeOf
  <2>4. Upstream(n) \subseteq Nodes
    BY DEF Upstream
  <2>5. CASE n \in skipped[e]
    BY <2>1, <2>3, <2>4, <2>5 DEF Caused
  <2>6. CASE n \notin skipped[e]
    <3>1. Upstream(n) \subseteq {d \in Nodes : Outcomes[e][d] = "succeeded"}
      BY <2>1, <2>3, <2>6, UpstreamInside DEF Grounded
    <3>2. QED BY <2>3, <2>4, <2>6, <3>1
  <2>7. QED BY <2>5, <2>6
<1>4. QED BY <1>1, <1>2, <1>3, Invariance, PTL DEF Safety

--------------------------------------------------------------------------------
(* The order of batches: get_topological_batches finds one for every graph that has *)
(* any, and then no execution runs out of nodes to submit.                          *)

\* The natural numbers have least elements.
LEMMA Least ==
  ASSUME NEW T, T \subseteq Nat, T # {}
  PROVE  \E x \in T : \A y \in T : x <= y
<1> DEFINE R == OpToRel(<, Nat)
<1>1. \A y, x \in T : y < x => <<y, x>> \in R
  BY DEF OpToRel
<1>2. IsWellFoundedOn(R, Nat)
  BY NatLessThanWellFounded
<1> HIDE DEF R
<1>3. PICK x \in T : \A y \in T : ~ (<<y, x>> \in R)
  BY <1>2, WFMin
<1>4. \A y \in T : ~ (y < x)
  BY <1>1, <1>3
<1> QED BY <1>4

\* The first batches up to the one numbered n.
FirstLayers(n, g) ==
  /\ g \in [0 .. n -> SUBSET Nodes] /\ g[0] = {}
  /\ \A k \in 1 .. n : g[k] = g[k - 1] \cup NextBatch(g[k - 1])

LEMMA FirstLayersExist ==
  ASSUME NEW n \in Nat
  PROVE  \E g : FirstLayers(n, g)
<1> DEFINE Without == {k \in Nat : ~ \E g : FirstLayers(k, g)}
<1> SUFFICES ASSUME Without # {} PROVE FALSE
  OBVIOUS
<1>1. PICK k \in Without : \A j \in Without : k <= j
  <2>1. Without \subseteq Nat
    OBVIOUS
  <2> HIDE DEF Without
  <2> QED BY <2>1, Least
<1>2. k # 0
  <2>1. FirstLayers(0, [i \in 0 .. 0 |-> {}])
    BY DEF FirstLayers
  <2> QED BY <2>1
<1>3. k - 1 \in Nat /\ k - 1 \notin Without
  <2>1. k - 1 \in Nat /\ ~ (k <= k - 1)
    BY <1>2
  <2> HIDE DEF Without
  <2> QED BY <1>1, <2>1
<1>4. PICK g : FirstLayers(k - 1, g)
  BY <1>3
<1> DEFINE h == [i \in 0 .. k |-> IF i = k THEN g[k - 1] \cup NextBatch(g[k - 1]) ELSE g[i]]
<1>5. \A i \in 0 .. k - 1 : h[i] = g[i] /\ g[i] \in SUBSET Nodes
  BY <1>3, <1>4 DEF FirstLayers
<1>6. h[k] = h[k - 1] \cup NextBatch(h[k - 1])
  BY <1>3, <1>5
<1>7. NextBatch(g[k - 1]) \subseteq Nodes
  BY DEF NextBatch
<1>8. h \in [0 .. k -> SUBSET Nodes]
  <2>1. k - 1 \in 0 .. k - 1 /\ \A i \in 0 .. k : i = k \/ i \in 0 .. k - 1
    BY <1>3
  <2>2. \A i \in 0 .. k :
          (IF i = k THEN g[k - 1] \cup NextBatch(g[k - 1]) ELSE g[i]) \in SUBSET Nodes
    BY <1>5, <1>7, <2>1
  <2> QED BY <2>2
<1>9. ASSUME NEW i \in 1 .. k PROVE h[i] = h[i - 1] \cup NextBatch(h[i - 1])
  <2>1. CASE i = k
    BY <1>6, <2>1
  <2>2. CASE i # k
    <3>1. i \in 1 .. k - 1 /\ i - 1 \in 0 .. k - 1 /\ i \in 0 .. k - 1
      BY <1>3, <2>2
    <3>2. g[i] = g[i - 1] \cup NextBatch(g[i - 1])
      BY <1>4, <3>1 DEF FirstLayers
    <3> HIDE DEF h
    <3> QED BY <1>5, <3>1, <3>2
  <2> QED BY <2>1, <2>2
<1>10. h[0] = {}
  BY <1>3, <1>4, <1>5 DEF FirstLayers
<1> HIDE DEF h
<1>11. FirstLayers(k, h)
  BY <1>8, <1>9, <1>10 DEF FirstLayers
<1> QED BY <1>11

LEMMA FirstLayersAgree ==
  ASSUME NEW n \in Nat, NEW m \in Nat, NEW g, NEW h, FirstLayers(n, g), FirstLayers(m, h),
         NEW j \in Nat, j <= n, j <= m
  PROVE  g[j] = h[j]
<1> DEFINE Apart == {k \in Nat : k <= n /\ k <= m /\ g[k] # h[k]}
<1> SUFFICES ASSUME Apart # {} PROVE FALSE
  OBVIOUS
<1>1. PICK k \in Apart : \A i \in Apart : k <= i
  <2>1. Apart \subseteq Nat
    OBVIOUS
  <2> HIDE DEF Apart
  <2> QED BY <2>1, Least
<1>2. k # 0
  BY DEF FirstLayers
<1>3. k - 1 \in Nat /\ k - 1 <= n /\ k - 1 <= m /\ ~ (k <= k - 1)
      /\ k \in 1 .. n /\ k \in 1 .. m /\ g[k] # h[k]
  BY <1>2
<1>4. k - 1 \notin Apart
  <2> HIDE DEF Apart
  <2> QED BY <1>1, <1>3
<1>5. g[k - 1] = h[k - 1]
  BY <1>3, <1>4
<1> QED BY <1>3, <1>5 DEF FirstLayers

\* The recursion has a solution, and Layers is one.
LEMMA LayersEquation ==
  /\ Layers[0] = {}
  /\ \A k \in Nat : Layers[k + 1] = Layers[k] \cup NextBatch(Layers[k])
<1> DEFINE G(k) == CHOOSE g : FirstLayers(k, g)
           F == [k \in Nat |-> G(k)[k]]
<1>1. \A k \in Nat : FirstLayers(k, G(k))
  BY FirstLayersExist
<1> HIDE DEF G
<1>2. F[0] = {}
  BY <1>1 DEF FirstLayers
<1>3. ASSUME NEW k \in Nat, k # 0
      PROVE  F[k] = F[k - 1] \cup NextBatch(F[k - 1])
  <2>1. k - 1 \in Nat /\ k - 1 <= k /\ k - 1 <= k - 1 /\ k \in 1 .. k
    BY <1>3
  <2>2. G(k)[k] = G(k)[k - 1] \cup NextBatch(G(k)[k - 1])
    BY <1>1, <2>1 DEF FirstLayers
  <2>3. G(k - 1)[k - 1] = G(k)[k - 1]
    BY <1>1, <2>1, FirstLayersAgree
  <2>4. F[k] = G(k)[k] /\ F[k - 1] = G(k - 1)[k - 1]
    BY <2>1
  <2> HIDE DEF F
  <2> QED BY <2>2, <2>3, <2>4
<1>4. F = [k \in Nat |-> IF k = 0 THEN {} ELSE F[k - 1] \cup NextBatch(F[k - 1])]
  <2>1. \A k \in Nat : F[k] = IF k = 0 THEN {} ELSE F[k - 1] \cup NextBatch(F[k - 1])
    <3> HIDE DEF F
    <3> QED BY <1>2, <1>3
  <2> QED BY <2>1
<1> HIDE DEF F
<1>5. Layers = [k \in Nat |-> IF k = 0 THEN {} ELSE Layers[k - 1] \cup NextBatch(Layers[k - 1])]
  BY <1>4 DEF Layers
<1>6. Layers[0] = {}
  BY <1>5
<1>7. ASSUME NEW k \in Nat
      PROVE  Layers[k + 1] = Layers[k] \cup NextBatch(Layers[k])
  <2>1. k + 1 \in Nat /\ k + 1 # 0 /\ (k + 1) - 1 = k
    OBVIOUS
  <2>2. Layers[k + 1] = Layers[(k + 1) - 1] \cup NextBatch(Layers[(k + 1) - 1])
    BY <1>5, <2>1
  <2> QED BY <2>1, <2>2
<1> QED BY <1>6, <1>7

\* There are as many layers as it takes.
LEMMA LayersGrow ==
  /\ \A k \in Nat : Layers[k] \subseteq Nodes /\ Layers[k] \subseteq Layers[k + 1]
  /\ \A j, k \in Nat : j <= k => Layers[j] \subseteq Layers[k]
<1>1. \A k \in Nat : Layers[k] \subseteq Layers[k + 1]
  BY LayersEquation
<1>2. ASSUME NEW S, S \subseteq Nat, 0 \notin S,
             \A k \in Nat : k + 1 \in S => k \in S
      PROVE  S = {}
  <2> SUFFICES ASSUME S # {} PROVE FALSE
    OBVIOUS
  <2>1. PICK k \in S : \A i \in S : k <= i
    BY <1>2, Least
  <2>2. k - 1 \in Nat /\ (k - 1) + 1 = k /\ ~ (k <= k - 1)
    BY <1>2, <2>1
  <2> QED BY <1>2, <2>1, <2>2
<1>3. \A k \in Nat : Layers[k] \subseteq Nodes
  <2> DEFINE S == {k \in Nat : ~ (Layers[k] \subseteq Nodes)}
  <2>1. 0 \notin S
    BY LayersEquation
  <2>2. ASSUME NEW k \in Nat, k + 1 \in S PROVE k \in S
    <3>1. NextBatch(Layers[k]) \subseteq Nodes
      BY DEF NextBatch
    <3> QED BY <2>2, <3>1, LayersEquation
  <2>3. S = {}
    <3>1. S \subseteq Nat
      OBVIOUS
    <3> HIDE DEF S
    <3> QED BY <1>2, <2>1, <2>2, <3>1
  <2> QED BY <2>3
<1>4. ASSUME NEW j \in Nat
      PROVE  \A k \in Nat : j <= k => Layers[j] \subseteq Layers[k]
  <2> DEFINE S == {k \in Nat : j <= k /\ ~ (Layers[j] \subseteq Layers[k])}
  <2>1. 0 \notin S
    OBVIOUS
  <2>2. ASSUME NEW k \in Nat, k + 1 \in S PROVE k \in S
    <3>1. j <= k + 1 /\ ~ (Layers[j] \subseteq Layers[k + 1])
      BY <2>2
    <3>2. ~ (Layers[j] \subseteq Layers[k]) /\ j # k + 1
      BY <1>1, <3>1
    <3> QED BY <3>1, <3>2
  <2>3. S = {}
    <3>1. S \subseteq Nat
      OBVIOUS
    <3> HIDE DEF S
    <3> QED BY <1>2, <2>1, <2>2, <3>1
  <2> QED BY <2>3
<1> QED BY <1>1, <1>3, <1>4

\* Nodes that all depend on one another, or on what is not there: nothing of them is ever
\* ready.
Knotted(C) == C # {} /\ \A n \in C : deps[n] \cap C # {}

\* An order exists when every dependency is a node and no nodes are knotted.
Acyclic ==
  /\ \A n \in Nodes : deps[n] \subseteq Nodes
  /\ \A C \in SUBSET Nodes : ~Knotted(C)

\* Knotted nodes are in no layer.
LEMMA KnotIsLeftOut ==
  ASSUME NEW C \in SUBSET Nodes, Knotted(C), NEW k \in Nat
  PROVE  Layers[k] \cap C = {}
<1> DEFINE T == {i \in Nat : Layers[i] \cap C # {}}
<1> SUFFICES ASSUME T # {} PROVE FALSE
  OBVIOUS
<1>1. PICK i \in T : \A j \in T : i <= j
  <2>1. T \subseteq Nat
    OBVIOUS
  <2> HIDE DEF T
  <2> QED BY <2>1, Least
<1>2. i # 0
  BY LayersEquation
<1>3. i - 1 \in Nat /\ (i - 1) + 1 = i /\ ~ (i <= i - 1)
  BY <1>2
<1>4. i - 1 \notin T
  <2> HIDE DEF T
  <2> QED BY <1>1, <1>3
<1>5. Layers[i - 1] \cap C = {} /\ Layers[i] \cap C # {}
  BY <1>3, <1>4
<1>6. PICK n \in C : n \in Layers[i] /\ n \notin Layers[i - 1]
  BY <1>5
<1>7. Layers[i] = Layers[i - 1] \cup NextBatch(Layers[i - 1])
  BY <1>3, LayersEquation
<1>8. deps[n] \subseteq Layers[i - 1]
  BY <1>6, <1>7 DEF NextBatch
<1> QED BY <1>5, <1>6, <1>8 DEF Knotted

\* While nodes are left and none of them is knotted, another batch can be made.
LEMMA NextBatchExists ==
  ASSUME Acyclic, NEW finished \in SUBSET Nodes, finished # Nodes
  PROVE  NextBatch(finished) # {}
<1> SUFFICES ASSUME NextBatch(finished) = {} PROVE FALSE
  OBVIOUS
<1> DEFINE C == Nodes \ finished
<1>1. \A n \in C : deps[n] \subseteq Nodes /\ ~ (deps[n] \subseteq finished)
  BY DEF Acyclic, NextBatch
<1>2. Knotted(C)
  BY <1>1 DEF Knotted
<1> QED BY <1>2 DEF Acyclic

\* Unless a layer is empty, k layers have k nodes at least.
LEMMA LayersCount ==
  ASSUME Acyclic
  PROVE  \A k \in Nat : Layers[k] = Nodes \/ Cardinality(Layers[k]) >= k
<1> DEFINE Short == {k \in Nat : Layers[k] # Nodes /\ ~ (Cardinality(Layers[k]) >= k)}
<1> SUFFICES ASSUME Short # {} PROVE FALSE
  OBVIOUS
<1>0. \A k \in Nat : IsFiniteSet(Layers[k]) /\ Cardinality(Layers[k]) \in Nat
  BY WorkflowAssumption, LayersGrow, FS_Subset, FS_CardinalityType
<1>1. PICK k \in Short : \A j \in Short : k <= j
  <2>1. Short \subseteq Nat
    OBVIOUS
  <2> HIDE DEF Short
  <2> QED BY <2>1, Least
<1>2. k \in Nat /\ Layers[k] # Nodes /\ ~ (Cardinality(Layers[k]) >= k)
  OBVIOUS
<1>3. k # 0
  BY <1>0, <1>2
<1>4. k - 1 \in Nat /\ (k - 1) + 1 = k /\ ~ (k <= k - 1)
  BY <1>2, <1>3
<1>5. k - 1 \notin Short
  <2> HIDE DEF Short
  <2> QED BY <1>1, <1>4
<1>6. Layers[k - 1] \subseteq Layers[k] /\ Layers[k] \subseteq Nodes
  BY <1>2, <1>4, LayersGrow
<1>7. Layers[k - 1] # Nodes
  BY <1>2, <1>6
<1>8. Cardinality(Layers[k - 1]) >= k - 1
  BY <1>4, <1>5, <1>7
<1>9. Layers[k] = Layers[k - 1] \cup NextBatch(Layers[k - 1])
  BY <1>4, LayersEquation
<1>10. NextBatch(Layers[k - 1]) # {}
  BY <1>6, <1>7, NextBatchExists
<1>11. NextBatch(Layers[k - 1]) \cap Layers[k - 1] = {}
  BY DEF NextBatch
<1>12. Layers[k - 1] # Layers[k]
  BY <1>9, <1>10, <1>11
<1>13. Cardinality(Layers[k - 1]) < Cardinality(Layers[k])
  BY <1>0, <1>2, <1>6, <1>12, FS_Subset
<1> QED BY <1>0, <1>2, <1>4, <1>8, <1>13

\* get_topological_batches raises for exactly the graphs that have no order: those that
\* name an unknown id, and those with nodes that wait for one another.
THEOREM OrderableIsAcyclic == Orderable <=> Acyclic
<1> DEFINE n == Cardinality(Nodes)
<1>1. n \in Nat
  BY WorkflowAssumption, FS_CardinalityType
<1>2. ASSUME Orderable PROVE Acyclic
  <2>1. ASSUME NEW C \in SUBSET Nodes, Knotted(C) PROVE FALSE
    <3>1. Layers[n] = Nodes /\ Layers[n] \cap C = {}
      BY <1>1, <1>2, <2>1, KnotIsLeftOut DEF Orderable
    <3> QED BY <2>1, <3>1 DEF Knotted
  <2> QED BY <1>2, <2>1 DEF Orderable, Acyclic
<1>3. ASSUME Acyclic PROVE Orderable
  <2>1. Layers[n] \subseteq Nodes
    BY <1>1, LayersGrow
  <2>2. Layers[n] = Nodes \/ Cardinality(Layers[n]) >= n
    BY <1>1, <1>3, LayersCount
  <2>3. Cardinality(Layers[n]) \in Nat
    BY <2>1, WorkflowAssumption, FS_Subset, FS_CardinalityType
  <2>4. Layers[n] # Nodes => Cardinality(Layers[n]) <= n /\ Cardinality(Layers[n]) # n
    BY <2>1, WorkflowAssumption, FS_Subset
  <2>5. Layers[n] = Nodes
    BY <1>1, <2>2, <2>3, <2>4
  <2> QED BY <1>3, <2>5 DEF Acyclic, Orderable
<1> QED BY <1>2, <1>3

\* Where the handling of nodes may be, overlapping executions or not: only the order of
\* batches matters, not the statuses that executions share.
Placed ==
  /\ Typed
  /\ \A e \in Executions, n \in Nodes : Position(e, n)
  /\ \A e \in Executions : phase[e] = "running" => Orderable

\* Some thread of an execution has a step to take: the caller concludes, closes a batch or
\* examines a node of it; a worker has a node in hand; as_completed has a future to deliver;
\* or a worker is free for a submitted node.
CanMove(e) ==
  \/ done[e] = Nodes
  \/ Batch(e) # {} /\ \A n \in Batch(e) : pc[e][n] \in {"collected", "skipped"}
  \/ \E n \in Batch(e) : pc[e][n] \in {"waiting", "running", "returned", "completing", "ended"}
  \/ /\ FreeWorker(e) /\ \A n \in Batch(e) : pc[e][n] # "waiting"
     /\ \E n \in Batch(e) : pc[e][n] = "queued"

NeverStuck == \A e \in Executions : phase[e] = "running" => CanMove(e)

LEMMA PlacedInit == Init => Placed
BY DEF Init, Placed, Typed, Position, Each, EachNode, NodeStatus, Places

\* A step on a node moves it within its batch.
LEMMA PlacedHandle ==
  ASSUME Placed, NEW e \in Executions, NEW n \in Nodes, Handle(e, n)
  PROVE  Placed'
<1>1. UNCHANGED <<deps, phase, done, success>>
  BY DEF Handle, Examine, Collect, Start, Return, Raise, Check, Complete
<1>2. PICK from, to \in Places :
        /\ Moves(e, n, from, to)
        /\ from \notin {"collected", "skipped"}
        /\ from = "waiting" => phase[e] = "running" /\ n \in Batch(e)
        /\ to # "waiting"
  BY DEF Handle, Examine, Collect, Start, Return, Raise, Check, Complete, Moves, Places
<1>3. /\ pc' \in [Executions -> [Nodes -> Places]]
      /\ pc[e][n] = from /\ pc'[e][n] = to
      /\ \A f \in Executions, m \in Nodes : f # e \/ m # n => pc'[f][m] = pc[f][m]
  BY <1>2, MovesOne DEF Placed
<1>4. Typed'
  <2>1. status' \in [Nodes -> NodeStatus]
    BY DEF Handle, Examine, Collect, Start, Return, Raise, Check, Complete, Sets,
           Placed, Typed, NodeStatus
  <2>2. ASSUME NEW list \in [Executions -> SUBSET Nodes], NEW next,
               next = list \/ next = [list EXCEPT ![e] = @ \cup {n}]
        PROVE  next \in [Executions -> SUBSET Nodes]
    <3>1. list[e] \cup {n} \in SUBSET Nodes
      OBVIOUS
    <3> QED BY <2>2, <3>1
  <2>3. /\ completed' = completed \/ completed' = [completed EXCEPT ![e] = @ \cup {n}]
        /\ healed' = healed \/ healed' = [healed EXCEPT ![e] = @ \cup {n}]
        /\ failed' = failed \/ failed' = [failed EXCEPT ![e] = @ \cup {n}]
        /\ skipped' = skipped \/ skipped' = [skipped EXCEPT ![e] = @ \cup {n}]
    <3>1. CASE Collect(e, n)
      BY <3>1 DEF Collect
    <3>2. CASE Examine(e, n)
      BY <3>2 DEF Examine
    <3>3. CASE Start(e, n) \/ Return(e, n) \/ Raise(e, n) \/ Check(e, n) \/ Complete(e, n)
      BY <3>3 DEF Start, Return, Raise, Check, Complete
    <3> QED BY <3>1, <3>2, <3>3 DEF Handle
  <2>4. /\ completed' \in [Executions -> SUBSET Nodes]
        /\ healed' \in [Executions -> SUBSET Nodes]
        /\ failed' \in [Executions -> SUBSET Nodes]
        /\ skipped' \in [Executions -> SUBSET Nodes]
    <3>1. /\ completed \in [Executions -> SUBSET Nodes]
          /\ healed \in [Executions -> SUBSET Nodes]
          /\ failed \in [Executions -> SUBSET Nodes]
          /\ skipped \in [Executions -> SUBSET Nodes]
      BY DEF Placed, Typed
    <3> QED BY <2>2, <2>3, <3>1
  <2>5. \/ body' = body
        \/ \E b \in {"returned", "healed", "raised"} : body' = [body EXCEPT ![e][n] = b]
    BY DEF Handle, Examine, Collect, Start, Return, Raise, Check, Complete
  <2>6. body' \in [Executions -> [Nodes -> {"none", "returned", "healed", "raised"}]]
    <3> DEFINE Ends == {"none", "returned", "healed", "raised"}
    <3>1. body \in [Executions -> [Nodes -> Ends]]
      BY DEF Placed, Typed
    <3>2. CASE body' = body
      BY <3>1, <3>2
    <3>3. ASSUME NEW b \in Ends, body' = [body EXCEPT ![e][n] = b]
          PROVE  body' \in [Executions -> [Nodes -> Ends]]
      <4> HIDE DEF Ends
      <4>1. [body[e] EXCEPT ![n] = b] \in [Nodes -> Ends]
        BY <3>1
      <4> QED BY <3>1, <3>3, <4>1
    <3> QED BY <2>5, <3>2, <3>3
  <2> QED BY <1>1, <1>3, <2>1, <2>4, <2>6 DEF Placed, Typed
<1>5. ASSUME NEW f \in Executions, NEW m \in Nodes PROVE Position(f, m)'
  <2>1. Position(f, m)
    BY DEF Placed
  <2>2. CASE f # e \/ m # n
    BY <1>1, <1>3, <2>1, <2>2 DEF Position
  <2>3. CASE f = e /\ m = n
    <3>1. n \notin done[e] /\ deps[n] \subseteq done[e] /\ phase[e] = "running"
      BY <1>2, <1>3, <2>1, <2>3 DEF Position, Batch, NextBatch
    <3> QED BY <1>1, <1>2, <1>3, <2>3, <3>1 DEF Position
  <2> QED BY <2>2, <2>3
<1>6. Orderable' <=> Orderable
  BY <1>1 DEF Orderable, Layers, NextBatch
<1> QED BY <1>1, <1>4, <1>5, <1>6 DEF Placed

LEMMA PlacedStep ==
  ASSUME Placed, [Next]_vars
  PROVE  Placed'
<1>1. deps' = deps => (Orderable' <=> Orderable)
  BY DEF Orderable, Layers, NextBatch
<1>2. ASSUME NEW e \in Executions, Begin(e) PROVE Placed'
  <2>1. UNCHANGED <<deps, status, done, pc, lists, success, body>>
        /\ phase[e] = "new"
        /\ phase' = [phase EXCEPT ![e] = IF Orderable THEN "running" ELSE "rejected"]
    BY <1>2 DEF Begin
  <2>2. Typed'
    BY <2>1 DEF Placed, Typed
  <2>3. \A f \in Executions, n \in Nodes : Position(f, n)'
    BY <2>1 DEF Placed, Typed, Position
  <2>4. \A f \in Executions : phase'[f] = "running" => Orderable
    BY <2>1 DEF Placed, Typed
  <2> QED BY <1>1, <2>1, <2>2, <2>3, <2>4 DEF Placed
<1>3. ASSUME NEW e \in Executions, CloseBatch(e) PROVE Placed'
  <2>1. /\ UNCHANGED <<deps, status, phase, pc, lists, success, body>>
        /\ done' = [done EXCEPT ![e] = @ \cup Batch(e)]
        /\ \A n \in Batch(e) : pc[e][n] \in {"collected", "skipped"}
        /\ phase[e] = "running"
    BY <1>3 DEF CloseBatch
  <2>2. Batch(e) \subseteq Nodes
    BY DEF Batch, NextBatch
  <2>3. Typed'
    BY <2>1, <2>2 DEF Placed, Typed
  <2>4. \A f \in Executions, n \in Nodes : Position(f, n)'
    <3> SUFFICES ASSUME NEW f \in Executions, NEW n \in Nodes PROVE Position(f, n)'
      OBVIOUS
    <3>1. done'[f] = IF f = e THEN done[e] \cup Batch(e) ELSE done[f]
      BY <2>1 DEF Placed, Typed
    <3> QED BY <2>1, <3>1 DEF Placed, Position
  <2> QED BY <1>1, <2>1, <2>3, <2>4 DEF Placed
<1>4. ASSUME NEW e \in Executions, Conclude(e) PROVE Placed'
  <2>1. /\ UNCHANGED <<deps, status, done, pc, lists, body>> /\ done[e] = Nodes
        /\ phase' = [phase EXCEPT ![e] = "done"]
        /\ phase[e] = "running"
        /\ \E s \in {"success", "failure"} : success' = [success EXCEPT ![e] = s]
    BY <1>4 DEF Conclude
  <2>2. Typed'
    BY <2>1 DEF Placed, Typed
  <2>3. \A f \in Executions, n \in Nodes : Position(f, n)'
    BY <2>1 DEF Placed, Typed, Position
  <2>4. \A f \in Executions : phase'[f] = "running" => Orderable
    BY <2>1 DEF Placed, Typed
  <2> QED BY <1>1, <2>1, <2>2, <2>3, <2>4 DEF Placed
<1>5. CASE UNCHANGED vars
  <2>1. UNCHANGED <<deps, status, phase, done, pc, lists, success, body>>
    BY <1>5 DEF vars
  <2> QED BY <1>1, <2>1 DEF Placed, Typed, Position
<1> QED BY <1>2, <1>3, <1>4, <1>5, PlacedHandle DEF Next, Progress

\* Every execution that runs has a step to take, overlapping others or not: its batches
\* cover the graph, and its pool is never exhausted by nodes that wait for others.
THEOREM NobodyIsStuck == Safety => []NeverStuck
<1>1. Placed => NeverStuck
  <2> SUFFICES ASSUME Placed, NEW e \in Executions, phase[e] = "running", done[e] # Nodes
               PROVE  CanMove(e)
    BY DEF NeverStuck, CanMove
  <2>1. done[e] \in SUBSET Nodes /\ Batch(e) \subseteq Nodes /\ Acyclic
    BY OrderableIsAcyclic DEF Placed, Typed, Batch, NextBatch
  <2>2. Batch(e) # {}
    BY <2>1, NextBatchExists DEF Batch
  <2>3. \A n \in Nodes : pc[e][n] \in Places
    BY DEF Placed, Typed
  <2>4. CASE \E n \in Batch(e) :
               pc[e][n] \in {"waiting", "running", "returned", "completing", "ended"}
    BY <2>4 DEF CanMove
  <2>5. CASE \A n \in Batch(e) :
               pc[e][n] \notin {"waiting", "running", "returned", "completing", "ended"}
    <3>1. Busy(e) = {}
      <4> SUFFICES ASSUME NEW m \in Nodes, pc[e][m] \in {"running", "returned", "completing"}
                   PROVE  FALSE
        BY DEF Busy
      <4>1. Position(e, m)
        BY DEF Placed
      <4>2. m \in Batch(e)
        BY <4>1 DEF Position, Batch, NextBatch
      <4> QED BY <2>5, <4>2
    <3>2. FreeWorker(e)
      BY <3>1, FS_EmptySet, WorkflowAssumption DEF FreeWorker
    <3>3. CASE \E n \in Batch(e) : pc[e][n] = "queued"
      BY <2>5, <3>2, <3>3 DEF CanMove
    <3>4. CASE \A n \in Batch(e) : pc[e][n] # "queued"
      <4>1. \A n \in Batch(e) : pc[e][n] \in {"collected", "skipped"}
        BY <2>1, <2>3, <2>5, <3>4 DEF Places
      <4> QED BY <2>2, <4>1 DEF CanMove
    <3> QED BY <3>3, <3>4
  <2> QED BY <2>4, <2>5
<1> QED BY <1>1, PlacedInit, PlacedStep, PTL DEF Safety
================================================================================
