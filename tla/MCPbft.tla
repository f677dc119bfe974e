-------------------------------- MODULE MCPbft --------------------------------
(* Pbft with fixed patterns of loss for TLC. *)
EXTENDS Pbft

CONSTANTS a, b

\* Replica 0 proposes a to replicas 1 and 2 and b to replica 3.  Votes for a reach 1
\* and 2, votes for b reach 3, and 3 tells 1 and 2 that it has b; 2 gets no Commit.
\* View 1 stays silent, and only replica 1 hears that somebody asks for it.
Equivocates ==
  {<<r, m>> \in Replicas \X Message :
     \/ m.view # 0
     \/ m.view = 0 /\ (m.digest = a) # (r \in {1, 2}) /\ ~(m.kind = "Prepare" /\ m.by = 3)
     \/ m.view = 0 /\ m.by = 3 /\ r # 3 /\ ~(m.kind = "Prepare" /\ m.digest = b)
     \/ m.kind = "Commit" /\ r = 2}
    \cup {<<r, m>> \in Replicas \X ViewChange : r # 1 \/ m.new_view # 1}

\* Nobody asks to leave the view before replica 1 has committed.
ChangeAfterCommit == committed[1] = {} => UNCHANGED <<changeCount, changes, asked>>

\* Replica 1 is cut off in view 0 and replica 2 in view 1; commits reach 2, then 1.
LostHalves ==
  {<<r, m>> \in Replicas \X Message :
     \/ m.view = 0 /\ (1 \in {r, m.by} \/ (m.kind = "Commit" /\ r # 2) \/ m.digest # a)
     \/ m.view = 1 /\ (2 \in {r, m.by} \/ (m.kind = "Commit" /\ r # 1) \/ m.digest # b)}
    \cup {<<r, m>> \in Replicas \X ViewChange : r = 2 \/ m.new_view # 1}

\* The search goes to view 1 when replica 2 has committed in view 0, not earlier, and
\* leaves steps of view 0 out from then on; it prunes behaviours and adds none.
CommitThenChange ==
  /\ \A r \in Correct : changeCount'[r] < MaxViewChanges /\ asked'[r][1] = {}
  /\ IF committed[2] = {} THEN changes' = {}
     ELSE \A r \in Correct : round'[r][0] = round[r][0]
===============================================================================
