---------------------------- MODULE MCWorkLedger ----------------------------
(* WorkLedger with two commits, the second on top of the first, for TLC. *)
EXTENDS WorkLedger, FiniteSets, TLC

CONSTANTS c1, c2

History == {<<c1, c1>>, <<c1, c2>>, <<c2, c2>>}
Symmetry == Permutations(Writers)

\* Records made while git did not answer.
NoCommit == {i \in DOMAIN recorded : recorded[i].commit = NoGit}

\* Lines of the file have been moved, or repeated.
Moved ==
  \E i, j \in DOMAIN file : i < j /\ file[j].claim <= file[i].claim /\ file[j].claim # Forged

\* Bounds: git fails for one record at most, and for none once there was an accident;
\* three hashes are anchored only last; a behaviour in which lines are moved goes on
\* only if that was the last accident and nothing is anchored.
Bounded ==
  /\ Cardinality(NoCommit) <= 1
  /\ NoCommit # {} => accidents = 0
  /\ Len(anchors) < MaxRecords
  /\ Moved => anchors = <<>> /\ accidents = MaxAccidents
=============================================================================
