------------------------------ MODULE MCAgentLoop ------------------------------
(* AgentLoop over one source file and one test file for TLC. *)
EXTENDS AgentLoop, TLC

Symmetry == Permutations(Texts)

\* Bounds: no suite passes over a tested file that is missing or truncated, and files
\* are read by their plain paths.
BrokenIsRed ==
  \A tree \in DOMAIN suite :
    (\E g \in Tested : tree[g] \in {Absent, Damaged}) => suite[tree] = "FAILED"

PlainReads == \A c \in seen : c.tool = "read_file" => c.spelling = "plain"

Bounded == BrokenIsRed /\ PlainReads
================================================================================
