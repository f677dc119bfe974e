------------------------------ MODULE MCWorkflow ------------------------------
(* Workflow over every graph of three nodes for TLC.  No symmetry set: the
   refinement and the liveness property are temporal. *)
EXTENDS Workflow
===============================================================================
