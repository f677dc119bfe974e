------------------------------ MODULE MCClient ------------------------------
(* ModelClient for TLC; its constants are in MCClient_requests.cfg.  Requests are
   interchangeable, but a symmetry set is unsound for the liveness property. *)
EXTENDS ModelClient
=============================================================================
