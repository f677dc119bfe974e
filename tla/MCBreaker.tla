------------------------------ MODULE MCBreaker ------------------------------
(* CircuitBreaker for TLC; its constants are in MCBreaker_rounds.cfg.  Callers are
   interchangeable, but a symmetry set is unsound for the liveness property. *)
EXTENDS CircuitBreaker
==============================================================================
