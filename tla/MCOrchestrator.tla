--------------------------- MODULE MCOrchestrator ---------------------------
(* TLC instances of Orchestrator.                                          *)
EXTENDS Orchestrator, TLC
=============================================================================
