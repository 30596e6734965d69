--------------------------- MODULE MCOrchestrator ---------------------------
(* Small instances of Orchestrator for TLC. *)
EXTENDS Orchestrator

CONSTANT o1

One == {o1}

NoFaults == {}
SqlFaults == {"sql"}
=============================================================================
