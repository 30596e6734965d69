--------------------------- MODULE MCRunPlatform ---------------------------
(* A small instance of RunPlatform for TLC. *)
EXTENDS RunPlatform

CONSTANT o1

One == {o1}
NoFaults == {}
AllFaults == {"sql", "redis", "compute", "crash"}
NoEvent == {}
=============================================================================
