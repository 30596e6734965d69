-------------------------- MODULE MCEventPipeline --------------------------
(* Small instances of EventPipeline for TLC. *)
EXTENDS EventPipeline

NoEvent == {}
SecondEvent == {2}
FifthEvent == {5}
SixthEvent == {6}
=============================================================================
