--------------------------- MODULE ConfigRegister ---------------------------
(***************************************************************************)
(* What the two stores of a run's config promise together to the engine: a *)
(* register that is written once, a copy of it that may be made and lost   *)
(* at any time and is never anything but a copy, and a reader that holds   *)
(* the value of the register or nothing.                                   *)
(***************************************************************************)

CONSTANTS
  None,      \* nothing is there
  Values,    \* what may be written
  Refused    \* the value no reader takes

VARIABLES value, cached, running

vars == <<value, cached, running>>

Init == value = None /\ cached = None /\ running = None

Submit ==
  /\ value = None
  /\ value' \in Values
  /\ UNCHANGED <<cached, running>>

Cache ==
  /\ value \in Values
  /\ cached' = value
  /\ UNCHANGED <<value, running>>

Expire ==
  /\ cached' = None
  /\ UNCHANGED <<value, running>>

Start ==
  /\ value \in Values \ {Refused}
  /\ running = None
  /\ running' = value
  /\ UNCHANGED <<value, cached>>

Stop ==
  /\ running' = None
  /\ UNCHANGED <<value, cached>>

Next == Submit \/ Cache \/ Expire \/ Start \/ Stop

Spec == Init /\ [][Next]_vars
=============================================================================
