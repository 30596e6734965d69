--------------------------- MODULE MCRepeatedRun ---------------------------
(* Small instances of RepeatedRun for TLC. *)
EXTENDS RepeatedRun

AllMechanisms == {Calls[i].name : i \in 1 .. Len(Calls)}

\* Every length, interval and start in range, all mechanisms there, and the
\* three runs in which the first, a middle or the last one is a stub.
SmallConfigs ==
  [start : 0 .. 2, numTicks : 1 .. 5, interval : 1 .. 4, implemented : {AllMechanisms}]
    \cup
  [start : {0}, numTicks : {2}, interval : {1},
   implemented : {{}, AllMechanisms \ {"apply_alpha_flux"},
                  AllMechanisms \ {"apply_ad_hominem_halo_leak"}}]
=============================================================================
