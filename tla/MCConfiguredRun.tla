-------------------------- MODULE MCConfiguredRun --------------------------
(* A small instance of ConfiguredRun for TLC. *)
EXTENDS ConfiguredRun, TLC

CONSTANTS o1, o2

One == {o1}
Two == {o1, o2}
SymmetricTwo == Permutations(Two)

NoFaults == {}
RedisFaults == {"redis"}
AllFaults == {"sql", "redis", "compute", "crash"}

\* What every document below has in common: no optional field is there.
Minimal ==
  [f \in Required |->
     CASE f \in Ranges -> <<1, 9>>
       [] f = "epsilon_explore" -> 1
       [] f = "tau_still" -> 5
       [] f = "influencer_reach" -> 20
       [] f = "seed" -> 42
       [] f \in {"num_agents", "num_ticks"} -> 1
       [] f = "run_id" -> RunId
       [] f = "domain" -> "physics"]

\* All fields are there, two of them at their bounds, and two keys that are no fields.
Full ==
  Minimal @@ [beta_shape |-> [alpha |-> 1, beta |-> Infinity - 1, note |-> "x"],
              checkpoint_interval_ticks |-> 7, note |-> "x"]

Inverted == [Full EXCEPT !["pi_range"] = <<9, 1>>]
NoInterval == [Full EXCEPT !["checkpoint_interval_ticks"] = 0]
Partial == [f \in Required \ {"tau_still"} |-> Minimal[f]]

\* A document that names another run than the one it is submitted for.
Misnamed(doc) == [doc EXCEPT !["run_id"] = "run-2"]

SomeDocuments == {Minimal, Full, Inverted, NoInterval, Partial, Misnamed(Full)}
TwoDocuments == {Full, Misnamed(Minimal)}

\* Other runs with documents of their own, and one that is not valid.
OwnNames == {Misnamed(Full), [Inverted EXCEPT !["seed"] = 43]}

\* A copy of this run's document with another seed, submitted for another run.
Copy == [Full EXCEPT !["seed"] = 43]
WithCopy == OwnNames \cup {Copy}
=============================================================================
