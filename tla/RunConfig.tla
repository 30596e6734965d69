----------------------------- MODULE RunConfig -----------------------------
(***************************************************************************)
(* python/freewill/config/params.py: the schema of a run's configuration,  *)
(* as pydantic applies it to a JSON document, and the JSON text it writes. *)
(*                                                                         *)
(* A document is a function from some keys to JSON values.  Floats are     *)
(* integers that count tenths, and one of them stands for an infinite      *)
(* float, which the schema accepts where a field has no upper bound.       *)
(* Values of another type than the field's are left out, except for null.  *)
(***************************************************************************)
EXTENDS Integers

CONSTANTS
  Null,        \* JSON null, None
  Infinity,    \* the infinite float
  Invalid      \* ValidationError instead of a RunConfig

ASSUME RunConfigAssumption ==
  /\ Infinity \in Nat /\ Infinity > 50
  /\ Null \notin Int
  /\ Null \notin [alpha : Int \cup {Null}, beta : Int \cup {Null}]

Ranges == {"chi_range", "theta_range", "pi_range"}
Required ==
  {"run_id", "domain", "seed", "epsilon_explore", "tau_still", "influencer_reach",
   "num_agents", "num_ticks"} \cup Ranges
Fields == Required \cup {"beta_shape", "checkpoint_interval_ticks"}

\* The default of a field that is not required.
Default(f) == IF f = "checkpoint_interval_ticks" THEN 50 ELSE Null

\* The shape of a robustness check, when it is parsed.
BetaShape == [alpha : Nat \ {0}, beta : Nat \ {0}]

\* The type of every field with its bounds.
Admitted(f) ==
  CASE f \in Ranges -> Int \X Int
    [] f = "epsilon_explore" -> 0 .. 10
    [] f = "influencer_reach" -> 20 .. 50
    [] f = "beta_shape" -> {Null} \cup BetaShape
    [] f \in {"num_agents", "num_ticks", "checkpoint_interval_ticks"} -> Nat \ {0, Infinity}
    [] f \in {"run_id", "domain"} -> STRING
    [] f = "seed" -> Int \ {Infinity}
    [] f = "tau_still" -> Int

\* Mutant: the model validator is lost.
AnyRanges(c) == TRUE

\* _validate_ranges, which runs after the fields are validated.
ValidRanges(c) == \A r \in Ranges : c[r][1] <= c[r][2]

\* The nested model drops the keys that are none of its fields, too.
Parsed(f, v) ==
  IF f = "beta_shape" /\ v # Null
  THEN [k \in {"alpha", "beta"} \cap DOMAIN v |-> v[k]]
  ELSE v

\* A document with its defaults and without the keys that are no fields.
Completed(doc) ==
  [f \in Fields |-> Parsed(f, IF f \in DOMAIN doc THEN doc[f] ELSE Default(f))]

\* RunConfig.model_validate
LoadRunConfig(doc) ==
  IF /\ Required \subseteq DOMAIN doc
     /\ \A f \in Fields : Completed(doc)[f] \in Admitted(f)
     /\ ValidRanges(Completed(doc))
  THEN Completed(doc)
  ELSE Invalid

\* A float in JSON text: pydantic writes null for one that is not finite.
JsonNumber(x) == IF x = Infinity THEN Null ELSE x

JsonValue(f, v) ==
  CASE f \in Ranges -> <<JsonNumber(v[1]), JsonNumber(v[2])>>
    [] f = "tau_still" -> JsonNumber(v)
    [] f = "beta_shape" /\ v # Null ->
         [alpha |-> JsonNumber(v.alpha), beta |-> JsonNumber(v.beta)]
    [] OTHER -> v

\* Mutant: the text leaves the interval to its default.
ToJsonDropsInterval(c) ==
  [f \in Fields \ {"checkpoint_interval_ticks"} |-> JsonValue(f, c[f])]

\* RunConfig.to_json writes every field, the defaults too.
ToJson(c) == [f \in Fields |-> JsonValue(f, c[f])]

\* Every float of a RunConfig is finite.
Finite(c) ==
  /\ \A r \in Ranges : c[r][1] # Infinity /\ c[r][2] # Infinity
  /\ c["tau_still"] # Infinity
  /\ c["beta_shape"] # Null =>
       c["beta_shape"].alpha # Infinity /\ c["beta_shape"].beta # Infinity
=============================================================================
