----------------------------- MODULE MCModelCalls -----------------------------
(* A small instance of ModelCalls for TLC: two models of one provider, one *)
(* of which refuses the temperature, and a spare.                          *)
EXTENDS ModelCalls

CONSTANTS astra, terra, sonnet, astra_dated, Reads, Ghost

Site(key, model, secrets) ==
  [models |-> [k \in SiteKeys |-> IF k = key THEN model ELSE None], secrets |-> secrets]
Configs2 == {Site("OPENAI_MODEL", terra, {"openai", "anthropic"}),
             Site("OPENAI_MODEL_CLASSIFY", terra, {})}
Choice == [p \in Purposes |->
             CASE p = "extract" -> terra [] p \in {"classify", "question"} -> astra
               [] OTHER -> None]
Names == [m \in Models |-> IF m = astra THEN {astra_dated} ELSE {m}]
Begins == [id \in Models \cup {astra_dated} |-> IF id = astra_dated THEN astra ELSE id]
Rates == [m \in Models |-> IF m = astra THEN 5 ELSE 1]
Rejects == [m \in Models |-> IF m = astra THEN {"temperature"} ELSE {}]
Called == {<<>>, <<Reads, Ghost>>}
=============================================================================
