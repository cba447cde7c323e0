------------------------------- MODULE MCRegistry -------------------------------
(***************************************************************************)
(* ModelRegistry with four backends of third parties.                      *)
(***************************************************************************)
EXTENDS ModelRegistry

(* A backend for a built-in's model, one with a built-in's name, another   *)
(* wildcard, and one that takes the mock's name.                           *)
MCCustom ==
  {[id |-> "local", name |-> "local", models |-> {"llama", "other"}],
   [id |-> "groq2", name |-> "groq", models |-> {"opt-125m"}],
   [id |-> "proxy", name |-> "proxy", models |-> {"*"}],
   [id |-> "mock2", name |-> "mock", models |-> {"gemini"}]}
===============================================================================
