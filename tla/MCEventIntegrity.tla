------------------------- MODULE MCEventIntegrity --------------------------
(* One-letter strings of length at most two and at most two Data fields:   *)
(* enough for a name and a value to be split differently.                 *)
EXTENDS EventIntegrity

CONSTANTS a

MC_Chars == {a}

=============================================================================
