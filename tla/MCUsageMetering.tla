--------------------------- MODULE MCUsageMetering --------------------------
(* Model-checking instance of UsageMetering. *)
EXTENDS UsageMetering, TLC
CONSTANTS s1, s2
SessionsOne == {s1}
SessionsTwo == {s1, s2}
=============================================================================
