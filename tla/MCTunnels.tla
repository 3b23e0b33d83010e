----------------------------- MODULE MCTunnels -----------------------------
(* Model-checking instance of Tunnels. *)
EXTENDS Tunnels, TLC
CONSTANTS a1, a2
AttemptsTwo == {a1, a2}
AttemptsOne == {a1}
OneTalks == a1 :> 1 @@ a2 :> 0
Silent   == a1 :> 0 @@ a2 :> 0
Longer   == a1 :> 2
=============================================================================
