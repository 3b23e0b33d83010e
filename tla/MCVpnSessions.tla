---------------------------- MODULE MCVpnSessions ---------------------------
(* Model-checking instance of VpnSessions. *)
EXTENDS VpnSessions, TLC
CONSTANTS s1, s2, p1, p2, c1
SessionsOne == {s1}
SessionsTwo == {s1, s2}
ProvidersTwo == {p1, p2}
OneCustomer == [s \in Sessions |-> c1]
=============================================================================
