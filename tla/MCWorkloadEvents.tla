-------------------------- MODULE MCWorkloadEvents -------------------------
(* Model-checking instance of WorkloadEvents. *)
EXTENDS WorkloadEvents, TLC
CONSTANTS r1, r2, c1, c2
ReportersTwo == {r1, r2}
SubscribersTwo == {c1, c2}
=============================================================================
