---------------------------- MODULE GridShares -----------------------------
(***************************************************************************)
(* The $GRID arithmetic the meters and the settlement worker share         *)
(* (billing-svc/internal/grid/session_meter.go).  Amounts are uint64: a    *)
(* product is taken modulo Word, which is 2^64 in the code.                *)
(***************************************************************************)
EXTENDS Integers

CONSTANT Word    \* number of values of the amount type

ASSUME WordAssumption == Word \in Nat \ {0}

Amount == 0 .. Word - 1

ProviderSharePct == 85

\* ComputeShares, first result: the provider's part of what was consumed.
ProviderShare(consumed) == ((consumed * ProviderSharePct) % Word) \div 100

\* ComputeShares, second result: the residual, so that no unit is lost.
IogridShare(consumed) == consumed - ProviderShare(consumed)

\* ComputeRefund: what is left of the escrow, never negative.
Refund(escrowed, consumed) ==
  IF escrowed <= consumed THEN 0 ELSE escrowed - consumed
=============================================================================
