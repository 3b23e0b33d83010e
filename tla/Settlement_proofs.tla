------------------------- MODULE Settlement_proofs --------------------------
(***************************************************************************)
(* Proofs about the $GRID shares, the two ledgers and the settlement       *)
(* worker.                                                                 *)
(*                                                                         *)
(* PaidInv is the inductive invariant of the worker.  Its heart is Owed:   *)
(* a set of rows, the wallet all of them name and the sum of their shares. *)
(* Every batch a run holds is owed when it is listed and stays owed while  *)
(* queries, transfers and updates of other runs pass it, because no step   *)
(* changes what a row is about.  So the chain executes owed transfers      *)
(* only, and a row is stamped with the signature of a transfer that holds  *)
(* it.                                                                     *)
(*                                                                         *)
(* What is paid is a sum over a set of rows, which the worker adds up one  *)
(* row at a time.  SumsAddUp says that the sum of a part of a finite set   *)
(* is a natural number and that disjoint parts add up; it is proved by     *)
(* well-founded induction on the subsets (LeastSubset).  With it the       *)
(* treasury lacks what the executed transfers carry (AccountInv), whatever *)
(* fails; and a run that is alone charges itself what the chain charges    *)
(* the treasury (BudgetInv), once for each row (PaidOutInv).               *)
(***************************************************************************)
EXTENDS Settlement, FiniteSetTheorems, WellFoundedInduction, TLAPS

-----------------------------------------------------------------------------
(* The shares.                                                             *)

LEMMA Remainder ==
  ASSUME NEW a \in Nat, NEW b \in Nat \ {0}
  PROVE  a % b \in 0 .. b - 1 /\ a % b <= a
OBVIOUS

LEMMA Hundredth ==
  ASSUME NEW a \in Nat
  PROVE  a \div 100 \in Nat /\ 100 * (a \div 100) <= a
OBVIOUS

\* ComputeShares: whatever the product wraps to, neither party's part is
\* negative and the two parts are what was consumed.
THEOREM SharesAddUp ==
  ASSUME NEW consumed \in Amount
  PROVE  /\ ProviderShare(consumed) \in 0 .. consumed
         /\ IogridShare(consumed) \in 0 .. consumed
         /\ ProviderShare(consumed) + IogridShare(consumed) = consumed
<1> USE WordAssumption DEF Amount
<1>1. consumed \in Nat /\ Word \in Nat \ {0}
  OBVIOUS
<1> DEFINE product == consumed * ProviderSharePct
<1>2. product \in Nat /\ product = 85 * consumed
  BY <1>1 DEF ProviderSharePct
<1> HIDE DEF product
<1> DEFINE kept == product % Word
<1>3. kept \in Nat /\ kept <= product
  <2>1. kept \in 0 .. Word - 1 /\ kept <= product
    BY <1>1, <1>2, Remainder, Zenon
  <2>. QED  BY <1>1, <2>1
<1>4. ProviderShare(consumed) = kept \div 100
  BY DEF ProviderShare, product
<1> HIDE DEF kept
<1>5. kept \div 100 \in Nat /\ 100 * (kept \div 100) <= kept
  BY <1>3, Hundredth
<1>6. ProviderShare(consumed) \in 0 .. consumed
  BY <1>1, <1>2, <1>3, <1>4, <1>5
<1>. QED  BY <1>1, <1>6 DEF IogridShare

\* Settling a session pays out the escrow, no more and no less, unless more
\* was consumed than was escrowed.
THEOREM EscrowIsSplit ==
  ASSUME NEW escrowed \in Amount, NEW consumed \in Amount, consumed <= escrowed
  PROVE  ProviderShare(consumed) + IogridShare(consumed)
           + Refund(escrowed, consumed) = escrowed
<1>1. ProviderShare(consumed) + IogridShare(consumed) = consumed
  BY SharesAddUp
<1>2. Refund(escrowed, consumed) = escrowed - consumed
  BY WordAssumption DEF Refund, Amount
<1>3. escrowed \in Nat /\ consumed \in Nat
  BY WordAssumption DEF Amount
<1>. QED  BY <1>1, <1>2, <1>3, SharesAddUp

-----------------------------------------------------------------------------
(***************************************************************************)
(* Sums over finite sets.                                                  *)
(*                                                                         *)
(* SumFunction folds in an order that CHOOSE fixes.  Adds(f, T, g) says    *)
(* that g gives every part of T the sum the fold computes.  What holds of  *)
(* all parts of a finite set is shown of a smallest part of which it does  *)
(* not hold (LeastSubset): that is induction without an operator for the   *)
(* statement.                                                              *)
(***************************************************************************)

\* The element the fold takes next.
Pick(s) == CHOOSE x \in s : TRUE

\* g[s] is the sum of f over s, for every part s of T.
Adds(f, T, g) ==
  g = [s \in SUBSET T |-> IF s = {} THEN 0
                          ELSE f[Pick(s)] + g[s \ {Pick(s)}]]

\* A non-empty set of parts of a finite set has a smallest member.
LEMMA LeastSubset ==
  ASSUME NEW S, IsFiniteSet(S), NEW B \in SUBSET SUBSET S, B # {}
  PROVE  \E T \in B : \A U \in B : U \subseteq T => U = T
<1> DEFINE R == StrictSubsetOrdering(S)
<1>1. IsWellFoundedOn(R, SUBSET S)
  BY FS_StrictSubsetOrderingWellFounded, FS_FiniteSubsetsOfFinite
<1> HIDE DEF R
<1>2. PICK T \in B : \A U \in B : <<U, T>> \notin R
  BY <1>1, WFMin, Zenon
<1>3. ASSUME NEW U \in B, U \subseteq T, U # T PROVE FALSE
  <2>1. <<U, T>> \in R
    BY <1>3 DEF R, StrictSubsetOrdering
  <2>. QED  BY <2>1, <1>2
<1>. QED  BY <1>3

LEMMA PickIn ==
  ASSUME NEW s, s # {}
  PROVE  Pick(s) \in s
BY DEF Pick

LEMMA AddsOnce ==
  ASSUME NEW f, NEW T, NEW g, Adds(f, T, g), IsFiniteSet(T),
         NEW U, NEW h, Adds(f, U, h), NEW s \in SUBSET (T \cap U)
  PROVE  g[s] = h[s]
<1> DEFINE B == {x \in SUBSET (T \cap U) : g[x] # h[x]}
<1> SUFFICES ASSUME B # {} PROVE FALSE
  OBVIOUS
<1>1. IsFiniteSet(T \cap U)
  BY FS_Intersection
<1>2. B \in SUBSET SUBSET (T \cap U)
  OBVIOUS
<1> HIDE DEF B
<1>3. PICK m \in B : \A x \in B : x \subseteq m => x = m
  BY <1>1, <1>2, LeastSubset
<1> DEFINE p == Pick(m)
<1>4. m \in SUBSET T /\ m \in SUBSET U /\ g[m] # h[m]
  BY <1>3 DEF B
<1>5. /\ g[m] = IF m = {} THEN 0 ELSE f[p] + g[m \ {p}]
      /\ h[m] = IF m = {} THEN 0 ELSE f[p] + h[m \ {p}]
  BY <1>4 DEF Adds
<1>6. m # {}
  BY <1>4, <1>5
<1>7. p \in m
  BY <1>6, PickIn
<1> HIDE DEF p
<1>8. m \ {p} \notin B
  BY <1>3, <1>7
<1>9. g[m \ {p}] = h[m \ {p}]
  BY <1>4, <1>8 DEF B
<1>. QED  BY <1>4, <1>5, <1>6, <1>9

LEMMA AddsExist ==
  ASSUME NEW f, NEW S, IsFiniteSet(S)
  PROVE  \E g : Adds(f, S, g)
<1> DEFINE B == {T \in SUBSET S : ~ \E g : Adds(f, T, g)}
<1> SUFFICES ASSUME B # {} PROVE FALSE
  OBVIOUS
<1>1. PICK m \in B : \A x \in B : x \subseteq m => x = m
  <2>1. B \in SUBSET SUBSET S
    OBVIOUS
  <2> HIDE DEF B
  <2>. QED  BY <2>1, LeastSubset
<1>2. m \in SUBSET S /\ ~ \E g : Adds(f, m, g) /\ IsFiniteSet(m)
  BY FS_Subset
<1> DEFINE G(T) == CHOOSE g : Adds(f, T, g)
           rest(s) == s \ {Pick(s)}
           h == [s \in SUBSET m |-> IF s = {} THEN 0
                                    ELSE f[Pick(s)] + G(rest(s))[rest(s)]]
<1>3. ASSUME NEW T \in SUBSET m, T # m PROVE Adds(f, T, G(T))
  BY <1>1, <1>3
<1>4. ASSUME NEW s \in SUBSET m, s # {}
      PROVE  /\ rest(s) \in SUBSET m /\ rest(s) # m /\ rest(s) # s
  BY <1>4, PickIn
<1>5. ASSUME NEW T \in SUBSET m, T # m PROVE G(T)[T] = h[T]
  <2>1. Adds(f, T, G(T))
    BY <1>3, <1>5
  <2> HIDE DEF G
  <2>2. G(T)[T] = IF T = {} THEN 0 ELSE f[Pick(T)] + G(T)[rest(T)]
    BY <2>1 DEF Adds
  <2>3. ASSUME T # {} PROVE G(T)[rest(T)] = G(rest(T))[rest(T)]
    <3>1. Adds(f, rest(T), G(rest(T)))
      BY <1>3, <1>4, <2>3
    <3>2. IsFiniteSet(T) /\ rest(T) \in SUBSET (T \cap rest(T))
      BY <1>2, FS_Subset
    <3> HIDE DEF rest
    <3>. QED  BY <2>1, <3>1, <3>2, AddsOnce
  <2>. QED  BY <2>2, <2>3
<1> HIDE DEF G
<1>6. Adds(f, m, h)
  <2>1. ASSUME NEW s \in SUBSET m, s # {} PROVE G(rest(s))[rest(s)] = h[rest(s)]
    BY <1>4, <1>5, <2>1
  <2> DEFINE k == [s \in SUBSET m |-> IF s = {} THEN 0
                          ELSE f[Pick(s)] + h[s \ {Pick(s)}]]
  <2>2. \A s \in SUBSET m : h[s] = k[s]
    BY <2>1
  <2>3. h = [s \in SUBSET m |-> h[s]] /\ k = [s \in SUBSET m |-> k[s]]
    OBVIOUS
  <2> HIDE DEF h
  <2>4. [s \in SUBSET m |-> h[s]] = [s \in SUBSET m |-> k[s]]
    BY <2>2
  <2>5. h = k
    BY <2>3, <2>4
  <2>. QED  BY <2>5 DEF Adds
<1>. QED  BY <1>2, <1>6

\* The sum is what adding up the values in the order of Pick gives.
LEMMA SumIs ==
  ASSUME NEW f, NEW g, Adds(f, DOMAIN f, g), IsFiniteSet(DOMAIN f)
  PROVE  SumFunction(f) = g[DOMAIN f]
<1> DEFINE iter == CHOOSE h : Adds(f, DOMAIN f, h)
<1>1. SumFunction(f) = iter[DOMAIN f]
  BY DEF SumFunction, SumFunctionOnSet, FoldFunctionOnSet, MapThenFoldSet, Adds, Pick
<1>2. Adds(f, DOMAIN f, iter)
  BY AddsExist
<1> HIDE DEF iter
<1>. QED  BY <1>1, <1>2, AddsOnce

\* The sum does not depend on the order.
LEMMA AddsAny ==
  ASSUME NEW f, NEW S, NEW g, Adds(f, S, g), IsFiniteSet(S),
         \A x \in S : f[x] \in Nat
  PROVE  /\ g[{}] = 0
         /\ \A s \in SUBSET S :
              /\ g[s] \in Nat
              /\ \A x \in s : g[s] = f[x] + g[s \ {x}]
<1> DEFINE Good(s) == /\ g[s] \in Nat
                      /\ \A x \in s : g[s] = f[x] + g[s \ {x}]
           B == {s \in SUBSET S : ~Good(s)}
<1>1. g[{}] = 0
  BY DEF Adds
<1>2. ASSUME B # {} PROVE FALSE
  <2>1. B \in SUBSET SUBSET S
    OBVIOUS
  <2> HIDE DEF B
  <2>2. PICK m \in B : \A s \in B : s \subseteq m => s = m
    BY <1>2, <2>1, LeastSubset
  <2> DEFINE p == Pick(m)
  <2>3. m \in SUBSET S /\ ~Good(m)
    BY <2>2 DEF B
  <2>4. m # {}
    BY <1>1, <2>3
  <2>5. p \in m /\ g[m] = f[p] + g[m \ {p}]
    BY <2>3, <2>4, PickIn DEF Adds
  <2> HIDE DEF p, Good
  <2>6. ASSUME NEW x \in m PROVE Good(m \ {x})
    BY <2>2, <2>3 DEF B
  <2>7. g[m] \in Nat
    BY <2>3, <2>5, <2>6 DEF Good
  <2>8. ASSUME NEW x \in m, x # p PROVE g[m] = f[x] + g[m \ {x}]
    <3>1. g[m \ {p}] = f[x] + g[(m \ {p}) \ {x}]
      BY <2>5, <2>6, <2>8 DEF Good
    <3>2. g[m \ {x}] = f[p] + g[(m \ {x}) \ {p}]
      BY <2>5, <2>6, <2>8 DEF Good
    <3>3. (m \ {p}) \ {x} = (m \ {x}) \ {p}
      OBVIOUS
    <3>4. (m \ {p}) \ {x} \in SUBSET S /\ m \ {x} # m /\ m \ {p} # m
      BY <2>3, <2>5
    <3>5. Good((m \ {p}) \ {x})
      <4>1. (m \ {p}) \ {x} \subseteq m /\ (m \ {p}) \ {x} # m
        BY <2>5
      <4>. QED  BY <2>2, <3>4, <4>1 DEF B
    <3>6. f[x] \in Nat /\ f[p] \in Nat /\ g[(m \ {p}) \ {x}] \in Nat
      BY <2>3, <2>5, <3>5 DEF Good
    <3>. QED  BY <2>5, <3>1, <3>2, <3>3, <3>6
  <2>. QED  BY <2>3, <2>5, <2>7, <2>8 DEF Good
<1>. QED  BY <1>1, <1>2

\* Two disjoint sets add up to their union.
LEMMA AddsUnion ==
  ASSUME NEW f, NEW S, NEW g, Adds(f, S, g), IsFiniteSet(S),
         \A x \in S : f[x] \in Nat,
         NEW u \in SUBSET S, NEW v \in SUBSET S, u \cap v = {}
  PROVE  g[u \cup v] = g[u] + g[v]
<1> DEFINE B == {s \in SUBSET u : g[s \cup v] # g[s] + g[v]}
<1>1. /\ g[{}] = 0
      /\ \A s \in SUBSET S : /\ g[s] \in Nat
                             /\ \A x \in s : g[s] = f[x] + g[s \ {x}]
  BY AddsAny
<1>2. ASSUME B # {} PROVE FALSE
  <2>1. B \in SUBSET SUBSET u /\ IsFiniteSet(u)
    BY FS_Subset
  <2> HIDE DEF B
  <2>2. PICK m \in B : \A s \in B : s \subseteq m => s = m
    BY <1>2, <2>1, LeastSubset
  <2>3. m \in SUBSET u /\ g[m \cup v] # g[m] + g[v]
    BY <2>2 DEF B
  <2>4. ASSUME m = {} PROVE FALSE
    BY <1>1, <2>3, <2>4
  <2>5. PICK x : x \in m
    BY <2>4
  <2>6. m \ {x} \notin B /\ m \ {x} \in SUBSET u
    BY <2>2, <2>3, <2>5
  <2>7. g[(m \ {x}) \cup v] = g[m \ {x}] + g[v]
    BY <2>6 DEF B
  <2>8. (m \cup v) \ {x} = (m \ {x}) \cup v
    BY <2>3, <2>5
  <2>9. g[m \cup v] = f[x] + g[(m \ {x}) \cup v] /\ g[m] = f[x] + g[m \ {x}]
    <3>1. m \cup v \in SUBSET S /\ m \in SUBSET S /\ x \in m \cup v
      BY <2>3, <2>5
    <3>2. g[m \cup v] = f[x] + g[(m \cup v) \ {x}] /\ g[m] = f[x] + g[m \ {x}]
      BY <1>1, <2>5, <3>1
    <3>. QED  BY <3>2, <2>8
  <2>10. f[x] \in Nat /\ g[m \ {x}] \in Nat /\ g[v] \in Nat
    BY <1>1, <2>3, <2>5
  <2>. QED  BY <2>3, <2>7, <2>9, <2>10
<1>3. u \notin B
  BY <1>2
<1>. QED  BY <1>3

\* The sum over a part of a function's domain.
LEMMA SumOver ==
  ASSUME NEW f, NEW S, NEW g, Adds(f, S, g), IsFiniteSet(S), NEW T \in SUBSET S
  PROVE  SumFunction([x \in T |-> f[x]]) = g[T]
<1> DEFINE h == [x \in T |-> f[x]]
<1>1. IsFiniteSet(T) /\ DOMAIN h = T
  BY FS_Subset
<1>2. \A x \in T : h[x] = f[x]
  OBVIOUS
<1> HIDE DEF h
<1>3. PICK k : Adds(h, T, k)
  BY <1>1, AddsExist
<1>4. SumFunction(h) = k[T]
  BY <1>1, <1>3, SumIs
<1>5. Adds(f, T, k)
  <2>1. \A s \in SUBSET T : s # {} => h[Pick(s)] = f[Pick(s)]
    BY <1>2, PickIn
  <2>2. [s \in SUBSET T |-> IF s = {} THEN 0 ELSE h[Pick(s)] + k[s \ {Pick(s)}]]
          = [s \in SUBSET T |-> IF s = {} THEN 0 ELSE f[Pick(s)] + k[s \ {Pick(s)}]]
    BY <2>1
  <2>. QED  BY <1>3, <2>2 DEF Adds
<1>6. k[T] = g[T]
  BY <1>1, <1>5, AddsOnce
<1>. QED  BY <1>4, <1>6 DEF h

\* What f adds up to over the part T of its domain.
Total(f, T) == SumFunction([x \in T |-> f[x]])

LEMMA SumsAddUp ==
  ASSUME NEW f, NEW S, IsFiniteSet(S), \A x \in S : f[x] \in Nat
  PROVE  /\ Total(f, {}) = 0
         /\ \A x \in S : Total(f, {x}) = f[x]
         /\ \A T \in SUBSET S : Total(f, T) \in Nat
         /\ \A T, U \in SUBSET S :
              T \cap U = {} => Total(f, T \cup U) = Total(f, T) + Total(f, U)
<1>1. PICK g : Adds(f, S, g)
  BY AddsExist
<1>2. \A T \in SUBSET S : Total(f, T) = g[T]
  BY <1>1, SumOver DEF Total
<1>3. Total(f, {}) = 0
  BY <1>1, <1>2 DEF Adds
<1>4. \A T \in SUBSET S : Total(f, T) \in Nat
  BY <1>1, <1>2, AddsAny
<1>5. ASSUME NEW T \in SUBSET S, NEW U \in SUBSET S, T \cap U = {}
      PROVE  Total(f, T \cup U) = Total(f, T) + Total(f, U)
  <2>1. g[T \cup U] = g[T] + g[U]
    BY <1>1, <1>5, AddsUnion
  <2>2. T \cup U \in SUBSET S
    OBVIOUS
  <2>. QED  BY <1>2, <2>1, <2>2
<1>6. ASSUME NEW x \in S PROVE Total(f, {x}) = f[x]
  <2>1. {x} \in SUBSET S /\ x \in {x} /\ {x} \ {x} = {}
    OBVIOUS
  <2>2. /\ g[{}] = 0
        /\ \A s \in SUBSET S :
             /\ g[s] \in Nat
             /\ \A y \in s : g[s] = f[y] + g[s \ {y}]
    BY <1>1, AddsAny
  <2>3. g[{x}] = f[x] + 0
    BY <2>1, <2>2
  <2>. QED  BY <1>2, <2>1, <2>3
<1>. QED  BY <1>3, <1>4, <1>5, <1>6

-----------------------------------------------------------------------------
(* The ledgers.                                                            *)

LedgerInv ==
  /\ row \in [Keys -> Row \cup {Absent}]
  /\ metering \subseteq [key : Keys, input : Input]
  /\ IsFiniteSet(chain)

\* What a step may do to the rows: those that are there keep what they are
\* about, and a settled one stays as it is.
Kept ==
  \A k \in Keys :
    row[k] \in Row => /\ row'[k] \in Row
                      /\ row'[k].input = row[k].input
                      /\ row'[k].share = row[k].share
                      /\ row[k].settled => row'[k] = row[k]

LEMMA AbsentIsNoRow == Absent \notin Row
<1> SUFFICES ASSUME Absent \in Row PROVE FALSE
  OBVIOUS
<1>1. DOMAIN Absent = {"input", "share", "pos", "settled", "sig"}
  BY DEF Row
<1>2. DOMAIN Absent = {"share"}
  BY DEF Absent
<1>. QED  BY <1>1, <1>2

LEMMA PresentRow ==
  ASSUME LedgerInv, NEW k \in Keys
  PROVE  Present(k) <=> row[k] \in Row
BY AbsentIsNoRow DEF LedgerInv, Present

LEMMA PositionsType ==
  ASSUME LedgerInv, NEW k \in Keys
  PROVE  Positions(k) \subseteq Nat
<1> DEFINE ledger == IF k \in Sessions THEN Sessions ELSE Attempts
           present == {i \in ledger : Present(i)}
           taken == {row[j].pos : j \in present}
           pos == [j \in present |-> row[j].pos]
<1>1. IsFiniteSet(present)
  BY SettlementAssumption, FS_Subset DEF SettlementAssumption
<1>2. pos \in Surjection(present, taken)
  BY DEF Surjection
<1> HIDE DEF pos
<1>3. Cardinality(taken) \in Nat
  BY <1>1, <1>2, FS_Surjection, FS_CardinalityType
<1>4. Cardinality(Attempts) \in Nat
  BY SettlementAssumption, FS_CardinalityType DEF SettlementAssumption
<1>5. Positions(k) = IF k \in Sessions THEN {Cardinality(taken) + 1}
                     ELSE (1 .. Cardinality(Attempts)) \ taken
  BY DEF Positions
<1> HIDE DEF taken
<1>. QED  BY <1>3, <1>4, <1>5

LEMMA NewRowType ==
  ASSUME NEW k \in Keys, NEW in \in Input, NEW pos \in Nat
  PROVE  NewRow(k, in, pos) \in Row /\ NewRow(k, in, pos).settled = FALSE
<1>1. MeteredInput(k, in) \in Input
  BY DEF MeteredInput, Input
<1>2. ProviderShare(in.consumed) \in Amount
  <2>1. in.consumed \in Amount
    BY DEF Input
  <2>. QED  BY <2>1, SharesAddUp, WordAssumption DEF Amount
<1>. QED  BY <1>1, <1>2 DEF NewRow, Row

LEMMA InsertKept ==
  ASSUME LedgerInv, NEW m \in metering, MeterInsert(m)
  PROVE  Kept /\ LedgerInv' /\ UNCHANGED <<run, chain>>
<1>1. m.key \in Keys /\ m.input \in Input
  BY DEF LedgerInv
<1>2. /\ metering' = metering \ {m} /\ UNCHANGED <<run, chain>>
      /\ \/ Present(m.key) /\ row' = [row EXCEPT ![m.key] = row[m.key]]
         \/ ~Present(m.key) /\ \E pos \in Positions(m.key) :
              row' = [row EXCEPT ![m.key] = NewRow(m.key, m.input, pos)]
  BY DEF MeterInsert, Inserted
<1>3. CASE row' = [row EXCEPT ![m.key] = row[m.key]]
  <2>1. row' = row
    BY <1>1, <1>3 DEF LedgerInv
  <2>. QED  BY <1>2, <2>1 DEF Kept, LedgerInv
<1>4. ASSUME ~Present(m.key), NEW pos \in Positions(m.key),
             row' = [row EXCEPT ![m.key] = NewRow(m.key, m.input, pos)]
      PROVE  Kept /\ LedgerInv'
  <2>1. NewRow(m.key, m.input, pos) \in Row
    BY <1>1, PositionsType, NewRowType
  <2>2. row[m.key] \notin Row
    BY <1>1, <1>4, PresentRow
  <2>. QED  BY <1>1, <1>2, <1>4, <2>1, <2>2 DEF Kept, LedgerInv
<1>. QED  BY <1>2, <1>3, <1>4

-----------------------------------------------------------------------------
(* What is owed, and what a run of the worker holds.                       *)

Owed(keys, wallet, sum) ==
  /\ keys \subseteq Keys
  /\ sum = SumShares(keys)
  /\ \A k \in keys : /\ row[k] \in Row
                     /\ row[k].input.provider = wallet
                     /\ row[k].input.customer # wallet
                     /\ row[k].share >= MinSettlement

OwedBatch(b) == Owed(b.keys, b.wallet, b.sum)

\* The chain executed the transfer of batch b with signature sig.
Executed(b, sig) ==
  \E t \in chain : t.sig = sig /\ t.wallet = b.wallet /\ t.keys = b.keys

StateOK(state) ==
  /\ DOMAIN state = {"pc", "todo", "budget", "batch", "tries", "sig"}
  /\ \A b \in state.todo : OwedBatch(b)
  /\ state.pc \in {"submit", "confirm", "mark"} => OwedBatch(state.batch)
  /\ state.pc \in {"confirm", "mark"} => Executed(state.batch, state.sig)
  /\ state.sig \in Nat

RunInv ==
  /\ run = [r \in Runners |-> run[r]]
  /\ \A r \in Runners : StateOK(run[r])

ChainInv == \A t \in chain : Owed(t.keys, t.wallet, t.sum)

PaidInv == LedgerInv /\ RunInv /\ ChainInv /\ SettledWasPaid

LEMMA OwedStays ==
  ASSUME Kept, NEW keys, NEW wallet, NEW sum, Owed(keys, wallet, sum)
  PROVE  Owed(keys, wallet, sum)'
<1>1. \A k \in keys : row'[k] \in Row /\ row'[k].input = row[k].input
                      /\ row'[k].share = row[k].share
  BY DEF Kept, Owed
<1>2. [k \in keys |-> row'[k].share] = [k \in keys |-> row[k].share]
  BY <1>1
<1>3. SumShares(keys)' = SumShares(keys)
  BY <1>2 DEF SumShares
<1>. QED  BY <1>1, <1>3 DEF Owed

LEMMA StateStays ==
  ASSUME Kept, chain \subseteq chain', NEW state, StateOK(state)
  PROVE  StateOK(state)'
<1>1. \A b : OwedBatch(b) => OwedBatch(b)'
  BY OwedStays DEF OwedBatch
<1>2. \A b, sig : Executed(b, sig) => Executed(b, sig)'
  BY DEF Executed
<1>. QED  BY <1>1, <1>2 DEF StateOK

LEMMA IdleOK == StateOK(Idle)
BY DEF StateOK, Idle

LEMMA DoneOK ==
  ASSUME NEW state, StateOK(state)
  PROVE  StateOK(Done(state)) /\ StateOK(Charged(state))
BY DEF StateOK, Done, Charged

LEMMA BatchesOwed ==
  ASSUME LedgerInv, NEW ledger \in SUBSET Keys, NEW b \in Batches(ledger)
  PROVE  OwedBatch(b)
<1>1. PICK w : b = [wallet |-> w,
                    keys |-> {k \in Unsettled(ledger) : row[k].input.provider = w},
                    sum |-> SumShares({k \in Unsettled(ledger) :
                                         row[k].input.provider = w})]
  BY DEF Batches
<1>2. \A k \in b.keys : k \in Keys /\ Payable(k) /\ row[k].input.provider = w
  BY <1>1 DEF Unsettled
<1>3. \A k \in b.keys : /\ row[k] \in Row /\ row[k].input.customer # w
                        /\ row[k].share >= MinSettlement
  BY <1>2, PresentRow DEF Payable
<1>. QED  BY <1>1, <1>2, <1>3 DEF OwedBatch, Owed

-----------------------------------------------------------------------------
(* The steps of the worker.                                                *)

LEMMA OthersStay ==
  ASSUME RunInv, Kept, chain \subseteq chain', NEW r \in Runners, NEW state,
         run' = [run EXCEPT ![r] = state], StateOK(run[r])'
  PROVE  RunInv'
<1>1. \A q \in Runners : q # r => run'[q] = run[q]
  OBVIOUS
<1>2. \A q \in Runners : q # r => StateOK(run[q])'
  BY <1>1, StateStays DEF RunInv
<1>3. run' = [q \in Runners |-> run'[q]]
  BY DEF RunInv
<1>. QED  BY <1>2, <1>3 DEF RunInv

\* A run moves and writes nothing.
LEMMA QuietStep ==
  ASSUME PaidInv, UNCHANGED <<row, metering, chain>>, NEW r \in Runners,
         NEW state, StateOK(state), run' = [run EXCEPT ![r] = state]
  PROVE  PaidInv'
<1>1. Kept /\ LedgerInv'
  BY DEF PaidInv, Kept, LedgerInv
<1>2. run'[r] = state
  BY DEF PaidInv, RunInv
<1>3. StateOK(run[r])'
  BY <1>1, <1>2, StateStays
<1>4. RunInv'
  BY <1>1, <1>3, OthersStay DEF PaidInv
<1>5. ChainInv'
  BY <1>1, OwedStays DEF PaidInv, ChainInv
<1>6. SettledWasPaid'
  BY DEF PaidInv, SettledWasPaid, Present
<1>. QED  BY <1>1, <1>4, <1>5, <1>6 DEF PaidInv

\* The chain takes the transfer of a run that is submitting it.
LEMMA ExecuteStep ==
  ASSUME PaidInv, NEW r \in Runners, run[r].pc = "submit", Execute(r),
         UNCHANGED <<row, metering>>, NEW state, run' = [run EXCEPT ![r] = state],
         \/ StateOK(state)
         \/ state = [run[r] EXCEPT !.pc = "confirm", !.sig = Cardinality(chain) + 1]
  PROVE  PaidInv'
<1> DEFINE b == run[r].batch
           transfer == [sig |-> Cardinality(chain) + 1, wallet |-> b.wallet,
                        sum |-> b.sum, keys |-> b.keys]
<1>1. chain' = chain \cup {transfer}
  BY DEF Execute
<1>2. Kept /\ LedgerInv'
  BY <1>1, FS_AddElement DEF PaidInv, Kept, LedgerInv
<1>3. OwedBatch(b) /\ StateOK(run[r])
  BY DEF PaidInv, RunInv, StateOK
<1>4. run'[r] = state
  BY DEF PaidInv, RunInv
<1>5. StateOK(run[r])'
  <2>1. CASE StateOK(state)
    BY <1>1, <1>2, <1>4, <2>1, StateStays
  <2>2. CASE state = [run[r] EXCEPT !.pc = "confirm", !.sig = Cardinality(chain) + 1]
    <3>1. Cardinality(chain) \in Nat
      BY FS_CardinalityType DEF PaidInv, LedgerInv
    <3>2. /\ DOMAIN state = DOMAIN run[r]
          /\ state.batch = b /\ state.todo = run[r].todo
          /\ state.sig = Cardinality(chain) + 1
      BY <1>3, <2>2 DEF StateOK
    <3>3. \A c : OwedBatch(c) => OwedBatch(c)'
      BY <1>2, OwedStays DEF OwedBatch
    <3>4. Executed(run[r].batch, run[r].sig)'
      <4>1. /\ transfer \in chain' /\ transfer.sig = run'[r].sig
            /\ transfer.wallet = run'[r].batch.wallet
            /\ transfer.keys = run'[r].batch.keys
        BY <1>1, <1>4, <3>2
      <4>. QED  BY <4>1 DEF Executed
    <3>. QED  BY <1>3, <1>4, <3>1, <3>2, <3>3, <3>4 DEF StateOK
  <2>. QED  BY <2>1, <2>2
<1>6. RunInv'
  BY <1>1, <1>2, <1>5, OthersStay DEF PaidInv
<1>7. ChainInv'
  <2>1. Owed(transfer.keys, transfer.wallet, transfer.sum)
    BY <1>3 DEF OwedBatch
  <2>2. \A t \in chain' : Owed(t.keys, t.wallet, t.sum)
    BY <1>1, <2>1 DEF PaidInv, ChainInv
  <2>. QED  BY <1>2, <2>2, OwedStays DEF ChainInv
<1>8. SettledWasPaid'
  BY <1>1 DEF PaidInv, SettledWasPaid, Present
<1>. QED  BY <1>2, <1>6, <1>7, <1>8 DEF PaidInv

LEMMA MarkKept ==
  ASSUME PaidInv, NEW r \in Runners, MarkSettled(r)
  PROVE  /\ Kept /\ LedgerInv'
         /\ \A k \in Keys :
              row[k] \in Row /\ row'[k] # row[k]
                => k \in run[r].batch.keys /\ row'[k].sig = run[r].sig
<1>1. /\ row' = [k \in Keys |-> IF k \in run[r].batch.keys
                                THEN Stamped(k, run[r].sig) ELSE row[k]]
      /\ UNCHANGED <<metering, chain>>
  BY DEF MarkSettled
<1>2. /\ run[r].sig \in Nat
      /\ \A k \in run[r].batch.keys : k \in Keys /\ row[k] \in Row
  BY DEF MarkSettled, PaidInv, RunInv, StateOK, OwedBatch, Owed
<1>3. \A k \in Keys :
        row[k] \in Row => /\ Stamped(k, run[r].sig) \in Row
                          /\ Stamped(k, run[r].sig).input = row[k].input
                          /\ Stamped(k, run[r].sig).share = row[k].share
                          /\ \/ Stamped(k, run[r].sig) = row[k]
                             \/ /\ ~row[k].settled
                                /\ Stamped(k, run[r].sig).sig = run[r].sig
  BY <1>2 DEF Stamped, Row
<1>. QED  BY <1>1, <1>2, <1>3 DEF Kept, PaidInv, LedgerInv

LEMMA MarkKeepsInv ==
  ASSUME PaidInv, NEW r \in Runners, MarkSettled(r)
  PROVE  PaidInv'
<1>1. /\ run[r].pc = "mark" /\ run' = [run EXCEPT ![r] = Charged(run[r])]
      /\ UNCHANGED chain
  BY DEF MarkSettled
<1>2. StateOK(run[r]) /\ run'[r] = Charged(run[r])
  BY <1>1 DEF PaidInv, RunInv
<1>3. Kept /\ LedgerInv'
  BY MarkKept
<1>4. RunInv'
  <2>1. StateOK(run[r])'
    BY <1>1, <1>2, <1>3, DoneOK, StateStays
  <2>. QED  BY <1>1, <1>3, <2>1, OthersStay DEF PaidInv
<1>5. ChainInv'
  BY <1>1, <1>3, OwedStays DEF PaidInv, ChainInv
<1>6. SettledWasPaid'
  <2> SUFFICES ASSUME NEW k \in Keys, Present(k)', row'[k].settled
               PROVE  \E t \in chain : /\ t.sig = row'[k].sig
                                       /\ t.wallet = row'[k].input.provider
                                       /\ k \in t.keys
    BY <1>1 DEF SettledWasPaid
  <2>1. CASE row'[k] = row[k]
    BY <2>1 DEF PaidInv, SettledWasPaid, Present
  <2>2. CASE row'[k] # row[k]
    <3>1. k \in run[r].batch.keys /\ OwedBatch(run[r].batch)
      BY <1>1, <1>2, <2>2 DEF StateOK, MarkSettled
    <3>2. row[k] \in Row /\ row[k].input.provider = run[r].batch.wallet
      BY <3>1 DEF OwedBatch, Owed
    <3>3. row'[k].sig = run[r].sig /\ row'[k].input = row[k].input
      BY <1>3, <2>2, <3>2, MarkKept DEF Kept
    <3>4. Executed(run[r].batch, run[r].sig)
      BY <1>1, <1>2 DEF StateOK
    <3>. QED  BY <3>1, <3>2, <3>3, <3>4 DEF Executed
  <2>. QED  BY <2>1, <2>2
<1>. QED  BY <1>3, <1>4, <1>5, <1>6 DEF PaidInv

LEMMA InsertKeepsInv ==
  ASSUME PaidInv, NEW m \in metering, MeterInsert(m)
  PROVE  PaidInv'
<1>1. Kept /\ LedgerInv' /\ UNCHANGED <<run, chain>>
  BY InsertKept DEF PaidInv
<1>2. RunInv'
  BY <1>1, StateStays DEF PaidInv, RunInv
<1>3. ChainInv'
  BY <1>1, OwedStays DEF PaidInv, ChainInv
<1>4. SettledWasPaid'
  <2> SUFFICES ASSUME NEW k \in Keys, Present(k)', row'[k].settled
               PROVE  \E t \in chain : /\ t.sig = row'[k].sig
                                       /\ t.wallet = row'[k].input.provider
                                       /\ k \in t.keys
    BY <1>1 DEF SettledWasPaid
  <2>1. CASE row'[k] = row[k]
    BY <2>1 DEF PaidInv, SettledWasPaid, Present
  <2>2. CASE row'[k] # row[k]
    <3>1. PICK pos \in Positions(m.key) : row'[k] = NewRow(m.key, m.input, pos)
      BY <2>2 DEF MeterInsert, Inserted, PaidInv, LedgerInv
    <3>2. row'[k].settled = FALSE
      BY <3>1, NewRowType, PositionsType DEF PaidInv, LedgerInv
    <3>. QED  BY <3>2
  <2>. QED  BY <2>1, <2>2
<1>. QED  BY <1>1, <1>2, <1>3, <1>4 DEF PaidInv

\* The queries and the balance: a run starts, or gives up.
LEMMA ReadsKeepInv ==
  ASSUME PaidInv, NEW r \in Runners,
         ListSessions(r) \/ ListBuilds(r) \/ ReadBalance(r)
  PROVE  PaidInv'
<1>1. UNCHANGED <<row, metering, chain>>
  BY DEF ListSessions, ListBuilds, ReadBalance
<1>2. StateOK(run[r]) /\ LedgerInv
  BY DEF PaidInv, RunInv
<1>3. CASE ListSessions(r)
  <2> DEFINE state == [Idle EXCEPT !.pc = "builds", !.todo = Batches(Sessions)]
  <2>1. StateOK(state)
    BY <1>2, BatchesOwed DEF StateOK, Idle, Keys
  <2>2. run' = [run EXCEPT ![r] = state]
    BY <1>3 DEF ListSessions
  <2>. QED  BY <1>1, <2>1, <2>2, QuietStep
<1>4. CASE ListBuilds(r)
  <2> DEFINE todo == run[r].todo \cup Batches(Attempts)
             state == IF Cancelled(r) \/ todo = {} THEN Idle
                      ELSE [run[r] EXCEPT !.pc = "balance", !.todo = todo]
  <2>1. \A b \in todo : OwedBatch(b)
    BY <1>2, BatchesOwed DEF StateOK, Keys
  <2>2. StateOK(state)
    BY <1>2, <2>1, IdleOK DEF StateOK
  <2>3. run' = [run EXCEPT ![r] = state]
    BY <1>4 DEF ListBuilds
  <2>. QED  BY <1>1, <2>2, <2>3, QuietStep
<1>5. CASE ReadBalance(r)
  <2> DEFINE state == IF Cancelled(r) THEN Idle
                      ELSE [run[r] EXCEPT !.pc = "drain", !.budget = treasury]
  <2>1. StateOK(state)
    BY <1>2, IdleOK DEF StateOK
  <2>2. run' = [run EXCEPT ![r] = state]
    BY <1>5 DEF ReadBalance
  <2>. QED  BY <1>1, <2>1, <2>2, QuietStep
<1>. QED  BY <1>3, <1>4, <1>5

\* A batch is taken, and submitted once or more often.
LEMMA SubmitsKeepInv ==
  ASSUME PaidInv, NEW r \in Runners,
         \/ \E b \in run[r].todo : TakeBatch(r, b)
         \/ Submitted(r) \/ SubmitFails(r) \/ SubmitRetries(r)
  PROVE  PaidInv'
<1>1. StateOK(run[r])
  BY DEF PaidInv, RunInv
<1>2. ASSUME NEW b \in run[r].todo, TakeBatch(r, b) PROVE PaidInv'
  <2> DEFINE state == IF b.sum > run[r].budget
                      THEN [run[r] EXCEPT !.todo = run[r].todo \ {b}]
                      ELSE [run[r] EXCEPT !.pc = "submit", !.batch = b, !.tries = 0]
  <2>1. StateOK(state)
    BY <1>1, <1>2 DEF StateOK, TakeBatch
  <2>2. run' = [run EXCEPT ![r] = state] /\ UNCHANGED <<row, metering, chain>>
    <3>1. CASE b.sum > run[r].budget
      BY <1>2, <3>1 DEF TakeBatch
    <3>2. CASE ~(b.sum > run[r].budget)
      BY <1>2, <3>2 DEF TakeBatch
    <3>. QED  BY <3>1, <3>2
  <2>. QED  BY <2>1, <2>2, QuietStep
<1>3. ASSUME Submitted(r) PROVE PaidInv'
  <2> DEFINE state == [run[r] EXCEPT !.pc = "confirm", !.sig = Cardinality(chain) + 1]
  <2>1. run' = [run EXCEPT ![r] = state]
    BY <1>3 DEF Submitted
  <2>. QED  BY <1>3, <2>1, ExecuteStep DEF Submitted
<1>4. ASSUME SubmitFails(r) PROVE PaidInv'
  <2>1. run' = [run EXCEPT ![r] = Done(run[r])] /\ UNCHANGED <<row, metering, chain>>
    BY <1>4 DEF SubmitFails
  <2>. QED  BY <1>1, <2>1, DoneOK, QuietStep
<1>5. ASSUME SubmitRetries(r) PROVE PaidInv'
  <2> DEFINE state == IF run[r].tries + 1 >= MaxTries THEN Done(run[r])
                      ELSE [run[r] EXCEPT !.tries = run[r].tries + 1]
  <2>1. StateOK([run[r] EXCEPT !.tries = run[r].tries + 1])
    BY <1>1 DEF StateOK
  <2>2. StateOK(state)
    BY <1>1, <2>1, DoneOK
  <2>3. /\ run' = [run EXCEPT ![r] = state] /\ run[r].pc = "submit"
        /\ UNCHANGED <<row, metering>>
        /\ Execute(r) \/ UNCHANGED chain
    <3>1. CASE run[r].tries + 1 >= MaxTries
      BY <1>5, <3>1 DEF SubmitRetries
    <3>2. CASE ~(run[r].tries + 1 >= MaxTries)
      BY <1>5, <3>2 DEF SubmitRetries
    <3>. QED  BY <3>1, <3>2
  <2> HIDE DEF state
  <2>. QED  BY <2>2, <2>3, QuietStep, ExecuteStep
<1>. QED  BY <1>2, <1>3, <1>4, <1>5

\* The wait for the confirmation, a failed update, the end of a run.
LEMMA EndsKeepInv ==
  ASSUME PaidInv, NEW r \in Runners,
         Confirmed(r) \/ ConfirmFails(r) \/ MarkFails(r) \/ Finish(r)
  PROVE  PaidInv'
<1>1. StateOK(run[r])
  BY DEF PaidInv, RunInv
<1>2. UNCHANGED <<row, metering, chain>>
  BY DEF Confirmed, ConfirmFails, MarkFails, Finish
<1>3. CASE Confirmed(r)
  <2>1. run[r].pc = "confirm" /\ run' = [run EXCEPT ![r] = [run[r] EXCEPT !.pc = "mark"]]
    BY <1>3 DEF Confirmed
  <2>2. StateOK([run[r] EXCEPT !.pc = "mark"])
    BY <1>1, <2>1 DEF StateOK
  <2>. QED  BY <1>2, <2>1, <2>2, QuietStep
<1>4. CASE ConfirmFails(r) \/ MarkFails(r)
  <2>1. run' = [run EXCEPT ![r] = Done(run[r])]
    BY <1>4 DEF ConfirmFails, MarkFails
  <2>. QED  BY <1>1, <1>2, <2>1, DoneOK, QuietStep
<1>5. CASE Finish(r)
  <2>1. run' = [run EXCEPT ![r] = Idle]
    BY <1>5 DEF Finish
  <2>. QED  BY <1>2, <2>1, IdleOK, QuietStep
<1>. QED  BY <1>3, <1>4, <1>5

\* Steps that leave the rows, the chain and the runs alone, and a crash.
LEMMA StillStep ==
  ASSUME PaidInv, UNCHANGED <<row, chain>>, LedgerInv',
         UNCHANGED run \/ run' = [r \in Runners |-> Idle]
  PROVE  PaidInv'
<1>1. Kept
  BY DEF Kept
<1>2. RunInv'
  <2>1. CASE UNCHANGED run
    BY <1>1, <2>1, StateStays DEF PaidInv, RunInv
  <2>2. CASE run' = [r \in Runners |-> Idle]
    BY <1>1, <2>2, IdleOK, StateStays DEF RunInv
  <2>. QED  BY <2>1, <2>2
<1>3. ChainInv'
  BY <1>1, OwedStays DEF PaidInv, ChainInv
<1>4. SettledWasPaid'
  BY DEF PaidInv, SettledWasPaid, Present
<1>. QED  BY <1>2, <1>3, <1>4 DEF PaidInv

LEMMA PaidStep == PaidInv /\ [Next]_vars => PaidInv'
<1> SUFFICES ASSUME PaidInv, [Next]_vars PROVE PaidInv'
  OBVIOUS
<1>1. ASSUME NEW k \in Keys, NEW in \in Inputs, MeterLookup(k, in) PROVE PaidInv'
  <2>1. LedgerInv' /\ UNCHANGED <<row, chain, run>>
    BY <1>1, SettlementAssumption
    DEF MeterLookup, PaidInv, LedgerInv, SettlementAssumption
  <2>. QED  BY <2>1, StillStep
<1>2. ASSUME NEW r \in Runners, RunStep(r) PROVE PaidInv'
  BY <1>2, ReadsKeepInv, SubmitsKeepInv, EndsKeepInv, MarkKeepsInv DEF RunStep
<1>3. CASE Crash \/ Shutdown \/ UNCHANGED vars
  <2>1. /\ UNCHANGED <<row, metering, chain>>
        /\ UNCHANGED run \/ run' = [r \in Runners |-> Idle]
    BY <1>3 DEF Crash, Shutdown, vars
  <2>2. LedgerInv'
    BY <2>1 DEF PaidInv, LedgerInv
  <2>. QED  BY <2>1, <2>2, StillStep
<1>. QED  BY <1>1, <1>2, <1>3, InsertKeepsInv DEF Next

LEMMA PaidInit == Init => PaidInv
<1> SUFFICES ASSUME Init PROVE PaidInv
  OBVIOUS
<1>1. LedgerInv /\ ChainInv
  BY FS_EmptySet DEF Init, LedgerInv, ChainInv
<1>2. RunInv
  BY IdleOK DEF Init, RunInv
<1>3. SettledWasPaid
  BY DEF Init, SettledWasPaid, Present
<1>. QED  BY <1>1, <1>2, <1>3 DEF PaidInv

THEOREM PaidInvariant == Spec => []PaidInv
BY PaidInit, PaidStep, PTL DEF Spec

\* A row shown as settled was paid, to the wallet it names.
THEOREM SettledPaid == Spec => []SettledWasPaid
<1>1. PaidInv => SettledWasPaid
  BY DEF PaidInv
<1>. QED  BY <1>1, PaidInvariant, PTL

\* The treasury pays only what is owed.
THEOREM OnlyOwed == Spec => []OnlyOwedIsPaid
<1>1. PaidInv => OnlyOwedIsPaid
  BY DEF PaidInv, ChainInv, Owed, OnlyOwedIsPaid
<1>. QED  BY <1>1, PaidInvariant, PTL

LEMMA KeptStep ==
  ASSUME PaidInv, [Next]_vars
  PROVE  Kept
<1>1. ASSUME NEW m \in metering, MeterInsert(m) PROVE Kept
  BY <1>1, InsertKept DEF PaidInv
<1>2. ASSUME NEW r \in Runners, MarkSettled(r) PROVE Kept
  BY <1>2, MarkKept
<1>3. CASE UNCHANGED row
  BY <1>3 DEF Kept
<1>4. UNCHANGED row \/ (\E m \in metering : MeterInsert(m))
        \/ (\E r \in Runners : MarkSettled(r))
  BY DEF Next, vars, MeterLookup, RunStep, ListSessions, ListBuilds, ReadBalance,
         TakeBatch, Submitted, SubmitFails, SubmitRetries, Confirmed,
         ConfirmFails, MarkFails, Finish, Crash, Shutdown
<1>. QED  BY <1>1, <1>2, <1>3, <1>4

\* What a row is about never changes, and a settled row is final.
THEOREM WriteOnce == Spec => RowsAreWriteOnce
<1>1. PaidInv /\ [Next]_vars => Kept
  BY KeptStep
<1> DEFINE Same == \A k \in Keys : Present(k)
                     => /\ row'[k].input = row[k].input
                        /\ row'[k].share = row[k].share
                        /\ row[k].settled => row'[k] = row[k]
<1>2. PaidInv /\ [Next]_vars => [Same]_vars
  BY <1>1, PresentRow DEF Kept, PaidInv
<1>. QED  BY <1>2, PaidInvariant, PTL DEF Spec, RowsAreWriteOnce

-----------------------------------------------------------------------------
(* What the rows of the ledgers add up to.                                 *)

LEMMA SharesType ==
  ASSUME row \in [Keys -> Row \cup {Absent}]
  PROVE  /\ SumShares({}) = 0
         /\ \A K \in SUBSET Keys : SumShares(K) \in Nat
         /\ \A K, L \in SUBSET Keys :
              K \cap L = {} => SumShares(K \cup L) = SumShares(K) + SumShares(L)
<1> DEFINE share == [k \in Keys |-> row[k].share]
<1>1. IsFiniteSet(Keys)
  BY SettlementAssumption, FS_Union DEF SettlementAssumption, Keys
<1>2. \A k \in Keys : share[k] \in Nat
  <2>1. \A k \in Keys : row[k].share \in Amount \cup {0}
    BY DEF Row, Absent
  <2>. QED  BY <2>1, WordAssumption DEF Amount
<1>3. ASSUME NEW K \in SUBSET Keys PROVE SumShares(K) = Total(share, K)
  <2>1. [k \in K |-> row[k].share] = [k \in K |-> share[k]]
    OBVIOUS
  <2>. QED  BY <2>1 DEF SumShares, Total
<1> HIDE DEF share
<1>4. /\ Total(share, {}) = 0
      /\ \A K \in SUBSET Keys : Total(share, K) \in Nat
      /\ \A K, L \in SUBSET Keys :
           K \cap L = {}
             => Total(share, K \cup L) = Total(share, K) + Total(share, L)
  BY <1>1, <1>2, SumsAddUp
<1>5. \A K, L \in SUBSET Keys : K \cup L \in SUBSET Keys
  OBVIOUS
<1>. QED  BY <1>3, <1>4, <1>5

-----------------------------------------------------------------------------
(* Type correctness.                                                       *)

RunState == [pc : {"idle", "builds", "balance", "drain", "submit",
                   "confirm", "mark"},
             todo : SUBSET Batch, budget : Int, batch : Batch \cup {NoBatch},
             tries : Nat, sig : Nat]

StateType(state) ==
  /\ state \in RunState
  /\ state.pc \in {"submit", "confirm", "mark"} => state.batch \in Batch

\* A run that submits, confirms or marks has a batch in hand.
TypeInv ==
  /\ TypeOK
  /\ \A r \in Runners : StateType(run[r])

LEMMA BatchesType ==
  ASSUME LedgerInv, NEW ledger \in SUBSET Keys
  PROVE  Batches(ledger) \subseteq Batch
<1> SUFFICES ASSUME NEW b \in Batches(ledger) PROVE b \in Batch
  OBVIOUS
<1> DEFINE Of(w) == {k \in Unsettled(ledger) : row[k].input.provider = w}
<1>1. PICK j \in Unsettled(ledger) :
        b = [wallet |-> row[j].input.provider, keys |-> Of(row[j].input.provider),
             sum |-> SumShares(Of(row[j].input.provider))]
  BY DEF Batches
<1>2. j \in Keys /\ row[j] \in Row /\ row[j].input.provider # NoWallet
  BY <1>1, PresentRow DEF Unsettled, Payable
<1>3. row[j].input.provider \in Wallets
  BY <1>2 DEF Row, Input
<1>4. Of(row[j].input.provider) \in SUBSET Keys
  BY DEF Unsettled
<1>5. SumShares(Of(row[j].input.provider)) \in Nat
  BY <1>4, SharesType DEF LedgerInv
<1> HIDE DEF Of
<1>. QED  BY <1>1, <1>3, <1>4, <1>5 DEF Batch

LEMMA IdleType == StateType(Idle)
<1>1. NoBatch.sum = 0
  BY DEF NoBatch
<1>. QED  BY DEF StateType, RunState, Idle

LEMMA DoneType ==
  ASSUME NEW state, StateType(state)
  PROVE  StateType(Done(state)) /\ StateType(Charged(state))
<1>1. state.batch.sum \in Nat
  BY DEF StateType, RunState, Batch, NoBatch
<1>2. state.todo \ {state.batch} \in SUBSET Batch /\ state.budget \in Int
  BY DEF StateType, RunState
<1>3. StateType(Done(state)) /\ Done(state).budget \in Int /\ Done(state).pc = "drain"
  BY <1>2 DEF StateType, RunState, Done
<1>4. Done(state).budget = state.budget
  BY DEF StateType, RunState, Done
<1>. QED  BY <1>1, <1>2, <1>3, <1>4 DEF StateType, RunState, Charged

LEMMA TransferType ==
  ASSUME LedgerInv, TypeInv, NEW r \in Runners, run[r].pc = "submit", Execute(r)
  PROVE  /\ treasury' \in Nat /\ chain' \subseteq Transfer
         /\ Cardinality(chain) + 1 \in Nat
<1>1. run[r].batch \in Batch
  BY DEF TypeInv, StateType
<1>2. Cardinality(chain) \in Nat
  BY FS_CardinalityType DEF LedgerInv
<1>3. treasury' \in Nat
  BY <1>1 DEF Execute, Batch, TypeInv, TypeOK
<1>4. [sig |-> Cardinality(chain) + 1, wallet |-> run[r].batch.wallet,
       sum |-> run[r].batch.sum, keys |-> run[r].batch.keys] \in Transfer
  BY <1>1, <1>2 DEF Batch, Transfer
<1>. QED  BY <1>2, <1>3, <1>4 DEF Execute, TypeInv, TypeOK

\* A run moves to a state that is well typed.
LEMMA MoveType ==
  ASSUME TypeInv, NEW r \in Runners, NEW state, StateType(state),
         run' = [run EXCEPT ![r] = state],
         LedgerInv', treasury' \in Nat, chain' \subseteq Transfer,
         UNCHANGED stopped, faults' \in Nat
  PROVE  TypeInv'
<1>1. run \in [Runners -> RunState] /\ state \in RunState
  BY DEF TypeInv, TypeOK, StateType, RunState
<1>2. run' \in [Runners -> RunState]
  BY <1>1
<1>3. \A q \in Runners : StateType(run'[q])
  BY <1>1 DEF TypeInv
<1>4. TypeOK'
  BY <1>2 DEF TypeInv, TypeOK, LedgerInv, RunState
<1>. QED  BY <1>3, <1>4 DEF TypeInv, StateType

LEMMA FaultType ==
  ASSUME faults \in Nat, NEW kind, Fault(kind) \/ UNCHANGED faults
  PROVE  faults' \in Nat
BY DEF Fault

LEMMA RunStepType ==
  ASSUME PaidInv, PaidInv', TypeInv, NEW r \in Runners, RunStep(r)
  PROVE  TypeInv'
<1>1. LedgerInv /\ LedgerInv'
  BY DEF PaidInv
<1>2. /\ StateType(run[r]) /\ treasury \in Nat /\ chain \subseteq Transfer
      /\ faults \in Nat
  BY DEF TypeInv, TypeOK
<1>3. CASE ListSessions(r)
  <2> DEFINE state == [Idle EXCEPT !.pc = "builds", !.todo = Batches(Sessions)]
  <2>1. StateType(state)
    <3>1. Batches(Sessions) \subseteq Batch
      BY <1>1, BatchesType DEF Keys
    <3>. QED  BY <3>1, IdleType DEF StateType, RunState
  <2>2. /\ run' = [run EXCEPT ![r] = state]
        /\ UNCHANGED <<treasury, chain, stopped, faults>>
    BY <1>3 DEF ListSessions
  <2>. QED  BY <1>1, <1>2, <2>1, <2>2, MoveType
<1>4. CASE ListBuilds(r)
  <2> DEFINE todo == run[r].todo \cup Batches(Attempts)
             state == IF Cancelled(r) \/ todo = {} THEN Idle
                      ELSE [run[r] EXCEPT !.pc = "balance", !.todo = todo]
  <2>1. StateType(state)
    <3>1. Batches(Attempts) \subseteq Batch
      BY <1>1, BatchesType DEF Keys
    <3>2. todo \in SUBSET Batch
      BY <1>2, <3>1 DEF StateType, RunState
    <3> HIDE DEF todo
    <3>3. StateType([run[r] EXCEPT !.pc = "balance", !.todo = todo])
      BY <1>2, <3>2 DEF StateType, RunState
    <3>. QED  BY <3>3, IdleType
  <2>2. /\ run' = [run EXCEPT ![r] = state]
        /\ UNCHANGED <<treasury, chain, stopped, faults>>
    BY <1>4 DEF ListBuilds
  <2>. QED  BY <1>1, <1>2, <2>1, <2>2, MoveType
<1>5. CASE ReadBalance(r)
  <2> DEFINE state == IF Cancelled(r) THEN Idle
                      ELSE [run[r] EXCEPT !.pc = "drain", !.budget = treasury]
  <2>1. StateType(state)
    <3>1. StateType(run[r]) /\ treasury \in Int
      BY <1>2
    <3>2. StateType([run[r] EXCEPT !.pc = "drain", !.budget = treasury])
      BY <3>1 DEF StateType, RunState
    <3>. QED  BY <3>2, IdleType
  <2>2. /\ run' = [run EXCEPT ![r] = state]
        /\ UNCHANGED <<treasury, chain, stopped, faults>>
    BY <1>5 DEF ReadBalance
  <2>. QED  BY <1>1, <1>2, <2>1, <2>2, MoveType
<1>6. ASSUME NEW b \in run[r].todo, TakeBatch(r, b) PROVE TypeInv'
  <2> DEFINE state == IF b.sum > run[r].budget
                      THEN [run[r] EXCEPT !.todo = run[r].todo \ {b}]
                      ELSE [run[r] EXCEPT !.pc = "submit", !.batch = b, !.tries = 0]
  <2>1. StateType(state)
    BY <1>2, <1>6 DEF StateType, RunState, TakeBatch
  <2>2. run' = [run EXCEPT ![r] = state]
    <3>1. CASE b.sum > run[r].budget
      BY <1>6, <3>1 DEF TakeBatch
    <3>2. CASE ~(b.sum > run[r].budget)
      BY <1>6, <3>2 DEF TakeBatch
    <3>. QED  BY <3>1, <3>2
  <2>3. UNCHANGED <<treasury, chain, stopped, faults>>
    BY <1>6 DEF TakeBatch
  <2>. QED  BY <1>1, <1>2, <2>1, <2>2, <2>3, MoveType
<1>7. CASE Submitted(r)
  <2> DEFINE state == [run[r] EXCEPT !.pc = "confirm", !.sig = Cardinality(chain) + 1]
  <2>1. /\ run' = [run EXCEPT ![r] = state] /\ run[r].pc = "submit" /\ Execute(r)
        /\ UNCHANGED <<stopped, faults>>
    BY <1>7 DEF Submitted
  <2>2. /\ treasury' \in Nat /\ chain' \subseteq Transfer
        /\ Cardinality(chain) + 1 \in Nat
    BY <1>1, <2>1, TransferType
  <2>3. StateType(state)
    BY <1>2, <2>1, <2>2 DEF StateType, RunState
  <2>. QED  BY <1>1, <1>2, <2>1, <2>2, <2>3, MoveType
<1>8. CASE SubmitRetries(r)
  <2> DEFINE state == IF run[r].tries + 1 >= MaxTries THEN Done(run[r])
                      ELSE [run[r] EXCEPT !.tries = run[r].tries + 1]
  <2>1. /\ run[r].pc = "submit" /\ UNCHANGED stopped
        /\ Execute(r) \/ UNCHANGED <<treasury, chain>>
        /\ faults' \in Nat
    BY <1>2, <1>8, FaultType DEF SubmitRetries
  <2>2. run' = [run EXCEPT ![r] = state]
    <3>1. CASE run[r].tries + 1 >= MaxTries
      BY <1>8, <3>1 DEF SubmitRetries
    <3>2. CASE ~(run[r].tries + 1 >= MaxTries)
      BY <1>8, <3>2 DEF SubmitRetries
    <3>. QED  BY <3>1, <3>2
  <2>3. StateType(state)
    <3>1. StateType([run[r] EXCEPT !.tries = run[r].tries + 1])
      BY <1>2 DEF StateType, RunState
    <3>. QED  BY <1>2, <3>1, DoneType
  <2> HIDE DEF state
  <2>4. treasury' \in Nat /\ chain' \subseteq Transfer
    BY <1>1, <1>2, <2>1, TransferType
  <2>. QED  BY <1>1, <2>1, <2>2, <2>3, <2>4, MoveType
<1>9. CASE SubmitFails(r) \/ ConfirmFails(r) \/ MarkFails(r)
  <2>1. /\ run' = [run EXCEPT ![r] = Done(run[r])]
        /\ UNCHANGED <<treasury, chain, stopped>>
        /\ UNCHANGED faults \/ \E kind : Fault(kind)
    BY <1>9 DEF SubmitFails, ConfirmFails, MarkFails
  <2>2. faults' \in Nat
    BY <1>2, <2>1, FaultType
  <2>. QED  BY <1>1, <1>2, <2>1, <2>2, DoneType, MoveType
<1>10. CASE Confirmed(r)
  <2>1. /\ run' = [run EXCEPT ![r] = [run[r] EXCEPT !.pc = "mark"]]
        /\ run[r].pc = "confirm"
        /\ UNCHANGED <<treasury, chain, stopped, faults>>
    BY <1>10 DEF Confirmed
  <2>2. StateType([run[r] EXCEPT !.pc = "mark"])
    BY <1>2, <2>1 DEF StateType, RunState
  <2>. QED  BY <1>1, <1>2, <2>1, <2>2, MoveType
<1>11. CASE MarkSettled(r)
  <2>1. /\ run' = [run EXCEPT ![r] = Charged(run[r])]
        /\ UNCHANGED <<treasury, chain, stopped, faults>>
    BY <1>11 DEF MarkSettled
  <2>. QED  BY <1>1, <1>2, <2>1, DoneType, MoveType
<1>12. CASE Finish(r)
  <2>1. /\ run' = [run EXCEPT ![r] = Idle]
        /\ UNCHANGED <<treasury, chain, stopped, faults>>
    BY <1>12 DEF Finish
  <2>. QED  BY <1>1, <1>2, <2>1, IdleType, MoveType
<1>. QED
  BY <1>3, <1>4, <1>5, <1>6, <1>7, <1>8, <1>9, <1>10, <1>11, <1>12 DEF RunStep

LEMMA TypeStep == PaidInv /\ PaidInv' /\ TypeInv /\ [Next]_vars => TypeInv'
<1> SUFFICES ASSUME PaidInv, PaidInv', TypeInv, [Next]_vars PROVE TypeInv'
  OBVIOUS
<1>1. LedgerInv'
  BY DEF PaidInv
<1>2. CASE UNCHANGED run /\ UNCHANGED <<treasury, chain, faults, stopped>>
  BY <1>1, <1>2 DEF TypeInv, TypeOK, LedgerInv, StateType
<1>3. ASSUME NEW m \in metering, MeterInsert(m) PROVE TypeInv'
  BY <1>2, <1>3 DEF MeterInsert
<1>4. ASSUME NEW k \in Keys, NEW in \in Inputs, MeterLookup(k, in) PROVE TypeInv'
  BY <1>2, <1>4 DEF MeterLookup
<1>5. CASE Crash
  <2>1. /\ run' = [r \in Runners |-> Idle] /\ UNCHANGED <<treasury, chain, stopped>>
        /\ faults' \in Nat
    BY <1>5, FaultType DEF Crash, TypeInv, TypeOK
  <2>2. run' \in [Runners -> RunState] /\ \A r \in Runners : StateType(run'[r])
    BY <2>1, IdleType DEF StateType
  <2>3. TypeOK'
    BY <1>1, <2>1, <2>2 DEF TypeInv, TypeOK, LedgerInv, RunState
  <2>. QED  BY <2>2, <2>3 DEF TypeInv, StateType
<1>6. CASE Shutdown
  <2>1. UNCHANGED <<run, treasury, chain>> /\ stopped' = TRUE /\ faults' \in Nat
    BY <1>6, FaultType DEF Shutdown, TypeInv, TypeOK
  <2>. QED  BY <1>1, <2>1 DEF TypeInv, TypeOK, LedgerInv, StateType
<1>7. CASE UNCHANGED vars
  BY <1>2, <1>7 DEF vars
<1>. QED  BY <1>3, <1>4, <1>5, <1>6, <1>7, RunStepType DEF Next

LEMMA TypeInit == Init => TypeInv
<1> SUFFICES ASSUME Init PROVE TypeInv
  OBVIOUS
<1>1. run \in [Runners -> RunState] /\ \A r \in Runners : StateType(run[r])
  BY IdleType DEF Init, StateType
<1>2. TypeOK
  BY <1>1, SettlementAssumption DEF Init, TypeOK, RunState, SettlementAssumption
<1>. QED  BY <1>1, <1>2 DEF TypeInv

\* The ledgers, the runs, the treasury and the chain are well typed: a run that
\* submits has a batch in hand, and the treasury is never overdrawn.
THEOREM TypeCorrect == Spec => []TypeOK
<1>1. TypeInv => TypeOK
  BY DEF TypeInv
<1>. QED  BY <1>1, TypeInit, TypeStep, PaidInvariant, PTL DEF Spec

-----------------------------------------------------------------------------
(* What the treasury pays.                                                 *)

\* What the transfers of the chain carry together.
Outlay == SumFunction([t \in chain |-> t.sum])

AccountInv ==
  /\ treasury + Outlay = Funds
  /\ \A t \in chain : t.sig <= Cardinality(chain)

\* Nothing but an executed transfer moves the treasury or the chain.
LEMMA Spends ==
  ASSUME [Next]_vars
  PROVE  \/ UNCHANGED <<treasury, chain>>
         \/ \E r \in Runners : run[r].pc = "submit" /\ Execute(r)
BY DEF Next, vars, MeterLookup, MeterInsert, RunStep, ListSessions, ListBuilds,
       ReadBalance, TakeBatch, Submitted, SubmitFails, SubmitRetries, Confirmed,
       ConfirmFails, MarkSettled, MarkFails, Finish, Crash, Shutdown

LEMMA AccountStep == PaidInv /\ TypeInv /\ AccountInv /\ [Next]_vars => AccountInv'
<1> SUFFICES ASSUME PaidInv, TypeInv, AccountInv, [Next]_vars PROVE AccountInv'
  OBVIOUS
<1>1. CASE UNCHANGED <<treasury, chain>>
  BY <1>1 DEF AccountInv, Outlay
<1>2. ASSUME NEW r \in Runners, run[r].pc = "submit", Execute(r) PROVE AccountInv'
  <2> DEFINE b == run[r].batch
             new == [sig |-> Cardinality(chain) + 1, wallet |-> b.wallet,
                     sum |-> b.sum, keys |-> b.keys]
             carried == [t \in chain |-> t.sum]
             carries == [t \in chain \cup {new} |-> t.sum]
  <2>1. /\ chain' = chain \cup {new} /\ treasury >= b.sum
        /\ treasury' = treasury - b.sum
    BY <1>2 DEF Execute
  <2>2. new.sig = Cardinality(chain) + 1 /\ new.sum = b.sum
    OBVIOUS
  <2> HIDE DEF new
  <2>3. IsFiniteSet(chain) /\ Cardinality(chain) \in Nat
    BY FS_CardinalityType DEF PaidInv, LedgerInv
  <2>4. \A t \in chain : t.sig \in Nat /\ t.sum \in Nat /\ t.sig <= Cardinality(chain)
    BY DEF TypeInv, TypeOK, Transfer, AccountInv
  <2>5. new \notin chain
    BY <2>2, <2>3, <2>4
  <2>6. /\ IsFiniteSet(chain \cup {new})
        /\ Cardinality(chain \cup {new}) = Cardinality(chain) + 1
    BY <2>3, <2>5, FS_AddElement
  <2>7. b.sum \in Nat /\ treasury \in Nat
    <3>1. b \in Batch
      BY <1>2 DEF TypeInv, StateType
    <3>. QED  BY <3>1 DEF Batch, TypeInv, TypeOK
  <2>8. /\ \A t \in chain \cup {new} : carries[t] \in Nat
        /\ carries[new] = b.sum
    BY <2>2, <2>4, <2>7
  <2>9. /\ [t \in chain \cup {new} |-> t.sum] = [t \in chain \cup {new} |-> carries[t]]
        /\ [t \in chain |-> t.sum] = [t \in chain |-> carries[t]]
    OBVIOUS
  <2> HIDE DEF carries
  <2>10. Outlay = Total(carries, chain) /\ Outlay' = Total(carries, chain \cup {new})
    BY <2>1, <2>9 DEF Outlay, Total
  <2>11. /\ chain \in SUBSET (chain \cup {new}) /\ {new} \in SUBSET (chain \cup {new})
         /\ chain \cap {new} = {}
    BY <2>5
  <2>12. /\ Total(carries, chain \cup {new}) = Total(carries, chain) + b.sum
         /\ Total(carries, chain) \in Nat
    <3>1. /\ \A x \in chain \cup {new} : Total(carries, {x}) = carries[x]
          /\ \A T \in SUBSET (chain \cup {new}) : Total(carries, T) \in Nat
          /\ \A T, U \in SUBSET (chain \cup {new}) :
               T \cap U = {}
                 => Total(carries, T \cup U) = Total(carries, T) + Total(carries, U)
      <4> HIDE DEF b
      <4>. QED  BY <2>6, <2>8, SumsAddUp
    <3>2. Total(carries, {new}) = b.sum
      BY <2>8, <3>1
    <3>3. Total(carries, chain \cup {new}) = Total(carries, chain) + Total(carries, {new})
      BY <2>11, <3>1
    <3>. QED  BY <2>11, <3>1, <3>2, <3>3
  <2>13. treasury' + Outlay' = Funds
    BY <2>1, <2>7, <2>10, <2>12 DEF AccountInv
  <2>14. \A t \in chain' : t.sig <= Cardinality(chain')
    BY <2>1, <2>2, <2>3, <2>4, <2>6
  <2>. QED  BY <2>13, <2>14 DEF AccountInv
<1>. QED  BY <1>1, <1>2, Spends

\* Whatever fails and however many runs overlap, the treasury lacks exactly
\* what the executed transfers carry.
THEOREM TreasuryBalances == Spec => [](treasury + Outlay = Funds)
<1>1. Init => TypeInv /\ AccountInv
  <2> SUFFICES ASSUME Init PROVE TypeInv /\ AccountInv
    OBVIOUS
  <2>1. Outlay = 0
    <3> DEFINE f == [t \in {} |-> t.sum]
    <3>1. Total(f, {}) = 0
      <4>1. \A t \in {} : f[t] \in Nat
        OBVIOUS
      <4> HIDE DEF f
      <4>. QED  BY <4>1, FS_EmptySet, SumsAddUp
    <3>2. [t \in chain |-> t.sum] = [t \in {} |-> f[t]]
      BY DEF Init
    <3>. QED  BY <3>1, <3>2 DEF Outlay, Total
  <2>. QED  BY <2>1, TypeInit, SettlementAssumption DEF Init, AccountInv, SettlementAssumption
<1>2. AccountInv => treasury + Outlay = Funds
  BY DEF AccountInv
<1>. QED  BY <1>1, <1>2, AccountStep, TypeStep, PaidInvariant, PTL DEF Spec

-----------------------------------------------------------------------------
(***************************************************************************)
(* Proof that a worker that runs alone pays no row twice, as long as what  *)
(* fails is a transfer the RPC node refused.                               *)
(*                                                                         *)
(* OnceInv is the inductive invariant: what the chain paid is settled, or  *)
(* is the batch on its way from submission to the update; what is still to *)
(* be drained is unsettled, and no row is in two batches.  The runs with   *)
(* two runners, an ambiguous failure, a crash or a shutdown leave it.      *)
(***************************************************************************)

tick == run[Cron]   \* where the one run stands

\* The rows of batch or transfer x are disjoint from those of the others in X.
Apart(x, X) == \A y \in X : y # x => x.keys \cap y.keys = {}

TodoOK(todo) ==
  \A b \in todo : /\ Apart(b, todo)
                  /\ \A k \in b.keys : ~row[k].settled

PaidAndUnmarked(k) == tick.pc \in {"confirm", "mark"} /\ k \in tick.batch.keys

OnceInv ==
  /\ ~stopped
  /\ PaidOnce
  /\ \A t \in chain : \A k \in t.keys : row[k].settled \/ PaidAndUnmarked(k)
  /\ TodoOK(tick.todo)
  /\ tick.pc = "builds" => \A b \in tick.todo : b.keys \subseteq Sessions
  /\ tick.pc \in {"submit", "confirm", "mark"} => tick.batch \in tick.todo

Alone == Runners = {Cron} /\ Faults \subseteq {"refused"}

-----------------------------------------------------------------------------
LEMMA ListedOnce ==
  ASSUME NEW ledger \in SUBSET Keys
  PROVE  /\ TodoOK(Batches(ledger))
         /\ \A b \in Batches(ledger) : b.keys \subseteq ledger
<1> DEFINE Of(w) == {k \in Unsettled(ledger) : row[k].input.provider = w}
           Whole(w) == [wallet |-> w, keys |-> Of(w), sum |-> SumShares(Of(w))]
<1>1. \A b \in Batches(ledger) : \E w : b = Whole(w)
  BY DEF Batches
<1>2. \A w : Whole(w).keys = Of(w)
  OBVIOUS
<1>3. \A k \in Unsettled(ledger) : k \in ledger /\ ~row[k].settled
  BY DEF Unsettled, Payable
<1> HIDE DEF Whole
<1>4. \A w, v : Whole(w) # Whole(v) => Of(w) \cap Of(v) = {}
  OBVIOUS
<1>5. ASSUME NEW b \in Batches(ledger), NEW c \in Batches(ledger), b # c
      PROVE  b.keys \cap c.keys = {}
  BY <1>1, <1>2, <1>4, <1>5
<1>6. ASSUME NEW b \in Batches(ledger), NEW k \in b.keys
      PROVE  k \in ledger /\ ~row[k].settled
  BY <1>1, <1>2, <1>3, <1>6
<1>. QED  BY <1>5, <1>6 DEF TodoOK, Apart

\* The worker moves and writes nothing.
LEMMA QuietOnce ==
  ASSUME OnceInv, UNCHANGED <<row, chain, stopped>>, TodoOK(tick.todo)',
         tick'.pc = "builds" => \A b \in tick'.todo : b.keys \subseteq Sessions,
         tick'.pc \in {"submit", "confirm", "mark"} => tick'.batch \in tick'.todo,
         \A k \in Keys : PaidAndUnmarked(k) => PaidAndUnmarked(k)',
         \A t \in chain : t.keys \subseteq Keys
  PROVE  OnceInv'
<1>1. PaidOnce'
  BY DEF OnceInv, PaidOnce
<1>2. \A t \in chain' : \A k \in t.keys : row'[k].settled \/ PaidAndUnmarked(k)'
  BY DEF OnceInv
<1>. QED  BY <1>1, <1>2 DEF OnceInv

\* Fewer batches to drain are as good as more.
LEMMA TodoShrinks ==
  ASSUME NEW todo, TodoOK(todo), NEW fewer \in SUBSET todo, UNCHANGED row
  PROVE  TodoOK(fewer)'
BY DEF TodoOK, Apart

LEMMA MoreRows ==
  ASSUME Alone, PaidInv, OnceInv, NEW m \in metering, MeterInsert(m)
  PROVE  OnceInv'
<1>1. UNCHANGED <<run, chain, stopped>>
  BY DEF MeterInsert
<1>2. \A k \in Keys : row[k] \in Row => row'[k] = row[k]
  <2>1. m.key \in Keys
    BY DEF PaidInv, LedgerInv
  <2>2. \/ Present(m.key) /\ row' = [row EXCEPT ![m.key] = row[m.key]]
        \/ ~Present(m.key) /\ \E new : row' = [row EXCEPT ![m.key] = new]
    BY DEF MeterInsert, Inserted
  <2>. QED  BY <2>1, <2>2, PresentRow DEF PaidInv, LedgerInv
<1>3. \A t \in chain : \A k \in t.keys : row'[k] = row[k]
  BY <1>2 DEF PaidInv, ChainInv, Owed
<1>4. \A b \in tick.todo : \A k \in b.keys : row'[k] = row[k]
  <2>1. StateOK(tick)
    BY DEF Alone, PaidInv, RunInv, tick
  <2>. QED  BY <1>2, <2>1 DEF StateOK, OwedBatch, Owed
<1>. QED  BY <1>1, <1>3, <1>4 DEF OnceInv, PaidOnce, TodoOK, PaidAndUnmarked, tick

-----------------------------------------------------------------------------
(* The steps of the worker.                                                *)

LEMMA TickMoves ==
  ASSUME Alone, PaidInv, NEW next, run' = [run EXCEPT ![Cron] = next]
  PROVE  tick' = next
BY DEF Alone, PaidInv, RunInv, tick

LEMMA TickOK ==
  ASSUME Alone, PaidInv
  PROVE  /\ StateOK(tick) /\ LedgerInv
         /\ \A t \in chain : t.keys \subseteq Keys
BY DEF Alone, PaidInv, RunInv, ChainInv, Owed, tick

\* A step that ends in a state of the run which holds no unmarked transfer.
LEMMA MovesOnce ==
  ASSUME Alone, PaidInv, OnceInv, UNCHANGED <<row, chain, stopped>>,
         NEW next, run' = [run EXCEPT ![Cron] = next],
         tick.pc \notin {"confirm", "mark"},
         TodoOK(next.todo),
         next.pc = "builds" => \A b \in next.todo : b.keys \subseteq Sessions,
         next.pc \in {"submit", "confirm", "mark"} => next.batch \in next.todo
  PROVE  OnceInv'
<1>1. tick' = next
  BY TickMoves
<1>2. TodoOK(tick.todo)'
  BY <1>1 DEF TodoOK, Apart
<1>3. \A k \in Keys : PaidAndUnmarked(k) => PaidAndUnmarked(k)'
  BY DEF PaidAndUnmarked
<1>. QED  BY <1>1, <1>2, <1>3, TickOK, QuietOnce

LEMMA IdleOnce == TodoOK(Idle.todo) /\ Idle.pc = "idle"
BY DEF TodoOK, Idle

LEMMA DoneOnce ==
  ASSUME NEW s, StateOK(s), TodoOK(s.todo)
  PROVE  /\ Done(s).pc = "drain" /\ TodoOK(Done(s).todo)
         /\ Charged(s).pc = "drain" /\ Charged(s).todo = s.todo \ {s.batch}
BY DEF StateOK, Done, Charged, TodoOK, Apart

LEMMA ReadsOnce ==
  ASSUME Alone, PaidInv, OnceInv,
         ListSessions(Cron) \/ ListBuilds(Cron) \/ ReadBalance(Cron)
  PROVE  OnceInv'
<1>1. UNCHANGED <<row, chain, stopped>> /\ StateOK(tick) /\ TodoOK(tick.todo)
  BY TickOK DEF ListSessions, ListBuilds, ReadBalance, OnceInv
<1>2. CASE ListSessions(Cron)
  <2> DEFINE next == [Idle EXCEPT !.pc = "builds", !.todo = Batches(Sessions)]
  <2>1. next.pc = "builds" /\ next.todo = Batches(Sessions)
    BY DEF Idle
  <2>2. run' = [run EXCEPT ![Cron] = next] /\ tick.pc = "idle"
    BY <1>2 DEF ListSessions, tick
  <2>. QED
    BY <1>1, <2>1, <2>2, MovesOnce, ListedOnce DEF Keys
<1>3. CASE ListBuilds(Cron)
  <2> DEFINE todo == tick.todo \cup Batches(Attempts)
             next == IF Cancelled(Cron) \/ todo = {} THEN Idle
                     ELSE [tick EXCEPT !.pc = "balance", !.todo = todo]
  <2>1. tick.pc = "builds" /\ run' = [run EXCEPT ![Cron] = next]
    BY <1>3 DEF ListBuilds, tick
  <2>2. \A b \in tick.todo : b.keys \subseteq Sessions
    BY <2>1 DEF OnceInv
  <2>3. /\ TodoOK(Batches(Attempts))
        /\ \A b \in Batches(Attempts) : b.keys \subseteq Attempts
    BY ListedOnce DEF Keys
  <2>4. TodoOK(todo)
    <3>1. \A b \in tick.todo, c \in Batches(Attempts) : b.keys \cap c.keys = {}
      BY <2>2, <2>3, SettlementAssumption DEF SettlementAssumption
    <3>. QED  BY <1>1, <2>3, <3>1 DEF TodoOK, Apart
  <2>5. /\ TodoOK(next.todo)
        /\ next.pc \notin {"builds", "submit", "confirm", "mark"}
    BY <1>1, <2>4, IdleOnce DEF StateOK
  <2>. QED  BY <1>1, <2>1, <2>5, MovesOnce
<1>4. CASE ReadBalance(Cron)
  <2> DEFINE next == IF Cancelled(Cron) THEN Idle
                     ELSE [tick EXCEPT !.pc = "drain", !.budget = treasury]
  <2>1. tick.pc = "balance" /\ run' = [run EXCEPT ![Cron] = next]
    BY <1>4 DEF ReadBalance, tick
  <2>2. TodoOK(next.todo) /\ next.pc \notin {"builds", "submit", "confirm", "mark"}
    BY <1>1, IdleOnce DEF StateOK
  <2>. QED  BY <1>1, <2>1, <2>2, MovesOnce
<1>. QED  BY <1>2, <1>3, <1>4

\* A batch is taken or given up, or the run ends.
LEMMA DrainsOnce ==
  ASSUME Alone, PaidInv, OnceInv,
         \/ \E b \in tick.todo : TakeBatch(Cron, b)
         \/ SubmitFails(Cron) \/ Finish(Cron)
  PROVE  OnceInv'
<1>1. StateOK(tick) /\ TodoOK(tick.todo)
  BY TickOK DEF OnceInv
<1>2. ASSUME NEW b \in tick.todo, TakeBatch(Cron, b) PROVE OnceInv'
  <2> DEFINE next == IF b.sum > tick.budget
                     THEN [tick EXCEPT !.todo = tick.todo \ {b}]
                     ELSE [tick EXCEPT !.pc = "submit", !.batch = b, !.tries = 0]
  <2>1. /\ tick.pc = "drain" /\ run' = [run EXCEPT ![Cron] = next]
        /\ UNCHANGED <<row, chain, stopped>>
    <3>1. CASE b.sum > tick.budget
      BY <1>2, <3>1 DEF TakeBatch, tick
    <3>2. CASE ~(b.sum > tick.budget)
      BY <1>2, <3>2 DEF TakeBatch, tick
    <3>. QED  BY <3>1, <3>2
  <2>2. TodoOK(tick.todo \ {b})
    BY <1>1 DEF TodoOK, Apart
  <2>3. /\ TodoOK(next.todo)
        /\ next.pc \in {"drain", "submit"}
        /\ next.pc = "submit" => next.batch \in next.todo
    BY <1>1, <2>1, <2>2 DEF StateOK
  <2>. QED  BY <2>1, <2>3, MovesOnce
<1>3. CASE SubmitFails(Cron)
  <2>1. /\ tick.pc = "submit" /\ run' = [run EXCEPT ![Cron] = Done(tick)]
        /\ UNCHANGED <<row, chain, stopped>>
    BY <1>3 DEF SubmitFails, tick
  <2>. QED  BY <1>1, <2>1, DoneOnce, MovesOnce
<1>4. CASE Finish(Cron)
  <2>1. /\ tick.pc = "drain" /\ run' = [run EXCEPT ![Cron] = Idle]
        /\ UNCHANGED <<row, chain, stopped>>
    BY <1>4 DEF Finish, tick
  <2>. QED  BY <2>1, IdleOnce, MovesOnce
<1>. QED  BY <1>2, <1>3, <1>4

LEMMA SubmittedOnce ==
  ASSUME Alone, PaidInv, OnceInv, Submitted(Cron)
  PROVE  OnceInv'
<1> DEFINE b == tick.batch
           transfer == [sig |-> Cardinality(chain) + 1, wallet |-> b.wallet,
                        sum |-> b.sum, keys |-> b.keys]
           next == [tick EXCEPT !.pc = "confirm", !.sig = Cardinality(chain) + 1]
<1>1. /\ tick.pc = "submit" /\ UNCHANGED <<row, stopped>>
      /\ chain' = chain \cup {transfer}
      /\ run' = [run EXCEPT ![Cron] = next]
  BY DEF Submitted, Execute, tick
<1>2. StateOK(tick) /\ b \in tick.todo
  BY <1>1, TickOK DEF OnceInv
<1>3. tick' = next /\ next.pc = "confirm" /\ next.batch = b /\ next.todo = tick.todo
  BY <1>1, <1>2, TickMoves DEF StateOK
<1>4. transfer.keys = b.keys
  OBVIOUS
<1> HIDE DEF transfer, next
<1>5. \A t \in chain : t.keys \cap b.keys = {}
  BY <1>1, <1>2 DEF OnceInv, TodoOK, PaidAndUnmarked
<1>6. PaidOnce'
  BY <1>1, <1>4, <1>5 DEF OnceInv, PaidOnce
<1>7. \A t \in chain' : \A k \in t.keys : row'[k].settled \/ PaidAndUnmarked(k)'
  BY <1>1, <1>3, <1>4 DEF OnceInv, PaidAndUnmarked
<1>8. TodoOK(tick.todo)'
  BY <1>1, <1>3 DEF OnceInv, TodoOK, Apart
<1>. QED  BY <1>1, <1>2, <1>3, <1>6, <1>7, <1>8 DEF OnceInv

LEMMA ConfirmedOnce ==
  ASSUME Alone, PaidInv, OnceInv, Confirmed(Cron)
  PROVE  OnceInv'
<1>1. /\ tick.pc = "confirm" /\ UNCHANGED <<row, chain, stopped>>
      /\ run' = [run EXCEPT ![Cron] = [tick EXCEPT !.pc = "mark"]]
  BY DEF Confirmed, tick
<1>2. StateOK(tick) /\ tick' = [tick EXCEPT !.pc = "mark"]
  BY <1>1, TickOK, TickMoves
<1>3. tick'.pc = "mark" /\ tick'.batch = tick.batch /\ tick'.todo = tick.todo
  BY <1>2 DEF StateOK
<1>4. TodoOK(tick.todo)'
  BY <1>1, <1>3 DEF OnceInv, TodoOK, Apart
<1>5. tick.batch \in tick.todo
  BY <1>1 DEF OnceInv
<1>. QED
  BY <1>1, <1>3, <1>4, <1>5, TickOK, QuietOnce DEF PaidAndUnmarked

LEMMA MarkedOnce ==
  ASSUME Alone, PaidInv, OnceInv, MarkSettled(Cron)
  PROVE  OnceInv'
<1>1. /\ tick.pc = "mark" /\ UNCHANGED <<chain, stopped>>
      /\ run' = [run EXCEPT ![Cron] = Charged(tick)]
      /\ row' = [k \in Keys |-> IF k \in tick.batch.keys
                                THEN Stamped(k, tick.sig) ELSE row[k]]
  BY DEF MarkSettled, tick
<1>2. StateOK(tick) /\ TodoOK(tick.todo) /\ tick.batch \in tick.todo
  BY <1>1, TickOK DEF OnceInv
<1>3. tick' = Charged(tick)
  BY <1>1, TickMoves
<1>4. tick'.pc = "drain" /\ tick'.todo = tick.todo \ {tick.batch}
  BY <1>2, <1>3, DoneOnce
<1>5. \A b \in tick.todo : b.keys \subseteq Keys /\ \A k \in b.keys : row[k] \in Row
  BY <1>2 DEF StateOK, OwedBatch, Owed
<1>6. \A k \in tick.batch.keys : row'[k].settled
  <2>1. \A k \in tick.batch.keys : Stamped(k, tick.sig).settled
    BY <1>2, <1>5 DEF Stamped, Row
  <2>. QED  BY <1>1, <1>2, <1>5, <2>1
<1>7. \A t \in chain' : \A k \in t.keys : row'[k].settled
  BY <1>1, <1>6, TickOK DEF OnceInv, PaidAndUnmarked
<1>8. TodoOK(tick.todo)'
  <2> SUFFICES ASSUME NEW b \in tick.todo, b # tick.batch
               PROVE  /\ Apart(b, tick'.todo)
                      /\ \A k \in b.keys : ~row'[k].settled
    BY <1>4 DEF TodoOK, Apart
  <2>1. Apart(b, tick'.todo) /\ b.keys \cap tick.batch.keys = {}
    BY <1>2, <1>4 DEF TodoOK, Apart
  <2>2. \A k \in b.keys : row'[k] = row[k]
    BY <1>1, <1>5, <2>1
  <2>. QED  BY <1>2, <2>1, <2>2 DEF TodoOK
<1>9. PaidOnce'
  BY <1>1 DEF OnceInv, PaidOnce
<1>. QED  BY <1>1, <1>4, <1>7, <1>8, <1>9 DEF OnceInv

-----------------------------------------------------------------------------
LEMMA OnceStep == Alone /\ PaidInv /\ OnceInv /\ [Next]_vars => OnceInv'
<1> SUFFICES ASSUME Alone, PaidInv, OnceInv, [Next]_vars PROVE OnceInv'
  OBVIOUS
<1>1. \A kind : Fault(kind) => kind = "refused"
  BY DEF Alone, Fault
<1>2. ~Cancelled(Cron)
  BY DEF OnceInv, Cancelled
<1>3. CASE RunStep(Cron)
  <2>1. /\ ~SubmitRetries(Cron) /\ ~ConfirmFails(Cron) /\ ~MarkFails(Cron)
    BY <1>1, <1>2 DEF SubmitRetries, ConfirmFails, MarkFails
  <2>. QED
    BY <1>3, <2>1, ReadsOnce, DrainsOnce, SubmittedOnce, ConfirmedOnce,
       MarkedOnce DEF RunStep, tick
<1>4. ASSUME NEW m \in metering, MeterInsert(m) PROVE OnceInv'
  BY <1>4, MoreRows
<1>5. CASE UNCHANGED <<row, chain, run, stopped>>
  BY <1>5 DEF OnceInv, PaidOnce, TodoOK, Apart, PaidAndUnmarked, tick
<1>6. ~Crash /\ ~Shutdown
  BY <1>1 DEF Crash, Shutdown
<1>7. \A k, in : MeterLookup(k, in) => UNCHANGED <<row, chain, run, stopped>>
  BY DEF MeterLookup
<1>. QED
  BY <1>3, <1>4, <1>5, <1>6, <1>7 DEF Next, Alone, vars

LEMMA OnceInit == Alone /\ Init => tick = Idle /\ OnceInv
<1> SUFFICES ASSUME Alone, Init PROVE tick = Idle /\ OnceInv
  OBVIOUS
<1>1. tick = Idle
  BY DEF Init, Alone, tick
<1>. QED  BY <1>1, IdleOnce DEF Init, OnceInv, PaidOnce

\* With one run at a time and no ambiguous failure no row is paid twice, for
\* any number of rows, wallets and ticks and any treasury.
THEOREM PaidOnceAlone ==
  ASSUME Runners = {Cron}, Faults \subseteq {"refused"}
  PROVE  Spec => []PaidOnce
<1>1. Alone
  BY DEF Alone
<1>2. Init => OnceInv
  BY <1>1, OnceInit
<1>3. PaidInv /\ OnceInv /\ [Next]_vars => OnceInv'
  BY <1>1, OnceStep
<1>4. OnceInv => PaidOnce
  BY DEF OnceInv
<1>. QED  BY <1>2, <1>3, <1>4, PaidInvariant, PTL DEF Spec

-----------------------------------------------------------------------------
\* What a worker that runs alone believes of the treasury.
BudgetInv ==
  /\ tick.pc \in {"drain", "submit"} => tick.budget <= treasury
  /\ tick.pc \in {"confirm", "mark"} => tick.budget - tick.batch.sum <= treasury
  /\ tick.pc = "submit" => tick.batch.sum <= tick.budget

LEMMA BudgetStep ==
  Alone /\ PaidInv /\ TypeInv /\ OnceInv /\ BudgetInv /\ [Next]_vars => BudgetInv'
<1> SUFFICES ASSUME Alone, PaidInv, TypeInv, OnceInv, BudgetInv, [Next]_vars
             PROVE  BudgetInv'
  OBVIOUS
<1>1. /\ tick \in RunState /\ tick.batch.sum \in Nat /\ treasury \in Nat
      /\ tick.pc \in {"submit", "confirm", "mark"} => tick.batch \in Batch
  BY DEF Alone, TypeInv, TypeOK, StateType, RunState, Batch, NoBatch, tick
<1>2. /\ ~SubmitRetries(Cron) /\ ~ConfirmFails(Cron) /\ ~MarkFails(Cron)
      /\ ~Crash /\ ~Shutdown
  BY DEF Alone, OnceInv, Cancelled, Fault, SubmitRetries, ConfirmFails, MarkFails,
         Crash, Shutdown
<1>3. CASE UNCHANGED <<run, treasury>>
  BY <1>3 DEF BudgetInv, tick
<1>4. CASE ListSessions(Cron) \/ ListBuilds(Cron) \/ Finish(Cron)
  <2>1. tick'.pc \in {"idle", "builds", "balance"}
    <3>1. CASE ListSessions(Cron)
      <4>1. tick' = [Idle EXCEPT !.pc = "builds", !.todo = Batches(Sessions)]
        BY <3>1, TickMoves DEF ListSessions
      <4>. QED  BY <4>1 DEF Idle
    <3>2. CASE ListBuilds(Cron)
      <4> DEFINE todo == tick.todo \cup Batches(Attempts)
                 next == IF Cancelled(Cron) \/ todo = {} THEN Idle
                         ELSE [tick EXCEPT !.pc = "balance", !.todo = todo]
      <4>1. tick' = next
        BY <3>2, TickMoves DEF ListBuilds, tick
      <4>. QED  BY <1>1, <4>1 DEF Idle, RunState
    <3>3. CASE Finish(Cron)
      <4>1. tick' = Idle
        BY <3>3, TickMoves DEF Finish
      <4>. QED  BY <4>1 DEF Idle
    <3>. QED  BY <1>4, <3>1, <3>2, <3>3
  <2>. QED  BY <2>1 DEF BudgetInv
<1>5. CASE ReadBalance(Cron)
  <2>1. tick' = [tick EXCEPT !.pc = "drain", !.budget = treasury]
    BY <1>5, TickMoves DEF ReadBalance, tick, OnceInv, Cancelled
  <2>2. tick'.pc = "drain" /\ tick'.budget = treasury /\ UNCHANGED treasury
    BY <1>1, <1>5, <2>1 DEF RunState, ReadBalance
  <2>. QED  BY <1>1, <2>2 DEF BudgetInv
<1>6. ASSUME NEW b \in tick.todo, TakeBatch(Cron, b) PROVE BudgetInv'
  <2>1. tick.pc = "drain" /\ UNCHANGED treasury
    BY <1>6 DEF TakeBatch, tick
  <2>2. b.sum \in Nat /\ tick.budget \in Int
    BY <1>1 DEF RunState, Batch
  <2>3. CASE b.sum > tick.budget
    <3>1. tick' = [tick EXCEPT !.todo = tick.todo \ {b}]
      BY <1>6, <2>3, TickMoves DEF TakeBatch, tick
    <3>2. tick'.pc = "drain" /\ tick'.budget = tick.budget
      BY <1>1, <2>1, <3>1 DEF RunState
    <3>. QED  BY <2>1, <3>2 DEF BudgetInv
  <2>4. CASE ~(b.sum > tick.budget)
    <3>1. tick' = [tick EXCEPT !.pc = "submit", !.batch = b, !.tries = 0]
      BY <1>6, <2>4, TickMoves DEF TakeBatch, tick
    <3>2. /\ tick'.pc = "submit" /\ tick'.budget = tick.budget
          /\ tick'.batch = b
      BY <1>1, <3>1 DEF RunState
    <3>. QED  BY <2>1, <2>2, <2>4, <3>2 DEF BudgetInv
  <2>. QED  BY <2>3, <2>4
<1>7. CASE Submitted(Cron)
  <2>1. /\ run' = [run EXCEPT ![Cron] = [tick EXCEPT !.pc = "confirm",
                                                     !.sig = Cardinality(chain) + 1]]
        /\ treasury' = treasury - tick.batch.sum /\ tick.pc = "submit"
    BY <1>7 DEF Submitted, Execute, tick
  <2>2. /\ tick'.pc = "confirm" /\ tick'.budget = tick.budget
        /\ tick'.batch = tick.batch /\ tick.budget \in Int
    BY <1>1, <2>1, TickMoves DEF RunState
  <2>. QED  BY <1>1, <2>1, <2>2 DEF BudgetInv
<1>8. CASE SubmitFails(Cron)
  <2>1. tick' = Done(tick) /\ UNCHANGED treasury /\ tick.pc = "submit"
    BY <1>8, TickMoves DEF SubmitFails, tick
  <2>2. tick'.pc = "drain" /\ tick'.budget = tick.budget
    BY <1>1, <2>1 DEF Done, RunState
  <2>. QED  BY <2>1, <2>2 DEF BudgetInv
<1>9. CASE Confirmed(Cron)
  <2>1. /\ tick' = [tick EXCEPT !.pc = "mark"] /\ UNCHANGED treasury
        /\ tick.pc = "confirm"
    BY <1>9, TickMoves DEF Confirmed, tick
  <2>2. tick'.pc = "mark" /\ tick'.budget = tick.budget /\ tick'.batch = tick.batch
    BY <1>1, <2>1 DEF RunState
  <2>. QED  BY <2>1, <2>2 DEF BudgetInv
<1>10. CASE MarkSettled(Cron)
  <2>1. tick' = Charged(tick) /\ UNCHANGED treasury /\ tick.pc = "mark"
    BY <1>10, TickMoves DEF MarkSettled, tick
  <2>2. tick'.pc = "drain" /\ tick'.budget = tick.budget - tick.batch.sum
    BY <1>1, <2>1 DEF Charged, Done, RunState
  <2>. QED  BY <2>1, <2>2 DEF BudgetInv
<1>11. RunStep(Cron) => BudgetInv'
  BY <1>2, <1>4, <1>5, <1>6, <1>7, <1>8, <1>9, <1>10 DEF RunStep, tick
<1>12. RunStep(Cron) \/ UNCHANGED <<run, treasury>>
  BY <1>2 DEF Next, Alone, vars, MeterLookup, MeterInsert
<1>. QED  BY <1>3, <1>11, <1>12

\* The balance that a run alone read once and charges itself is never more
\* than the chain's: no transfer it submits is short of funds.
THEOREM BudgetCoveredAlone ==
  ASSUME Runners = {Cron}, Faults \subseteq {"refused"}
  PROVE  Spec => []BudgetIsCovered
<1>1. Alone
  BY DEF Alone
<1>2. Init => TypeInv /\ OnceInv /\ BudgetInv
  BY <1>1, OnceInit, IdleOnce, TypeInit DEF BudgetInv
<1>3. PaidInv /\ PaidInv' /\ TypeInv /\ OnceInv /\ BudgetInv /\ [Next]_vars
        => TypeInv' /\ OnceInv' /\ BudgetInv'
  BY <1>1, TypeStep, OnceStep, BudgetStep
<1>4. TypeInv /\ BudgetInv => BudgetIsCovered
  <2> SUFFICES ASSUME TypeInv, BudgetInv, tick.pc = "submit"
               PROVE  tick.batch.sum <= treasury
    BY <1>1 DEF Alone, BudgetIsCovered, tick
  <2>1. tick.batch.sum \in Nat /\ tick.budget \in Int /\ treasury \in Nat
    BY <1>1 DEF Alone, TypeInv, TypeOK, StateType, RunState, Batch, NoBatch, tick
  <2>. QED  BY <2>1 DEF BudgetInv
<1>. QED  BY <1>2, <1>3, <1>4, PaidInvariant, PTL DEF Spec

-----------------------------------------------------------------------------
\* The rows a transfer of the chain paid for.
PaidRows == UNION {t.keys : t \in chain}

PaidOutInv == treasury + SumShares(PaidRows) = Funds

LEMMA PaidOutStep ==
  Alone /\ PaidInv /\ PaidInv' /\ TypeInv /\ OnceInv /\ PaidOutInv /\ [Next]_vars
    => PaidOutInv'
<1> SUFFICES ASSUME Alone, PaidInv, PaidInv', TypeInv, OnceInv, PaidOutInv, [Next]_vars
             PROVE  PaidOutInv'
  OBVIOUS
<1>1. PaidRows \in SUBSET Keys /\ \A k \in PaidRows : row[k] \in Row
  BY DEF PaidRows, PaidInv, ChainInv, Owed
<1>2. SumShares(PaidRows) = SumFunction([k \in PaidRows |-> row'[k].share])
  <2>1. [k \in PaidRows |-> row[k].share] = [k \in PaidRows |-> row'[k].share]
    BY <1>1, KeptStep DEF Kept
  <2>. QED  BY <2>1 DEF SumShares
<1>3. CASE UNCHANGED <<treasury, chain>>
  <2>1. PaidRows' = PaidRows
    BY <1>3 DEF PaidRows
  <2>. QED  BY <1>2, <1>3, <2>1 DEF PaidOutInv, SumShares
<1>4. CASE run[Cron].pc = "submit" /\ Execute(Cron)
  <2> DEFINE b == tick.batch
             new == [sig |-> Cardinality(chain) + 1, wallet |-> b.wallet,
                     sum |-> b.sum, keys |-> b.keys]
  <2>1. /\ tick.pc = "submit" /\ treasury' = treasury - b.sum
        /\ chain' = chain \cup {new}
    BY <1>4 DEF Execute, tick
  <2>2. PaidRows' = PaidRows \cup b.keys
    <3>1. new.keys = b.keys
      OBVIOUS
    <3> HIDE DEF new
    <3>. QED  BY <2>1, <3>1 DEF PaidRows
  <2>3. /\ b.keys \in SUBSET Keys /\ \A k \in b.keys : row[k] \in Row
        /\ b.sum = SumShares(b.keys)
    BY <2>1, TickOK DEF StateOK, OwedBatch, Owed
  <2>4. PaidRows \cap b.keys = {}
    BY <2>1 DEF PaidRows, OnceInv, TodoOK, PaidAndUnmarked
  <2>5. /\ SumShares(PaidRows \cup b.keys) = SumShares(PaidRows) + SumShares(b.keys)
        /\ SumShares(PaidRows) \in Nat /\ SumShares(b.keys) \in Nat
    <3>1. row \in [Keys -> Row \cup {Absent}]
      BY DEF PaidInv, LedgerInv
    <3>. QED  BY <1>1, <2>3, <2>4, <3>1, SharesType
  <2>6. SumShares(PaidRows)' = SumShares(PaidRows \cup b.keys)
    <3>1. [k \in PaidRows \cup b.keys |-> row'[k].share]
            = [k \in PaidRows \cup b.keys |-> row[k].share]
      BY <1>1, <2>3, KeptStep DEF Kept
    <3>. QED  BY <2>2, <3>1 DEF SumShares
  <2>7. treasury \in Nat
    BY DEF TypeInv, TypeOK
  <2>. QED  BY <2>1, <2>3, <2>5, <2>6, <2>7 DEF PaidOutInv
<1>. QED  BY <1>3, <1>4, Spends DEF Alone

\* Every unit that left the treasury of a worker that runs alone is the share
\* of a row, and no row's share left it twice.
THEOREM SharesPaidOnceAlone ==
  ASSUME Runners = {Cron}, Faults \subseteq {"refused"}
  PROVE  Spec => [](treasury + SumShares(PaidRows) = Funds)
<1>1. Alone
  BY DEF Alone
<1>2. Init => TypeInv /\ OnceInv /\ PaidOutInv
  <2> SUFFICES ASSUME Init PROVE PaidOutInv
    BY <1>1, OnceInit, TypeInit
  <2>1. PaidRows = {} /\ row \in [Keys -> Row \cup {Absent}] /\ treasury = Funds
    BY DEF Init, PaidRows
  <2>2. SumShares({}) = 0
    BY <2>1, SharesType
  <2>. QED  BY <2>1, <2>2, SettlementAssumption DEF PaidOutInv, SettlementAssumption
<1>3. PaidInv /\ PaidInv' /\ TypeInv /\ OnceInv /\ PaidOutInv /\ [Next]_vars
        => TypeInv' /\ OnceInv' /\ PaidOutInv'
  BY <1>1, TypeStep, OnceStep, PaidOutStep
<1>4. PaidOutInv => treasury + SumShares(PaidRows) = Funds
  BY DEF PaidOutInv
<1>. QED  BY <1>2, <1>3, <1>4, PaidInvariant, PTL DEF Spec
=============================================================================
