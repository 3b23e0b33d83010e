---------------------------- MODULE Settlement -----------------------------
(***************************************************************************)
(* billing-svc: the two $GRID ledgers, the meters that fill them and the   *)
(* settlement worker that pays their provider shares on Solana             *)
(* (billing-svc/internal/grid, cmd/settlement-worker).                     *)
(*                                                                         *)
(* A row is keyed by a session id or by a build attempt.  A meter reads    *)
(* the row and inserts it in two steps, so calls for one key overlap; the  *)
(* database keeps the first (ON CONFLICT DO NOTHING).                      *)
(*                                                                         *)
(* RunOnce is executed by the cron loop and by /admin/settle-now, with no  *)
(* lock between them.  Each query, each RPC and each update is a step.     *)
(* One TransferGRID submits up to MaxTries times (a transport error is     *)
(* retried with a fresh blockhash, whether or not the chain took the       *)
(* transaction) and then waits for the confirmation.                       *)
(*                                                                         *)
(* Faults names the things that may go wrong in a run of the model and     *)
(* MaxFaults how often; MaxCalls bounds the rows and the meter calls in    *)
(* flight together.                                                        *)
(***************************************************************************)
EXTENDS GridShares, FiniteSets, Functions

CONSTANTS
  Sessions,        \* session ids (keys of grid_settlement)
  Attempts,        \* build attempts (keys of grid_build_settlement)
  Wallets,         \* wallet addresses of customers and providers
  NoWallet,        \* the NULL provider_wallet
  Inputs,          \* what the callers of the meters send
  MinSettlement,   \* MinSettlementAtomic
  BatchLimit,      \* LIMIT of the two queries
  MaxTries,        \* maxSubmitAttempts
  Runners,         \* concurrent executions of RunOnce
  Cron,            \* the one whose context the shutdown signal cancels
  Funds,           \* the treasury's balance at the start
  Faults,          \* kinds of fault that may happen
  MaxFaults,       \* bound: number of faults
  MaxCalls         \* bound: rows and meter calls in flight

Keys == Sessions \cup Attempts

Input == [customer : Wallets,
          provider : Wallets \cup {NoWallet},
          escrowed : Amount,
          consumed : Amount]

ASSUME SettlementAssumption ==
  /\ Sessions \cap Attempts = {}
  /\ IsFiniteSet(Sessions) /\ IsFiniteSet(Attempts)
  /\ NoWallet \notin Wallets
  /\ Inputs \subseteq Input
  /\ MinSettlement \in Nat \ {0}
  /\ BatchLimit \in Nat \ {0}
  /\ MaxTries \in Nat \ {0}
  /\ Funds \in Nat
  /\ Faults \subseteq {"resubmit", "refused", "confirm", "mark", "crash",
                       "shutdown"}
  /\ MaxFaults \in Nat /\ MaxCalls \in Nat

VARIABLES
  row,       \* row[k]: the ledger row of k, or Absent
  metering,  \* meter calls between their read and their insert
  run,       \* run[r]: where the RunOnce of r stands
  treasury,  \* balance of the treasury's token account
  chain,     \* transfers the chain executed
  stopped,   \* the shutdown signal arrived
  faults     \* faults so far

vars == <<row, metering, run, treasury, chain, stopped, faults>>

-----------------------------------------------------------------------------
Row == [input : Input, share : Amount, pos : Nat, settled : BOOLEAN,
        sig : Nat]          \* 0: tx_signature is NULL

Absent == [share |-> 0]

Present(k) == row[k] # Absent

Transfer == [sig : Nat \ {0}, wallet : Wallets, sum : Nat, keys : SUBSET Keys]

\* A per-wallet batch of one ledger: a walletBatch and its map key.
Batch == [wallet : Wallets, keys : SUBSET Keys, sum : Nat]

NoBatch == [sum |-> 0]

Idle == [pc |-> "idle", todo |-> {}, budget |-> 0, batch |-> NoBatch,
         tries |-> 0, sig |-> 0]

SumShares(K) == SumFunction([k \in K |-> row[k].share])

\* BuildMeter clears the provider wallet of a self-paid build.
MeteredInput(k, in) ==
  IF k \in Attempts /\ in.provider = in.customer
  THEN [in EXCEPT !.provider = NoWallet] ELSE in

\* Session rows are listed by age, build rows by their random id: the
\* position of a new row is the next one or any free one.
Positions(k) ==
  LET ledger == IF k \in Sessions THEN Sessions ELSE Attempts
      taken  == {row[j].pos : j \in {i \in ledger : Present(i)}}
  IN  IF k \in Sessions THEN {Cardinality(taken) + 1}
      ELSE (1 .. Cardinality(Attempts)) \ taken

NewRow(k, in, pos) ==
  [input   |-> MeteredInput(k, in),
   share   |-> ProviderShare(in.consumed),
   pos     |-> pos,
   settled |-> FALSE,
   sig     |-> 0]

Init ==
  /\ row = [k \in Keys |-> Absent]
  /\ metering = {}
  /\ run = [r \in Runners |-> Idle]
  /\ treasury = Funds
  /\ chain = {}
  /\ stopped = FALSE
  /\ faults = 0

-----------------------------------------------------------------------------
(* The meters.                                                             *)

\* SessionMeter.Settle and BuildMeter.Settle, up to the read of the row: a row
\* that exists is the answer.  A build that consumed nothing is refused.
MeterLookup(k, in) ==
  /\ k \in Attempts => in.consumed > 0
  /\ Cardinality(metering) + Cardinality({j \in Keys : Present(j)}) < MaxCalls
  /\ ~Present(k)
  /\ metering' = metering \cup {[key |-> k, input |-> in]}
  /\ UNCHANGED <<row, run, treasury, chain, stopped, faults>>

\* ON CONFLICT DO NOTHING.
Inserted(k, new) == IF Present(k) THEN row[k] ELSE new

MeterInsert(m) ==
  /\ m \in metering
  /\ metering' = metering \ {m}
  /\ \E pos \in IF Present(m.key) THEN {0} ELSE Positions(m.key) :
       row' = [row EXCEPT ![m.key] = Inserted(m.key,
                                              NewRow(m.key, m.input, pos))]
  /\ UNCHANGED <<run, treasury, chain, stopped, faults>>

-----------------------------------------------------------------------------
(* The worker.                                                             *)

\* Mutated: the self-pay guard is missing.
Payable_SelfPay(k) ==
  /\ Present(k)
  /\ ~row[k].settled
  /\ row[k].input.provider # NoWallet
  /\ row[k].share >= MinSettlement

\* Mutated: settled rows are listed again.
Payable_Settled(k) ==
  /\ Present(k)
  /\ row[k].input.provider \notin {NoWallet, row[k].input.customer}
  /\ row[k].share >= MinSettlement

\* Mutated: rows without a provider wallet are listed too.
Payable_Unnamed(k) ==
  /\ Present(k)
  /\ ~row[k].settled
  /\ row[k].input.provider # row[k].input.customer
  /\ row[k].share >= MinSettlement

\* The WHERE clause both queries share.
Payable(k) ==
  /\ Present(k)
  /\ ~row[k].settled
  /\ row[k].input.provider \notin {NoWallet, row[k].input.customer}
  /\ row[k].share >= MinSettlement

\* ORDER BY ... LIMIT BatchLimit.
Unsettled(ledger) ==
  {k \in ledger : /\ Payable(k)
                  /\ Cardinality({j \in ledger : /\ Payable(j)
                                                 /\ row[j].pos < row[k].pos})
                       < BatchLimit}

\* sessionBatchesByWallet, buildBatchesByWallet.
Batches(ledger) ==
  LET listed == Unsettled(ledger)
      Of(w)  == {k \in listed : row[k].input.provider = w}
  IN  {[wallet |-> w, keys |-> Of(w), sum |-> SumShares(Of(w))] :
         w \in {row[k].input.provider : k \in listed}}

\* The shutdown signal cancels the context of the cron loop's RunOnce: its
\* queries, RPCs and updates fail from then on.
Cancelled(r) == stopped /\ r = Cron

Fault(kind) ==
  /\ kind \in Faults
  /\ faults < MaxFaults
  /\ faults' = faults + 1

ListSessions(r) ==
  /\ run[r].pc = "idle"
  /\ ~stopped
  /\ run' = [run EXCEPT ![r] = [Idle EXCEPT !.pc = "builds",
                                            !.todo = Batches(Sessions)]]
  /\ UNCHANGED <<row, metering, treasury, chain, stopped, faults>>

ListBuilds(r) ==
  /\ run[r].pc = "builds"
  /\ LET todo == run[r].todo \cup Batches(Attempts)
     IN  run' = [run EXCEPT ![r] =
                   IF Cancelled(r) \/ todo = {} THEN Idle
                   ELSE [@ EXCEPT !.pc = "balance", !.todo = todo]]
  /\ UNCHANGED <<row, metering, treasury, chain, stopped, faults>>

\* The treasury's balance is read once: both drains spend from it.
ReadBalance(r) ==
  /\ run[r].pc = "balance"
  /\ run' = [run EXCEPT ![r] = IF Cancelled(r) THEN Idle
                               ELSE [@ EXCEPT !.pc = "drain",
                                              !.budget = treasury]]
  /\ UNCHANGED <<row, metering, treasury, chain, stopped, faults>>

\* The batches that may come next: sessions before builds, in each ledger the
\* cheapest first.
NextBatches(todo) ==
  LET sessions == {b \in todo : b.keys \subseteq Sessions}
      ledger   == IF sessions = {} THEN todo ELSE sessions
  IN  {b \in ledger : \A c \in ledger : b.sum <= c.sum}

\* Mutated: a batch that exceeds the budget ends the whole tick (issue 818).
TakeBatch_Aborts(r, b) ==
  /\ run[r].pc = "drain"
  /\ b \in NextBatches(run[r].todo)
  /\ run' = [run EXCEPT ![r] =
               IF b.sum > @.budget THEN [@ EXCEPT !.todo = {}]
               ELSE [@ EXCEPT !.pc = "submit", !.batch = b, !.tries = 0]]
  /\ UNCHANGED <<row, metering, treasury, chain, stopped, faults>>

\* drainBatches takes a batch: one that exceeds the budget is skipped.
TakeBatch(r, b) ==
  /\ run[r].pc = "drain"
  /\ b \in NextBatches(run[r].todo)
  /\ run' = [run EXCEPT ![r] =
               IF b.sum > @.budget THEN [@ EXCEPT !.todo = run[r].todo \ {b}]
               ELSE [@ EXCEPT !.pc = "submit", !.batch = b, !.tries = 0]]
  /\ UNCHANGED <<row, metering, treasury, chain, stopped, faults>>

\* The batch of r is done with, settled or not.
Done(state) == [state EXCEPT !.pc = "drain", !.todo = @ \ {state.batch},
                             !.batch = NoBatch, !.tries = 0, !.sig = 0]

\* The chain executes the transfer of r.
Execute(r) ==
  LET b == run[r].batch
  IN  /\ treasury >= b.sum
      /\ treasury' = treasury - b.sum
      /\ chain' = chain \cup {[sig |-> Cardinality(chain) + 1,
                               wallet |-> b.wallet, sum |-> b.sum,
                               keys |-> b.keys]}

\* sendTransaction is answered: the chain took the transaction.
Submitted(r) ==
  /\ run[r].pc = "submit"
  /\ ~Cancelled(r)
  /\ Execute(r)
  /\ run' = [run EXCEPT ![r].pc = "confirm", ![r].sig = Cardinality(chain) + 1]
  /\ UNCHANGED <<row, metering, stopped, faults>>

\* sendTransaction fails for good: the treasury is short, the RPC node refuses
\* or the context is cancelled.
SubmitFails(r) ==
  /\ run[r].pc = "submit"
  /\ \/ /\ treasury < run[r].batch.sum \/ Cancelled(r)
        /\ UNCHANGED faults
     \/ Fault("refused")
  /\ run' = [run EXCEPT ![r] = Done(@)]
  /\ UNCHANGED <<row, metering, treasury, chain, stopped>>

\* sendTransaction fails with a transient error, before or after the chain
\* took the transaction: BuildAndSubmit signs it anew and tries again.
SubmitRetries(r) ==
  /\ run[r].pc = "submit"
  /\ ~Cancelled(r)
  /\ Fault("resubmit")
  /\ Execute(r) \/ UNCHANGED <<treasury, chain>>
  /\ run' = [run EXCEPT ![r] = IF @.tries + 1 >= MaxTries THEN Done(@)
                               ELSE [@ EXCEPT !.tries = run[r].tries + 1]]
  /\ UNCHANGED <<row, metering, stopped>>

Confirmed(r) ==
  /\ run[r].pc = "confirm"
  /\ ~Cancelled(r)
  /\ run' = [run EXCEPT ![r].pc = "mark"]
  /\ UNCHANGED <<row, metering, treasury, chain, stopped, faults>>

\* The confirmation times out, or the wait for it is cancelled.
ConfirmFails(r) ==
  /\ run[r].pc = "confirm"
  /\ \/ Fault("confirm")
     \/ Cancelled(r) /\ UNCHANGED faults
  /\ run' = [run EXCEPT ![r] = Done(@)]
  /\ UNCHANGED <<row, metering, treasury, chain, stopped>>

\* Mutated: the budget is not charged.
Charged_Free(state) == Done(state)

\* The settled batch is charged to the budget.
Charged(state) == [Done(state) EXCEPT !.budget = @ - state.batch.sum]

\* Mutated: a row settled by another transfer is stamped again.
Stamped_Again(k, sig) == [row[k] EXCEPT !.settled = TRUE, !.sig = sig]

\* Mutated: the rows of the next transfer are stamped.
Stamped_NextSig(k, sig) ==
  IF row[k].settled THEN row[k]
  ELSE [row[k] EXCEPT !.settled = TRUE, !.sig = sig + 1]

\* MarkSettled: WHERE settled_at IS NULL.
Stamped(k, sig) ==
  IF row[k].settled THEN row[k]
  ELSE [row[k] EXCEPT !.settled = TRUE, !.sig = sig]

MarkSettled(r) ==
  /\ run[r].pc = "mark"
  /\ ~Cancelled(r)
  /\ row' = [k \in Keys |-> IF k \in run[r].batch.keys
                            THEN Stamped(k, run[r].sig) ELSE row[k]]
  /\ run' = [run EXCEPT ![r] = Charged(@)]
  /\ UNCHANGED <<metering, treasury, chain, stopped, faults>>

\* The update fails: the rows stay unsettled and the budget is not charged.
MarkFails(r) ==
  /\ run[r].pc = "mark"
  /\ \/ Fault("mark")
     \/ Cancelled(r) /\ UNCHANGED faults
  /\ run' = [run EXCEPT ![r] = Done(@)]
  /\ UNCHANGED <<row, metering, treasury, chain, stopped>>

Finish(r) ==
  /\ run[r].pc = "drain" /\ run[r].todo = {}
  /\ run' = [run EXCEPT ![r] = Idle]
  /\ UNCHANGED <<row, metering, treasury, chain, stopped, faults>>

\* The worker's process dies and is started again.
Crash ==
  /\ Fault("crash")
  /\ run' = [r \in Runners |-> Idle]
  /\ UNCHANGED <<row, metering, treasury, chain, stopped>>

Shutdown ==
  /\ ~stopped
  /\ Fault("shutdown")
  /\ stopped' = TRUE
  /\ UNCHANGED <<row, metering, run, treasury, chain>>

RunStep(r) ==
  \/ ListSessions(r) \/ ListBuilds(r) \/ ReadBalance(r)
  \/ \E b \in run[r].todo : TakeBatch(r, b)
  \/ Submitted(r) \/ SubmitFails(r) \/ SubmitRetries(r)
  \/ Confirmed(r) \/ ConfirmFails(r)
  \/ MarkSettled(r) \/ MarkFails(r)
  \/ Finish(r)

Next ==
  \/ \E k \in Keys, in \in Inputs : MeterLookup(k, in)
  \/ \E m \in metering : MeterInsert(m)
  \/ \E r \in Runners : RunStep(r)
  \/ Crash \/ Shutdown

Spec == Init /\ [][Next]_vars

\* The ticker keeps starting RunOnce, and a started RunOnce runs to its end:
\* every call in it has a timeout.  Nothing is assumed of the meters' callers,
\* and /admin/settle-now need never be called.
Fairness == WF_vars(RunStep(Cron))

FairSpec == Spec /\ Fairness

-----------------------------------------------------------------------------
\* Type invariant of the ledgers, the worker and the chain.
TypeOK ==
  /\ row \in [Keys -> Row \cup {Absent}]
  /\ metering \subseteq [key : Keys, input : Input]
  /\ run \in [Runners -> [pc : {"idle", "builds", "balance", "drain", "submit",
                                "confirm", "mark"},
                          todo : SUBSET Batch,
                          budget : Int,
                          batch : Batch \cup {NoBatch},
                          tries : Nat,
                          sig : Nat]]
  /\ treasury \in Nat
  /\ chain \subseteq Transfer
  /\ stopped \in BOOLEAN
  /\ faults \in Nat

\* A row shown as settled was paid: the chain executed the transfer it names,
\* to its provider's wallet and with the row in its batch, whatever runs
\* overlap and whatever fails between the transfer and the update.
SettledWasPaid ==
  \A k \in Keys :
    Present(k) /\ row[k].settled
      => \E t \in chain : /\ t.sig = row[k].sig
                         /\ t.wallet = row[k].input.provider
                         /\ k \in t.keys

\* The treasury pays only what is owed: each transfer carries the sum of the
\* shares of its rows, which are all of the wallet it goes to, and none of
\* them belongs to a provider who was his own customer (issue 818).
OnlyOwedIsPaid ==
  \A t \in chain :
    /\ t.sum = SumShares(t.keys)
    /\ \A k \in t.keys : /\ row[k].input.provider = t.wallet
                         /\ row[k].input.customer # t.wallet
                         /\ row[k].share >= MinSettlement

\* A ledger row is written once: neither a repeated call of the meter nor an
\* overlapping run of the worker changes its amounts or its signature.
RowsAreWriteOnce ==
  [][\A k \in Keys : Present(k)
       => /\ row'[k].input = row[k].input
          /\ row'[k].share = row[k].share
          /\ row[k].settled => row'[k] = row[k]]_vars

\* No row is paid twice.  Without ambiguous failures and with one run at a
\* time the worker keeps this; the runs that violate it show what breaks it.
PaidOnce ==
  \A t, u \in chain : t # u => t.keys \cap u.keys = {}

\* One run at a time never submits a transfer the treasury cannot cover: the
\* balance it read once and charges itself stays the chain's.
BudgetIsCovered ==
  \A r \in Runners : run[r].pc = "submit" => run[r].batch.sum <= treasury

\* What the rows of k's wallet in k's ledger add up to.
WalletDue(k) ==
  SumShares({j \in IF k \in Sessions THEN Sessions ELSE Attempts :
               Payable(j) /\ row[j].input.provider = row[k].input.provider})

\* No payable row waits forever while the treasury covers its wallet: an
\* oversized wallet delays nobody else (issue 818).
AffordableIsSettled ==
  \A k \in Keys :
    []<>~(Payable(k) /\ WalletDue(k) <= treasury)

=============================================================================
