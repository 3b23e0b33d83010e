---------------------------- MODULE BuildGateway ----------------------------
(***************************************************************************)
(* build-gateway: the record of an iOS build from POST /v1/builds to the   *)
(* metering event and the $GRID settlement of the finished run             *)
(* (build-gateway/internal/builds/service.go over internal/store).         *)
(*                                                                         *)
(* The store gives every mutator read-modify-write atomicity, so one       *)
(* store.Update is one step.  A handler that touches the store twice, or   *)
(* calls another service between two touches, is split there:              *)
(*   - Submit creates the record, calls workloads-svc, then writes the     *)
(*     outcome: status reports arrive during the call;                     *)
(*   - the reaper lists the stale records, then fails them one at a time;  *)
(*   - Cancel reads the record, calls workloads-svc, then writes the note; *)
(*   - a terminal report commits, then meters and settles: a crash in      *)
(*     between loses the billing.                                          *)
(*                                                                         *)
(* Time is counted in ticks; a report or a submission is accepted up to    *)
(* the tick Horizon, which leaves the reaper's TTL to elapse before        *)
(* MaxTime.  MaxTime, MaxReports and MaxRestarts bound the model only.     *)
(*                                                                         *)
(* Heartbeat writes nothing in the code and is no action here.             *)
(***************************************************************************)
EXTENDS BuildStatus, Integers, FiniteSets

CONSTANTS
  Builds,          \* ids minted by idGen
  Providers,       \* daemons that may report a status
  NoProvider,      \* the empty provider id
  NoTime,          \* a nil StartedAt / FinishedAt
  Reported,        \* statuses the reports carry
  ReportedBy,      \* provider ids the reports carry
  TTL,             \* DefaultStaleTTL, in ticks
  TicksPerMinute,  \* clock resolution below the billed minute
  Durable,         \* TRUE: Postgres store; FALSE: the in-memory store
  MaxTime,         \* bound: last tick of the clock
  MaxReports,      \* bound: terminal reports of one build
  MaxRestarts      \* bound: process restarts

ASSUME ConstantsAssumption ==
  /\ TTL \in Nat \ {0}
  /\ TicksPerMinute \in Nat \ {0}
  /\ MaxTime \in Nat /\ MaxTime >= TTL
  /\ MaxReports \in Nat
  /\ Reported \subseteq Status
  /\ ReportedBy \subseteq Providers \cup {NoProvider}
  /\ MaxRestarts \in Nat
  /\ Durable \in BOOLEAN
  /\ NoTime \notin Nat
  /\ NoProvider \notin Providers

VARIABLES
  build,      \* build[b]: the persisted record, status "none" before Submit
  submit,     \* submit[b]: where the Submit handler of b stands
  cancelling, \* builds whose Cancel handler is inside dispatcher.Cancel
  sweep,      \* what is left of the list the reaper took
  due,        \* billing the handler of a committed terminal still owes
  billed,     \* emitMetering + settleGrid calls made
  now,        \* the clock
  restarts,   \* process restarts so far
  calls,      \* calls[b]: terminal commits so far (tells two bills apart)
  ranBy       \* history: providers a report named for b

vars == <<build, submit, cancelling, sweep, due, billed, now, restarts,
          calls, ranBy>>

-----------------------------------------------------------------------------
Notes == {"", PausedNote, "reported", "reaped", "cancel requested",
          "dispatcher rejected"}

Time == 0 .. MaxTime
Horizon == MaxTime - TTL

Build == [status    : Status \cup {"none"},
          note      : Notes,
          attempt   : BOOLEAN,       \* ProviderAttemptID is set
          provider  : Providers \cup {NoProvider},
          submitted : Time,
          started   : Time \cup {NoTime},
          finished  : Time \cup {NoTime}]

Absent == [status |-> "none", note |-> "", attempt |-> FALSE,
           provider |-> NoProvider, submitted |-> 0,
           started |-> NoTime, finished |-> NoTime]

Bill == [build    : Builds,
         call     : Nat,       \* which terminal commit issued it
         status   : Terminals,
         attempt  : BOOLEAN,
         provider : Providers \cup {NoProvider},
         minutes  : Nat,
         settled  : BOOLEAN,   \* Submit had returned when it was issued
         named    : BOOLEAN]   \* some report had named a provider by then

Exists(b) == build[b].status # "none"
Ended(b)  == build[b].status \in Terminals

\* Postgres keeps the fields of persistedBuild; ProviderID is not one.
Persisted(r) == IF Durable THEN [r EXCEPT !.provider = NoProvider] ELSE r

\* Mutated: a finish before the start is not cut off at zero.
BillableMinutes_Unclamped(r) ==
  IF r.started = NoTime \/ r.finished = NoTime THEN 0
  ELSE (r.finished - r.started + TicksPerMinute - 1) \div TicksPerMinute

\* Minutes a run occupied its provider, rounded up; zero when the run never
\* started or its finish does not lie after its start.
BillableMinutes(r) ==
  IF r.started = NoTime \/ r.finished = NoTime THEN 0
  ELSE IF r.finished <= r.started THEN 0
  ELSE (r.finished - r.started + TicksPerMinute - 1) \div TicksPerMinute

-----------------------------------------------------------------------------
Init ==
  /\ build = [b \in Builds |-> Absent]
  /\ submit = [b \in Builds |-> "none"]
  /\ cancelling = {}
  /\ sweep = {}
  /\ due = {}
  /\ billed = {}
  /\ now = 0
  /\ restarts = 0
  /\ calls = [b \in Builds |-> 0]
  /\ ranBy = [b \in Builds |-> {}]

\* Submit, up to the call of workloads-svc: the validated request is stored
\* as queued.
Submit(b) ==
  /\ ~Exists(b)
  /\ now <= Horizon
  /\ build' = [build EXCEPT ![b] =
                 [Absent EXCEPT !.status = "queued", !.submitted = now]]
  /\ submit' = [submit EXCEPT ![b] = "calling"]
  /\ UNCHANGED <<cancelling, sweep, due, billed, now, restarts, calls,
                 ranBy>>

\* The record Submit writes when the call returns an attempt id.  The write
\* has no transition guard.
DispatchedRecord(r) == [r EXCEPT !.status = "dispatched", !.attempt = TRUE]

SubmitDispatched(b) ==
  /\ submit[b] = "calling"
  /\ submit' = [submit EXCEPT ![b] = "returned"]
  /\ build' = [build EXCEPT ![b] = Persisted(DispatchedRecord(@))]
  /\ UNCHANGED <<cancelling, sweep, due, billed, now, restarts, calls,
                 ranBy>>

\* The record Submit writes when the call fails or times out (which does not
\* mean that workloads-svc did not take the build).
RejectedRecord(r) ==
  [r EXCEPT !.status = "rejected", !.note = "dispatcher rejected",
            !.finished = now]

SubmitRejected(b) ==
  /\ submit[b] = "calling"
  /\ submit' = [submit EXCEPT ![b] = "returned"]
  /\ build' = [build EXCEPT ![b] = Persisted(RejectedRecord(@))]
  /\ UNCHANGED <<cancelling, sweep, due, billed, now, restarts, calls,
                 ranBy>>

-----------------------------------------------------------------------------
\* Mutated: FinishedAt follows every terminal report.
StatusRecord_RefreshFinish(r, next, note, prov) ==
  [r EXCEPT !.status   = next,
            !.note     = note,
            !.provider = IF prov = NoProvider THEN @ ELSE prov,
            !.started  = IF next = "running" /\ @ = NoTime THEN now ELSE @,
            !.finished = IF next \in Terminals THEN now ELSE @]

\* Mutated: a report without a provider id erases the known one.
StatusRecord_Clobber(r, next, note, prov) ==
  [r EXCEPT !.status   = next,
            !.note     = note,
            !.provider = prov,
            !.started  = IF next = "running" /\ @ = NoTime THEN now ELSE @,
            !.finished = IF next \in Terminals /\ @ = NoTime THEN now ELSE @]

\* Mutated: only a success stamps FinishedAt.
StatusRecord_FinishOnSuccess(r, next, note, prov) ==
  [r EXCEPT !.status   = next,
            !.note     = note,
            !.provider = IF prov = NoProvider THEN @ ELSE prov,
            !.started  = IF next = "running" /\ @ = NoTime THEN now ELSE @,
            !.finished = IF next = "succeeded" /\ @ = NoTime THEN now ELSE @]

\* The mutator of UpdateStatus: timestamps are set once, a known provider is
\* not replaced by an empty one.
StatusRecord(r, next, note, prov) ==
  [r EXCEPT !.status   = next,
            !.note     = note,
            !.provider = IF prov = NoProvider THEN @ ELSE prov,
            !.started  = IF next = "running" /\ @ = NoTime THEN now ELSE @,
            !.finished = IF next \in Terminals /\ @ = NoTime THEN now ELSE @]

\* Mutated: the bill is made of the record as it was before the report.
BillFor_Stale(b, r, named) ==
  IF r.started = NoTime \/ r.finished = NoTime THEN {}
  ELSE {[build    |-> b,
         call     |-> calls[b] + 1,
         status   |-> IF Ended(b) THEN build[b].status ELSE "failed",
         attempt  |-> r.attempt,
         provider |-> r.provider,
         minutes  |-> BillableMinutes(r),
         settled  |-> submit[b] = "returned",
         named    |-> named]}

\* What the handler owes once the terminal record r is committed: a bill,
\* when both timestamps are set.
BillFor(b, r, named) ==
  IF r.started = NoTime \/ r.finished = NoTime THEN {}
  ELSE {[build    |-> b,
         call     |-> calls[b] + 1,
         status   |-> r.status,
         attempt  |-> r.attempt,
         provider |-> r.provider,
         minutes  |-> BillableMinutes(r),
         settled  |-> submit[b] = "returned",
         named    |-> named]}

\* The guarded write, and the bookkeeping of what it obliges the handler to
\* do next.  A dropped or refused report changes nothing.
CommitStatus(b, next, note, prov) ==
  /\ AllowStatusUpdate(build[b].status, next, note)
  /\ LET r     == StatusRecord(build[b], next, note, prov)
         named == ranBy[b] \cup ({prov} \cap Providers)
     IN  /\ ranBy' = [ranBy EXCEPT ![b] = named]
         /\ build' = [build EXCEPT ![b] = Persisted(r)]
         /\ IF next \in Terminals
            THEN /\ due' = due \cup BillFor(b, r, named # {})
                 /\ calls' = [calls EXCEPT ![b] = @ + 1]
            ELSE UNCHANGED <<due, calls>>

\* A status report, forwarded by workloads-svc from either of its delivery
\* paths.  The gateway cannot tell which one it came from.
UpdateStatus(b, next, note, prov) ==
  /\ Exists(b)
  /\ now <= Horizon
  /\ next \in Terminals => calls[b] < MaxReports
  /\ CommitStatus(b, next, note, prov)
  /\ UNCHANGED <<submit, cancelling, sweep, billed, now, restarts>>

\* emitMetering and settleGrid of one committed terminal report.
IssueBill(e) ==
  /\ e \in due
  /\ due' = due \ {e}
  /\ billed' = billed \cup {e}
  /\ UNCHANGED <<build, submit, cancelling, sweep, now, restarts, calls,
                 ranBy>>

-----------------------------------------------------------------------------
\* The last-progress marker of the reaper.
LastProgress(r) == IF r.started = NoTime THEN r.submitted ELSE r.started

\* Mutated: only builds that started are timed.
Stale_StartedOnly(r) == r.started # NoTime /\ now - r.started >= TTL

Stale(r) == now - LastProgress(r) >= TTL

\* What the reaper uses of a listed record.
Listed(b) == [build |-> b, provider |-> build[b].provider]

\* ReapStale lists the non-terminal builds and keeps the stale ones.
ReapList ==
  /\ sweep = {}
  /\ sweep' = {Listed(b) : b \in {x \in Builds : /\ Exists(x) /\ ~Ended(x)
                                              /\ Stale(build[x])}}
  /\ UNCHANGED <<build, submit, cancelling, due, billed, now, restarts,
                 calls, ranBy>>

\* ReapStale fails one listed build through UpdateStatus, passing on the
\* provider of the listed record; a refused transition is skipped.
ReapOne(x) ==
  /\ x \in sweep
  /\ sweep' = sweep \ {x}
  /\ \/ CommitStatus(x.build, "failed", "reaped", x.provider)
     \/ /\ ~AllowStatusUpdate(build[x.build].status, "failed", "reaped")
        /\ UNCHANGED <<build, due, calls, ranBy>>
  /\ UNCHANGED <<submit, cancelling, billed, now, restarts>>

\* Cancel refuses a terminal build, then calls dispatcher.Cancel.
Cancel(b) ==
  /\ Exists(b) /\ ~Ended(b)
  /\ b \notin cancelling
  /\ cancelling' = cancelling \cup {b}
  /\ UNCHANGED <<build, submit, sweep, due, billed, now, restarts, calls,
                 ranBy>>

\* Mutated: the note is written without asking whether the build ended.
CancelRecord_Unguarded(r) == [r EXCEPT !.note = "cancel requested"]

\* The mutator of Cancel: only the note changes, and only while the build is
\* not terminal.
CancelRecord(r) ==
  IF r.status \in Terminals THEN r ELSE [r EXCEPT !.note = "cancel requested"]

\* dispatcher.Cancel returned: accepted, the intent is noted; failed, nothing.
CancelReturns(b) ==
  /\ b \in cancelling
  /\ cancelling' = cancelling \ {b}
  /\ \/ build' = [build EXCEPT ![b] = CancelRecord(@)]
     \/ UNCHANGED build
  /\ UNCHANGED <<submit, sweep, due, billed, now, restarts, calls, ranBy>>

\* The process dies and comes back.  Only the Postgres records survive: calls
\* in flight, the reaper's list and unissued bills are gone.
Restart ==
  /\ Durable
  /\ restarts < MaxRestarts
  /\ restarts' = restarts + 1
  /\ submit' = [b \in Builds |-> IF submit[b] = "calling" THEN "returned"
                                 ELSE submit[b]]
  /\ cancelling' = {}
  /\ sweep' = {}
  /\ due' = {}
  /\ UNCHANGED <<build, billed, now, calls, ranBy>>

Tick ==
  /\ now < MaxTime
  /\ now' = now + 1
  /\ UNCHANGED <<build, submit, cancelling, sweep, due, billed, restarts,
                 calls, ranBy>>

Next ==
  \/ \E b \in Builds :
       \/ Submit(b) \/ SubmitDispatched(b) \/ SubmitRejected(b)
       \/ Cancel(b) \/ CancelReturns(b)
       \/ \E next \in Reported, note \in {"reported", PausedNote},
             prov \in ReportedBy :
            UpdateStatus(b, next, note, prov)
  \/ \E e \in due : IssueBill(e)
  \/ \E x \in sweep : ReapOne(x)
  \/ ReapList \/ Restart \/ Tick

Spec == Init /\ [][Next]_vars

\* Ticks and the reaper's ticker keep coming, the call to workloads-svc
\* returns or times out, and handlers run to their end.  Nothing is assumed of
\* the daemons, the customer or restarts.
Fairness ==
  /\ WF_vars(Tick)
  /\ WF_vars(ReapList)
  /\ WF_vars(\E x \in sweep : ReapOne(x))
  /\ WF_vars(\E e \in due : IssueBill(e))
  /\ \A b \in Builds : WF_vars(SubmitDispatched(b) \/ SubmitRejected(b))

FairSpec == Spec /\ Fairness

-----------------------------------------------------------------------------
\* Type invariant of the gateway's state; the billed minutes of a run are
\* never negative, whatever order its reports came in.
TypeOK ==
  /\ build \in [Builds -> Build]
  /\ submit \in [Builds -> {"none", "calling", "returned"}]
  /\ cancelling \subseteq Builds
  /\ sweep \subseteq [build : Builds, provider : Providers \cup {NoProvider}]
  /\ due \subseteq Bill
  /\ billed \subseteq Bill
  /\ now \in Time
  /\ restarts \in 0 .. MaxRestarts
  /\ calls \in [Builds -> Nat]
  /\ ranBy \in [Builds -> SUBSET Providers]

\* Once Submit has returned, no interleaving of reports from both delivery
\* paths, the reaper's stale list, a cancel in flight and restarts moves a
\* build off its terminal status (AllowedTransition: "a terminal status is
\* sticky").
StickyAfterSubmit ==
  [][\A b \in Builds : submit[b] = "returned" /\ Ended(b)
                         => build'[b].status = build[b].status]_vars

\* A build is ended by a stream scheduler_paused rejection only if no report
\* ever started it and workloads-svc never returned an attempt for it: the
\* poll path's build is not terminated by the stream (issue 811), even when
\* the running report overtakes Submit's own write.
PausedRejectionOnlyBeforeDispatch ==
  [][\A b \in Builds :
       ( /\ ~Ended(b)
         /\ build'[b].status = "rejected"
         /\ build'[b].note = PausedNote )
       => build[b].started = NoTime /\ ~build[b].attempt]_vars

\* All bills a build causes after Submit returned name the same status,
\* attempt and minutes, so a receiver that keeps one of them (billing-svc
\* dedupes on the workload id and on the build and attempt ids) loses nothing.
FinalBillsAgree ==
  \A e1, e2 \in billed \cup due :
    e1.build = e2.build /\ e1.settled /\ e2.settled
      => /\ e1.status = e2.status
         /\ e1.attempt = e2.attempt
         /\ e1.minutes = e2.minutes

\* A finished build never shows "cancel requested": a cancel that was in
\* flight while the build finished does not overwrite the result's note.
CancelNeverRelabelsEnded ==
  \A b \in Builds : Ended(b) => build[b].note # "cancel requested"

\* Once a report has named the provider of a build, each bill of the build
\* names a provider ("don't clobber a known id with an empty one", issue 744).
BillsAreAttributed ==
  \A e \in billed \cup due : e.named => e.provider # NoProvider

\* Every submitted build reaches a terminal status for good, whatever the
\* daemons do: the reaper frees the slots of silent builds (issue 811).
EveryBuildEnds ==
  \A b \in Builds : Exists(b) ~> []Ended(b)

\* A build that ran and then ended through a report or the reaper is billed.
\* A run that Submit itself rejects is not: its call to workloads-svc failed
\* although the build was taken.
FinishedRunIsBilled ==
  \A b \in Builds :
    ( /\ Ended(b)
      /\ build[b].started # NoTime
      /\ build[b].note # "dispatcher rejected" )
    ~> \E e \in billed : e.build = b

-----------------------------------------------------------------------------
(* Refinement: what a customer and billing-svc see of the gateway.         *)

\* What is charged, without what tells two calls for it apart.
Receipt(e) ==
  [status |-> e.status, attempt |-> e.attempt, minutes |-> e.minutes]

\* The receipts billing was sent for b by reports that came after Submit
\* returned.
ChargedTo(b) ==
  {Receipt(e) : e \in {x \in billed : x.build = b /\ x.settled}}

AnswerTo(b) ==
  CASE submit[b] = "none"     -> "none"
    [] submit[b] = "calling"  -> "pending"
    [] submit[b] = "returned" -> IF Ended(b) THEN build[b].status ELSE "open"

Contract ==
  INSTANCE BuildContract
    WITH Jobs <- Builds, Answers <- Terminals,
         Receipts <- [status : Terminals, attempt : BOOLEAN, minutes : Nat],
         answer <- [b \in Builds |-> AnswerTo(b)],
         charged <- [b \in Builds |-> ChargedTo(b)]

\* The gateway keeps the contract: from the return of Submit on, a build is
\* answered with one final status and charged with one receipt that names
\* it, through two delivery paths, repeated reports, the reaper and restarts.
KeepsContract == Contract!Spec

=============================================================================
