------------------------------ MODULE Dispatch ------------------------------
(***************************************************************************)
(* workloads-svc: the registry of dispatch streams, the placement of       *)
(* submitted workloads, and the two ways an attempt is delivered and       *)
(* reported on (internal/dispatcher, internal/handlers, internal/server).  *)
(*                                                                         *)
(* A provider may hold several streams at once.  The registry keeps one    *)
(* connection per provider.  TryAssign asks the candidates in turn: it     *)
(* stores an attempt, pushes it down the stream and stores the workload's  *)
(* status, each a step of its own.  The attempt of an iOS build can also   *)
(* be fetched by a poll as soon as it is stored.                           *)
(*                                                                         *)
(* A daemon leaves the builds it is sent on the stream to the poll, which   *)
(* runs them; other workloads it runs from the stream.  It reports on the  *)
(* path that delivered.  A handler of a report writes the attempt (poll    *)
(* only), the status, the result and forwards the status to the            *)
(* build-gateway, one step each.                                           *)
(*                                                                         *)
(* MaxFaults bounds broken streams, lost frames, dropped posts and daemon  *)
(* restarts.                                                               *)
(***************************************************************************)
EXTENDS Naturals, FiniteSets

CONSTANTS
  Providers,    \* provider ids
  Streams,      \* dispatch streams ever opened
  Owner,        \* Owner[s]: the provider that opens s
  Advertises,   \* Advertises[s]: the eligible types of its DaemonHello
  Types,        \* workload types
  Build,        \* the type ios_build
  Workloads,    \* workload ids
  TypeOf,       \* TypeOf[w]: the type of w
  Outcomes,     \* how the daemons' runs end
  TopN,         \* candidates PickCandidates returns at most
  None,         \* no stream, no provider, no result
  MaxFaults     \* bound: number of faults

Terminals == {"succeeded", "failed", "timed_out", "cancelled", "rejected"}
Status == {"queued", "dispatched", "running"} \cup Terminals

ASSUME DispatchAssumption ==
  /\ IsFiniteSet(Streams)
  /\ Owner \in [Streams -> Providers]
  /\ Advertises \in [Streams -> SUBSET Types]
  /\ TypeOf \in [Workloads -> Types]
  /\ Build \in Types
  /\ Outcomes \subseteq {"succeeded", "failed", "timed_out"}
  /\ TopN \in Nat \ {0}
  /\ MaxFaults \in Nat
  /\ None \notin Providers \cup Streams \cup Status

VARIABLES
  conn,      \* conn[s]: "new", "live", "dead" (broken, handler still there), "gone"
  seq,       \* seq[s]: the registration number of s, 0 before Register
  slot,      \* slot[p]: the connection the registry holds for p
  offers,    \* offers[s]: the types in the snapshot of s
  workload,  \* workload[w]: its row
  attempt,   \* attempt[<<w, p>>]: latest_status of the attempt of w at p
  assign,    \* assign[w]: the SubmitWorkload call of w
  update,    \* update[s]: the update the receive loop of s is handling
  posts,     \* status posts being handled
  told,      \* told[w]: the statuses forwarded to the build-gateway
  job,       \* job[j]: what the daemon does with the attempt it got by a path
  sent,      \* history: successful Sends
  drained,   \* history: attempts a running or terminal post has updated
  faults

vars == <<conn, seq, slot, offers, workload, attempt, assign, update, posts,
          told, job, sent, drained, faults>>

registry == <<conn, seq, slot, offers>>
reports  == <<update, posts, told, drained>>

-----------------------------------------------------------------------------
Attempts == Workloads \X Providers

Paths == {"stream", "poll"}

Jobs == Workloads \X Providers \X Paths

\* "late": the end was reported before running was.  "done": its entry is gone
\* from the daemon's registry, or never got there.
JobState == {"none", "held", "running", "late", "ended", "revoked", "done"}

Row == [status : Status \cup {None}, result : Terminals \cup {None}]

NoCall == [pc |-> "none", todo |-> {}, at |-> None, via |-> None, placed |-> None]

Report == [w : Workloads, p : Providers, status : Status,
           pc : {"attempt", "status", "result", "forward"}]

ASSUME ReportAssumption == None \notin Report

Init ==
  /\ conn = [s \in Streams |-> "new"]
  /\ seq = [s \in Streams |-> 0]
  /\ slot = [p \in Providers |-> None]
  /\ offers = [s \in Streams |-> {}]
  /\ workload = [w \in Workloads |-> [status |-> None, result |-> None]]
  /\ attempt = [a \in Attempts |-> None]
  /\ assign = [w \in Workloads |-> NoCall]
  /\ update = [s \in Streams |-> None]
  /\ posts = {}
  /\ told = [w \in Workloads |-> {}]
  /\ job = [j \in Jobs |-> "none"]
  /\ sent = {}
  /\ drained = {}
  /\ faults = 0

Fault == faults < MaxFaults /\ faults' = faults + 1

-----------------------------------------------------------------------------
(* The registry.                                                           *)

\* mergeCapabilities with the connection s replaces.
Merged(s) ==
  LET prev == slot[Owner[s]]
  IN  Advertises[s] \cup (IF prev = None THEN {} ELSE offers[prev])

\* The DaemonHello of s arrives: Register.
Register(s) ==
  /\ conn[s] = "new"
  /\ conn' = [conn EXCEPT ![s] = "live"]
  /\ seq' = [seq EXCEPT ![s] = Cardinality({t \in Streams : seq[t] > 0}) + 1]
  /\ offers' = [offers EXCEPT ![s] = Merged(s)]
  /\ slot' = [slot EXCEPT ![Owner[s]] = s]
  /\ UNCHANGED <<workload, attempt, assign, reports, job, sent, faults>>

\* The transport of s breaks; its handler has not noticed yet.
Break(s) ==
  /\ conn[s] = "live"
  /\ Fault
  /\ conn' = [conn EXCEPT ![s] = "dead"]
  /\ UNCHANGED <<seq, slot, offers, workload, attempt, assign, reports, job,
                 sent>>

\* Mutated: the provider's connection is removed, whichever it is.
Vacated_ById(s) == [slot EXCEPT ![Owner[s]] = None]

\* UnregisterConn.
Vacated(s) ==
  IF slot[Owner[s]] = s THEN [slot EXCEPT ![Owner[s]] = None] ELSE slot

\* The receive loop of s returns: end of stream, error or drain.
Close(s) ==
  /\ conn[s] \in {"live", "dead"}
  /\ update[s] = None
  /\ conn' = [conn EXCEPT ![s] = "gone"]
  /\ slot' = Vacated(s)
  /\ UNCHANGED <<seq, offers, workload, attempt, assign, reports, job, sent,
                 faults>>

-----------------------------------------------------------------------------
(* SubmitWorkload and TryAssign.                                           *)

Submit(w) ==
  /\ assign[w].pc = "none"
  /\ workload' = [workload EXCEPT ![w].status = "queued"]
  /\ assign' = [assign EXCEPT ![w].pc = "pick"]
  /\ UNCHANGED <<registry, attempt, reports, job, sent, faults>>

\* Mutated: the capability gate is missing.
Eligible_Anyone(w) == {p \in Providers : slot[p] # None}

\* The providers PickCandidates keeps of SnapshotAll.
Eligible(w) == {p \in Providers : slot[p] # None /\ TypeOf[w] \in offers[slot[p]]}

\* Mutated: the answer names the connection instead of the provider.
Answer_Conn(w, status, p) ==
  /\ workload' = [workload EXCEPT ![w].status = status]
  /\ assign' = [assign EXCEPT ![w] = [NoCall EXCEPT !.pc = "done",
                                                   !.placed = assign[w].via]]

\* The call of w ends: the workload gets its status, the caller its answer.
Answer(w, status, p) ==
  /\ workload' = [workload EXCEPT ![w].status = status]
  /\ assign' = [assign EXCEPT ![w] = [NoCall EXCEPT !.pc = "done", !.placed = p]]

\* Hello snapshots score alike, so the candidates come in any order and, past
\* TopN, any TopN of them are kept.
Pick(w) ==
  /\ assign[w].pc = "pick"
  /\ \E C \in SUBSET Eligible(w) :
       /\ Cardinality(C) <= TopN
       /\ C # Eligible(w) => Cardinality(C) = TopN
       /\ IF C = {} THEN Answer(w, "rejected", None)
          ELSE /\ assign' = [assign EXCEPT ![w].pc = "next", ![w].todo = C]
               /\ UNCHANGED workload
  /\ UNCHANGED <<registry, attempt, reports, job, sent, faults>>

\* Mutated: a candidate that has gone is not passed over.
Skipped_Stays(w, p) == [assign EXCEPT ![w].todo = @]

Skipped(w, p) == [assign EXCEPT ![w].todo = @ \ {p}]

\* Mutated: the attempt is not stored before its frame goes out.
TakeCandidate_Unstored(w, p) ==
  /\ assign[w].pc = "next"
  /\ p \in assign[w].todo
  /\ assign' = IF slot[p] = None THEN Skipped(w, p)
               ELSE [assign EXCEPT ![w].pc = "send", ![w].at = p,
                                   ![w].via = slot[p], ![w].todo = @ \ {p}]
  /\ UNCHANGED <<registry, workload, attempt, reports, job, sent, faults>>

\* The next candidate: skipped when it has no connection left, otherwise its
\* attempt is stored.
TakeCandidate(w, p) ==
  /\ assign[w].pc = "next"
  /\ p \in assign[w].todo
  /\ IF slot[p] = None
     THEN assign' = Skipped(w, p) /\ UNCHANGED attempt
     ELSE /\ assign' = [assign EXCEPT ![w].pc = "send", ![w].at = p,
                                      ![w].via = slot[p], ![w].todo = @ \ {p}]
          /\ attempt' = [attempt EXCEPT ![<<w, p>>] = "dispatched"]
  /\ UNCHANGED <<registry, workload, reports, job, sent, faults>>

\* Mutated: TryAssign does not stop at the first success.
AfterSend_Continues(w) == [assign EXCEPT ![w].pc = "next"]

AfterSend(w) == [assign EXCEPT ![w].pc = "sent"]

\* conn.Send succeeds.  The frame reaches the daemon unless the edge drops it
\* (issue 705) or the stream broke meanwhile; the daemon does not take builds
\* from the stream (issue 740).
SendOk(w) ==
  LET s == assign[w].via
      j == <<w, assign[w].at, "stream">>
  IN  /\ assign[w].pc = "send"
      /\ conn[s] \in {"live", "dead"}
      /\ sent' = sent \cup {[w |-> w, p |-> assign[w].at]}
      /\ assign' = AfterSend(w)
      /\ \/ /\ conn[s] = "live"
            /\ job' = [job EXCEPT ![j] = IF TypeOf[w] = Build THEN @ ELSE "held"]
            /\ UNCHANGED faults
         \/ conn[s] = "live" /\ Fault /\ UNCHANGED job
         \/ conn[s] = "dead" /\ UNCHANGED <<job, faults>>
      /\ UNCHANGED <<registry, workload, attempt, reports>>

\* conn.Send fails, because the stream is broken or the workload cannot be read:
\* the attempt is stored as rejected.
SendFails(w) ==
  /\ assign[w].pc = "send"
  /\ IF conn[assign[w].via] = "live" THEN Fault ELSE UNCHANGED faults
  /\ attempt' = [attempt EXCEPT ![<<w, assign[w].at>>] = "rejected"]
  /\ assign' = [assign EXCEPT ![w].pc = "next"]
  /\ UNCHANGED <<registry, workload, reports, job, sent>>

\* After the frame is out, the workload is stored as dispatched.
MarkDispatched(w) ==
  /\ assign[w].pc = "sent"
  /\ Answer(w, "dispatched", assign[w].at)
  /\ UNCHANGED <<registry, attempt, reports, job, sent, faults>>

NoneLeft(w) ==
  /\ assign[w].pc = "next" /\ assign[w].todo = {}
  /\ Answer(w, "rejected", None)
  /\ UNCHANGED <<registry, attempt, reports, job, sent, faults>>

\* CancelWorkload: the status only.  No frame goes to the daemon and the
\* attempts stay as they are.
Cancel(w) ==
  /\ workload[w].status \notin {None, "cancelled"}
  /\ workload' = [workload EXCEPT ![w].status = "cancelled"]
  /\ UNCHANGED <<registry, attempt, assign, reports, job, sent, faults>>

-----------------------------------------------------------------------------
(* The daemons.                                                            *)

\* A poll lists the attempts of p that are still "dispatched"; the daemon
\* starts those it has not started yet.
Poll(w, p) ==
  /\ TypeOf[w] = Build
  /\ attempt[<<w, p>>] = "dispatched"
  /\ job[<<w, p, "poll">>] = "none"
  /\ job' = [job EXCEPT ![<<w, p, "poll">>] = "held"]
  /\ UNCHANGED <<registry, workload, attempt, assign, reports, sent, faults>>

\* What a daemon may report next about a job.  A poll's run is announced and
\* then ends.  The router spawns a stream's run before it announces it, may
\* reject it instead, and keeps its entry after the end: a pause of the
\* scheduler then reports it cancelled.
NextReports(j) ==
  CASE j[3] = "stream" /\ job[j] = "held"    -> {"running", "rejected"} \cup Outcomes
    [] j[3] = "stream" /\ job[j] = "late"    -> {"running"}
    [] j[3] = "stream" /\ job[j] = "running" -> {"cancelled"} \cup Outcomes
    [] j[3] = "stream" /\ job[j] = "ended"   -> {"cancelled"}
    [] j[3] = "poll" /\ job[j] = "held"      -> {"running"}
    [] j[3] = "poll" /\ job[j] = "running"   -> Outcomes
    [] OTHER                                 -> {}

After(state, status) ==
  CASE status = "running"   -> IF state = "held" THEN "running" ELSE "ended"
    [] status = "rejected"  -> "done"
    [] status = "cancelled" -> "revoked"
    [] OTHER                -> IF state = "held" THEN "late" ELSE "ended"

\* An update frame arrives on a live stream of the provider.
StreamReport(j, s, status) ==
  /\ j[3] = "stream" /\ Owner[s] = j[2]
  /\ conn[s] = "live" /\ update[s] = None
  /\ status \in NextReports(j)
  /\ job' = [job EXCEPT ![j] = After(@, status)]
  /\ update' = [update EXCEPT ![s] = [w |-> j[1], p |-> j[2],
                                      status |-> status, pc |-> "status"]]
  /\ UNCHANGED <<registry, workload, attempt, assign, posts, told, drained,
                 sent, faults>>

\* Mutated: a post does not wait for the one before it.
PostReport_AtOnce(j, status) ==
  /\ j[3] = "poll"
  /\ status \in NextReports(j)
  /\ job' = [job EXCEPT ![j] = After(@, status)]
  /\ posts' = posts \cup {[w |-> j[1], p |-> j[2], status |-> status,
                           pc |-> "attempt"]}
  /\ UNCHANGED <<registry, workload, attempt, assign, update, told, drained,
                 sent, faults>>

\* A status post arrives; the daemon sends the next one after this one is
\* answered or has timed out.
PostReport(j, status) ==
  /\ j[3] = "poll"
  /\ status \in NextReports(j)
  /\ ~\E m \in posts : m.w = j[1] /\ m.p = j[2]
  /\ job' = [job EXCEPT ![j] = After(@, status)]
  /\ posts' = posts \cup {[w |-> j[1], p |-> j[2], status |-> status,
                           pc |-> "attempt"]}
  /\ UNCHANGED <<registry, workload, attempt, assign, update, told, drained,
                 sent, faults>>

\* A daemon process restarts: its runs are lost, the poller's set of started
\* attempts with them, and its posts in flight are cut off.
DaemonRestart(p) ==
  /\ \E j \in Jobs : j[2] = p /\ job[j] # "none"
  /\ Fault
  /\ job' = [j \in Jobs |-> IF j[2] # p THEN job[j]
                            ELSE IF j[3] = "poll" THEN "none"
                            ELSE IF job[j] = "none" THEN "none" ELSE "done"]
  /\ posts' = {m \in posts : m.p # p}
  /\ UNCHANGED <<registry, workload, attempt, assign, update, told, drained, sent>>

-----------------------------------------------------------------------------
(* The handlers of reports.                                                *)

\* What a handler does after writing the status, after writing the result.
AfterStatus(status) == IF status \in Terminals THEN "result" ELSE "forward"

\* One step of a handler: the writes to the row and to the gateway.
Write(m) ==
  CASE m.pc = "status"  -> /\ workload' = [workload EXCEPT ![m.w].status = m.status]
                           /\ UNCHANGED told
    [] m.pc = "result"  -> /\ workload' = [workload EXCEPT ![m.w].result = m.status]
                           /\ UNCHANGED told
    [] m.pc = "forward" -> /\ told' = [told EXCEPT ![m.w] = IF TypeOf[m.w] = Build
                                                   THEN @ \cup {m.status} ELSE @]
                           /\ UNCHANGED workload

StepOf(m) == [m EXCEPT !.pc = IF m.pc = "status" THEN AfterStatus(m.status)
                              ELSE "forward"]

\* The receive loop of s, one write at a time.
HandleUpdate(s) ==
  LET m == update[s]
  IN  /\ m # None
      /\ Write(m)
      /\ update' = [update EXCEPT ![s] = IF m.pc = "forward" THEN None
                                         ELSE StepOf(m)]
      /\ UNCHANGED <<registry, attempt, assign, posts, drained, job, sent,
                     faults>>

\* The context of a broken stream is cancelled: the writes left all fail, and
\* their errors are ignored.
AbandonUpdate(s) ==
  /\ update[s] # None /\ conn[s] = "dead"
  /\ update' = [update EXCEPT ![s] = None]
  /\ UNCHANGED <<registry, workload, attempt, assign, posts, told, drained, job,
                 sent, faults>>

\* Mutated: the attempt's status is not updated.
PostedAttempt_Kept(m) == attempt

\* a.LatestStatus = st.
PostedAttempt(m) == [attempt EXCEPT ![<<m.w, m.p>>] = m.status]

\* The status handler of the poll path, up to UpdateAssignment.
HandlePostAttempt(m) ==
  /\ m \in posts /\ m.pc = "attempt"
  /\ attempt' = PostedAttempt(m)
  /\ drained' = drained \cup {<<m.w, m.p>>}
  /\ posts' = (posts \ {m}) \cup {[m EXCEPT !.pc = "status"]}
  /\ UNCHANGED <<registry, workload, assign, update, told, job, sent, faults>>

\* Mutated: the poll path does not forward (issue 740).
PostStep_Unforwarded(m) ==
  IF StepOf(m).pc = "forward" THEN {} ELSE {StepOf(m)}

PostStep(m) == IF m.pc = "forward" THEN {} ELSE {StepOf(m)}

\* The rest of it: status, result, forward.
HandlePost(m) ==
  /\ m \in posts /\ m.pc # "attempt"
  /\ Write(m)
  /\ posts' = (posts \ {m}) \cup PostStep(m)
  /\ UNCHANGED <<registry, attempt, assign, update, drained, job, sent, faults>>

\* The daemon gives up on its post: the request's context is cancelled and the
\* writes left fail.
DropPost(m) ==
  /\ m \in posts
  /\ Fault
  /\ posts' = posts \ {m}
  /\ UNCHANGED <<registry, workload, attempt, assign, update, told, drained, job,
                 sent>>

-----------------------------------------------------------------------------
Calls(w) ==
  \/ Pick(w)
  \/ \E p \in Providers : TakeCandidate(w, p)
  \/ SendOk(w) \/ SendFails(w) \/ MarkDispatched(w) \/ NoneLeft(w)

HandlePosts(w) == \E m \in posts : m.w = w /\ (HandlePostAttempt(m) \/ HandlePost(m))

Next ==
  \/ \E s \in Streams : \/ Register(s) \/ Break(s) \/ Close(s)
                        \/ HandleUpdate(s) \/ AbandonUpdate(s)
  \/ \E w \in Workloads : \/ Submit(w) \/ Calls(w) \/ Cancel(w) \/ HandlePosts(w)
  \/ \E w \in Workloads, p \in Providers : Poll(w, p)
  \/ \E j \in Jobs, status \in Status :
       \/ \E s \in Streams : StreamReport(j, s, status)
       \/ PostReport(j, status)
  \/ \E p \in Providers : DaemonRestart(p)
  \/ \E m \in posts : DropPost(m)

Spec == Init /\ [][Next]_vars

\* A running handler goes on; streams, daemons and customers owe nothing.
Fairness ==
  /\ \A w \in Workloads : WF_vars(Calls(w)) /\ WF_vars(HandlePosts(w))
  /\ \A s \in Streams : WF_vars(HandleUpdate(s) \/ AbandonUpdate(s))

FairSpec == Spec /\ Fairness

-----------------------------------------------------------------------------
\* Type invariant of the registry, the store and the handlers.
TypeOK ==
  /\ conn \in [Streams -> {"new", "live", "dead", "gone"}]
  /\ seq \in [Streams -> Nat]
  /\ slot \in [Providers -> Streams \cup {None}]
  /\ offers \in [Streams -> SUBSET Types]
  /\ workload \in [Workloads -> Row]
  /\ attempt \in [Attempts -> Status \cup {None}]
  /\ assign \in [Workloads -> [pc : {"none", "pick", "next", "send", "sent",
                                     "done"},
                               todo : SUBSET Providers,
                               at : Providers \cup {None},
                               via : Streams \cup {None},
                               placed : Providers \cup {None}]]
  /\ update \in [Streams -> Report \cup {None}]
  /\ posts \subseteq Report
  /\ told \in [Workloads -> SUBSET Status]
  /\ job \in [Jobs -> JobState]
  /\ sent \subseteq [w : Workloads, p : Providers]
  /\ drained \subseteq Attempts
  /\ faults \in Nat

Registered(s) == conn[s] \in {"live", "dead"}

\* The stream a provider opened last keeps its slot until its own handler
\* ends, whatever older streams of the provider do meanwhile (issue 806).
NewestStreamHoldsSlot ==
  \A s \in Streams :
    /\ Registered(s) /\ (\A t \in Streams : Owner[t] = Owner[s] => seq[t] <= seq[s])
         => slot[Owner[s]] = s
    /\ slot[Owner[s]] = s => Registered(s)

\* Replacing a provider's connection never loses a capability, so a build
\* that could be placed there before still can (issue 806).
CapabilitiesRatchetUp ==
  [][\A p \in Providers :
       slot[p] # None /\ slot'[p] # None => offers[slot[p]] \subseteq offers'[slot'[p]]]_vars

\* A provider is asked to run a workload only when one of its streams said
\* that it takes such workloads, however streams merged in between.
OnlyCapableAreAsked ==
  \A w \in Workloads, p \in Providers :
    attempt[<<w, p>>] # None
      => \E s \in Streams : /\ Owner[s] = p /\ seq[s] > 0
                            /\ TypeOf[w] \in Advertises[s]

\* One submission pushes its workload down one stream: TryAssign moves on only
\* after a Send that failed.
SentAtMostOnce ==
  \A m, n \in sent : m.w = n.w => m = n

\* Once a post has taken an attempt off the poll list, no poll serves it
\* again, not to a daemon that restarted and forgot what it ran (issue 705).
DrainedIsNotServedAgain ==
  [][\A w \in Workloads, p \in Providers :
       <<w, p>> \in drained /\ job[<<w, p, "poll">>] = "none"
         => job'[<<w, p, "poll">>] = "none"]_vars

InFlight(w) ==
  \/ \E m \in posts : m.w = w
  \/ \E s \in Streams : update[s] # None /\ update[s].w = w

\* Unless a stream broke or a post was dropped, a build whose result is stored
\* is one whose end the build-gateway was told of, on either path (issue 740).
ResultsAreForwarded ==
  faults = 0 =>
    \A w \in Workloads :
      workload[w].result # None /\ TypeOf[w] = Build /\ ~InFlight(w)
        => workload[w].result \in told[w]

\* A build sent down a stream can be polled until a post reports on it, so a
\* frame the edge loses is not a lost build (issue 705).
SentIsPolledUntilReported ==
  \A m \in sent :
    TypeOf[m.w] = Build
      => attempt[<<m.w, m.p>>] = "dispatched" \/ <<m.w, m.p>> \in drained

\* Once TryAssign is past an attempt, the end a post stored for it is kept:
\* neither its own running post nor a second run after a restart overwrites it.
AttemptEndIsKept ==
  [][\A w \in Workloads, p \in Providers :
       attempt[<<w, p>>] \in Outcomes /\ ~(assign[w].pc = "send" /\ assign[w].at = p)
         => attempt'[<<w, p>>] = attempt[<<w, p>>]]_vars

\* SubmitWorkload answers, whatever streams come and go while it asks them.
EverySubmitAnswers ==
  \A w \in Workloads : assign[w].pc = "pick" ~> assign[w].pc = "done"

=============================================================================
