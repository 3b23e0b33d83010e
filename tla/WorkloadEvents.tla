--------------------------- MODULE WorkloadEvents --------------------------
(***************************************************************************)
(* workloads-svc: the status events of one workload and the clients that   *)
(* follow them (internal/store/store.go, store_pg.go and                   *)
(* internal/handlers/submission.go).                                       *)
(*                                                                         *)
(* A report - a frame of a daemon's stream, a poll, a cancel, a placement  *)
(* - stores the status, copies the list of subscribers under its lock and  *)
(* sends to each channel of the copy without waiting.  A client reads the  *)
(* status as its first frame and subscribes then; when it leaves, its      *)
(* channel is taken off the list and closed, which a report that copied    *)
(* the list before does not notice: sending to a closed channel panics,    *)
(* and nothing of the report's handler runs after that.                    *)
(*                                                                         *)
(* A status is the number of the write that stored it; which one it is     *)
(* makes no difference here.  A copied list is a set: its order decides    *)
(* only who is served before a panic.  Capacity is 32 in the code;         *)
(* MaxEvents bounds the model only.                                        *)
(***************************************************************************)
EXTENDS Naturals, Sequences

CONSTANTS
  Reporters,    \* goroutines that report, each one report at a time
  Subscribers,  \* calls of StreamWorkloadEvents
  Capacity,     \* events a channel holds
  MaxEvents     \* bound: reports in all

ASSUME EventsAssumption == Capacity \in Nat \ {0} /\ MaxEvents \in Nat

VARIABLES
  status,   \* the workload's status: the number of the last write
  report,   \* report[r]: where r's handler is
  subs,     \* the subscribers on the list, under subsMu
  phase,    \* phase[c]: where c's call is
  since,    \* since[c]: the status when c was put on the list
  channel,  \* channel[c]: events sent to c and not received
  seen,     \* seen[c]: events c was streamed
  missed,   \* missed[c]: events that found c's channel full
  aborted   \* events whose report panicked

client == <<phase, since>>
vars   == <<status, report, subs, client, channel, seen, missed, aborted>>

-----------------------------------------------------------------------------
Events == 1 .. MaxEvents

Report == [at    : {"idle", "stored", "sending"},
           event : 0 .. MaxEvents,
           left  : SUBSET Subscribers]     \* of its copy, still to be served

Idle == [at |-> "idle", event |-> 0, left |-> {}]

Init ==
  /\ status = 0
  /\ report = [r \in Reporters |-> Idle]
  /\ subs = {}
  /\ phase = [c \in Subscribers |-> "new"]
  /\ since = [c \in Subscribers |-> 0]
  /\ channel = [c \in Subscribers |-> <<>>]
  /\ seen = [c \in Subscribers |-> {}]
  /\ missed = [c \in Subscribers |-> {}]
  /\ aborted = {}

-----------------------------------------------------------------------------
(* UpdateWorkloadStatus and AppendEvent.                                   *)

\* The row is written first, under the store's own lock or by a statement.
Store(r) ==
  /\ report[r].at = "idle"
  /\ status < MaxEvents
  /\ status' = status + 1
  /\ report' = [report EXCEPT ![r] =
                  [at |-> "stored", event |-> status + 1, left |-> {}]]
  /\ UNCHANGED <<subs, client, channel, seen, missed, aborted>>

CopyList(r) ==
  /\ report[r].at = "stored"
  /\ report' = [report EXCEPT ![r] =
                  [at |-> "sending", event |-> report[r].event,
                   left |-> subs]]
  /\ UNCHANGED <<status, subs, client, channel, seen, missed, aborted>>

Full(c) == Len(channel[c]) >= Capacity

Served(r, c) ==
  report' = [report EXCEPT ![r] =
               [at |-> "sending", event |-> report[r].event,
                left |-> report[r].left \ {c}]]

\* Mutated: no default case, the send waits for room.
Send_Waits(r, c) ==
  /\ report[r].at = "sending" /\ c \in report[r].left
  /\ phase[c] = "live"
  /\ ~Full(c)
  /\ Served(r, c)
  /\ channel' = [channel EXCEPT ![c] = Append(@, report[r].event)]
  /\ UNCHANGED <<status, subs, client, seen, missed, aborted>>

\* A select with a default: a full channel loses the event.
Send(r, c) ==
  /\ report[r].at = "sending" /\ c \in report[r].left
  /\ phase[c] = "live"
  /\ Served(r, c)
  /\ IF Full(c)
     THEN /\ missed' = [missed EXCEPT ![c] = @ \cup {report[r].event}]
          /\ UNCHANGED channel
     ELSE /\ channel' = [channel EXCEPT ![c] = Append(@, report[r].event)]
          /\ UNCHANGED missed
  /\ UNCHANGED <<status, subs, client, seen, aborted>>

\* The channel was closed after the list was copied.  The panic ends the
\* handler: the others on its copy are not served, and no result is stored
\* or forwarded.
Panic(r, c) ==
  /\ report[r].at = "sending" /\ c \in report[r].left
  /\ phase[c] = "gone"
  /\ aborted' = aborted \cup {report[r].event}
  /\ report' = [report EXCEPT ![r] = Idle]
  /\ UNCHANGED <<status, subs, client, channel, seen, missed>>

Return(r) ==
  /\ report[r].at = "sending" /\ report[r].left = {}
  /\ report' = [report EXCEPT ![r] = Idle]
  /\ UNCHANGED <<status, subs, client, channel, seen, missed, aborted>>

-----------------------------------------------------------------------------
(* StreamWorkloadEvents.                                                   *)

\* GetWorkload, and what it read as the first frame.
Baseline(c) ==
  /\ phase[c] = "new"
  /\ phase' = [phase EXCEPT ![c] = "based"]
  /\ UNCHANGED <<status, report, subs, since, channel, seen, missed, aborted>>

Subscribe(c) ==
  /\ phase[c] = "based"
  /\ phase' = [phase EXCEPT ![c] = "live"]
  /\ since' = [since EXCEPT ![c] = status]
  /\ subs' = subs \cup {c}
  /\ UNCHANGED <<status, report, channel, seen, missed, aborted>>

\* The first frame could not be sent.
GiveUp(c) ==
  /\ phase[c] = "based"
  /\ phase' = [phase EXCEPT ![c] = "gone"]
  /\ UNCHANGED <<status, report, subs, since, channel, seen, missed,
                 aborted>>

\* Mutated: no look at whether an event was there.
Receive_NotOk(c) ==
  /\ phase[c] = "live"
  /\ seen' = [seen EXCEPT ![c] =
                @ \cup {IF channel[c] = <<>> THEN 0 ELSE Head(channel[c])}]
  /\ channel' = [channel EXCEPT ![c] = IF @ = <<>> THEN @ ELSE Tail(@)]
  /\ UNCHANGED <<status, report, subs, client, missed, aborted>>

Receive(c) ==
  /\ phase[c] = "live"
  /\ channel[c] # <<>>
  /\ seen' = [seen EXCEPT ![c] = @ \cup {Head(channel[c])}]
  /\ channel' = [channel EXCEPT ![c] = Tail(@)]
  /\ UNCHANGED <<status, report, subs, client, missed, aborted>>

\* Mutated: the channel is closed and left on the list.
Leave_Listed(c) ==
  /\ phase[c] = "live"
  /\ phase' = [phase EXCEPT ![c] = "gone"]
  /\ UNCHANGED <<status, report, subs, since, channel, seen, missed,
                 aborted>>

\* Mutated: the whole list is dropped.
Leave_DropsList(c) ==
  /\ phase[c] = "live"
  /\ phase' = [phase EXCEPT ![c] = "gone"]
  /\ subs' = {}
  /\ UNCHANGED <<status, report, since, channel, seen, missed, aborted>>

\* The client is gone or a frame could not be sent: the deferred cancel
\* takes the channel off the list and closes it, holding the lock.
Leave(c) ==
  /\ phase[c] = "live"
  /\ phase' = [phase EXCEPT ![c] = "gone"]
  /\ subs' = subs \ {c}
  /\ UNCHANGED <<status, report, since, channel, seen, missed, aborted>>

-----------------------------------------------------------------------------
Next ==
  \/ \E r \in Reporters :
       \/ Store(r) \/ CopyList(r) \/ Return(r)
       \/ \E c \in Subscribers : Send(r, c) \/ Panic(r, c)
  \/ \E c \in Subscribers :
       \/ Baseline(c) \/ Subscribe(c) \/ GiveUp(c) \/ Receive(c) \/ Leave(c)

Spec == Init /\ [][Next]_vars

\* A report's goroutine goes on.  Clients owe nobody anything.
Going(r) == \/ CopyList(r) \/ Return(r)
            \/ \E c \in Subscribers : Send(r, c) \/ Panic(r, c)

FairSpec == Spec /\ \A r \in Reporters : WF_vars(Going(r))

-----------------------------------------------------------------------------
(* Properties.                                                             *)

\* Every part of the state has its type.
TypeOK ==
  /\ status \in 0 .. MaxEvents
  /\ report \in [Reporters -> Report]
  /\ subs \subseteq Subscribers
  /\ phase \in [Subscribers -> {"new", "based", "live", "gone"}]
  /\ since \in [Subscribers -> 0 .. MaxEvents]
  /\ channel \in [Subscribers -> Seq(Events)]
  /\ seen \in [Subscribers -> SUBSET Events]
  /\ missed \in [Subscribers -> SUBSET Events]
  /\ aborted \subseteq Events

Queued(c, n)  == \E i \in DOMAIN channel[c] : channel[c][i] = n
Owes(r, c, n) == /\ report[r].event = n
                 /\ \/ report[r].at = "stored"
                    \/ report[r].at = "sending" /\ c \in report[r].left

\* SubscribeWorkloadEvents and AppendEvent: every event stored after a
\* client was put on the list was streamed to it, waits in its channel, is
\* still to be sent by its report, or met one of the two ends the code has
\* for an event - a full channel, or a report that panicked.
NothingMissed ==
  \A c \in Subscribers : phase[c] = "live" =>
    \A n \in since[c] + 1 .. status :
      \/ n \in seen[c] \/ Queued(c, n)
      \/ \E r \in Reporters : Owes(r, c, n)
      \/ n \in missed[c] \/ n \in aborted

\* A client that left is not on the list, so a report panics only over a
\* copy made before the client left, and no report that starts later does.
LateReportsAreSafe ==
  [][\A r \in Reporters, c \in Subscribers :
       phase[c] = "gone" /\ c \notin report[r].left
         => c \notin report'[r].left]_vars

\* The non-blocking send: whatever clients do, or do not do, a report comes
\* to its end.
ReportsEnd ==
  \A r \in Reporters : (report[r].at = "stored") ~> (report[r].at = "idle")
=============================================================================
