---------------------------- MODULE UsageMetering ---------------------------
(***************************************************************************)
(* How the bytes of a VPN session become a credit of its provider.         *)
(*                                                                         *)
(* vpn-svc's earnings batcher lists the sessions that ended and are not    *)
(* billed, publishes one event for each and stamps billed_at               *)
(* (vpn-svc/internal/earnings/batcher.go over internal/store).  Events go  *)
(* through the JetStream stream BILLING to billing-svc's durable consumer, *)
(* which inserts one usage_event row per session                           *)
(* (billing-svc/internal/metering/metering.go, internal/store/store.go).   *)
(*                                                                         *)
(* Neither end has a transaction over what it does, so events are          *)
(* published twice and delivered more often than that; the unique workload *)
(* id of usage_event is to absorb it.  The stream exists from the moment   *)
(* billing-svc first set up its consumer; what is published before that    *)
(* nobody keeps, and the publisher is not told.                            *)
(*                                                                         *)
(* Bytes stand for the larger of the two directions, which is all an event *)
(* carries.  MaxBytes, MaxEnds and MaxFaults bound the model only.         *)
(***************************************************************************)
EXTENDS Naturals, FiniteSets, SequencesExt

CONSTANTS
  Sessions,    \* sessions of vpn-svc
  None,        \* no usage row
  BatchLimit,  \* rows a tick lists at most (200)
  MaxDeliver,  \* deliveries of an event before JetStream gives it up (5)
  MaxBytes,    \* bound: bytes a session reports
  MaxEnds,     \* bound: terminations, repeated ones included
  MaxFaults    \* bound: calls that fail, crashes, late acknowledgements

ASSUME UsageAssumption ==
  /\ IsFiniteSet(Sessions) /\ None \notin Nat
  /\ BatchLimit \in Nat \ {0} /\ MaxDeliver \in Nat \ {0}
  /\ MaxBytes \in Nat /\ MaxEnds \in Nat /\ MaxFaults \in Nat

VARIABLES
  row,       \* row[s]: what vpn_sessions says of s
  ends,      \* terminations so far, the clock of terminated_at
  batch,     \* rows the tick at work still has, as it listed them
  sent,      \* the first of them is published and not yet marked
  stream,    \* events the stream keeps
  exists,    \* the stream was created
  events,    \* events published so far
  running,   \* billing-svc's consumer goroutine runs
  inbox,     \* deliveries its client holds, the first being handled
  stored,    \* the row of the first delivery is in the database
  usage,     \* usage[s]: bytes of the usage_event row of s, or None
  unheard,   \* sessions an event of which was published to no stream
  faults     \* faults so far

vpn     == <<row, ends, batch, sent>>
billing == <<running, inbox, stored, usage>>
broker  == <<stream, exists, events, unheard>>
vars    == <<vpn, billing, broker, faults>>

-----------------------------------------------------------------------------
Row    == [bytes : 0 .. MaxBytes, ended : 0 .. MaxEnds, billed : BOOLEAN]
Listed == [session : Sessions, bytes : 0 .. MaxBytes]
Event  == [id : Nat, session : Sessions, bytes : 0 .. MaxBytes,
           tries : 0 .. MaxDeliver]
Copy   == [id : Nat, session : Sessions, bytes : 0 .. MaxBytes]

Init ==
  /\ row = [s \in Sessions |-> [bytes |-> 0, ended |-> 0, billed |-> FALSE]]
  /\ ends = 0 /\ batch = <<>> /\ sent = FALSE
  /\ stream = {} /\ exists = FALSE /\ events = 0 /\ unheard = {}
  /\ running = FALSE /\ inbox = <<>> /\ stored = FALSE
  /\ usage = [s \in Sessions |-> None]
  /\ faults = 0

Fault == faults < MaxFaults /\ faults' = faults + 1

-----------------------------------------------------------------------------
(* Handlers of vpn-svc.                                                    *)

\* A client reports its counters.  They replace what the row has, and the
\* row of a session that ended takes them too.
Refresh(s, n) ==
  /\ row[s].bytes # n
  /\ row' = [row EXCEPT ![s].bytes = n]
  /\ UNCHANGED <<ends, batch, sent, billing, broker, faults>>

\* A session ends, or one that ended is ended again and stamped anew.
Terminate(s) ==
  /\ ends < MaxEnds
  /\ ends' = ends + 1
  /\ row' = [row EXCEPT ![s].ended = ends + 1]
  /\ UNCHANGED <<batch, sent, billing, broker, faults>>

-----------------------------------------------------------------------------
(* The batcher.  One goroutine: the next tick waits for the last.          *)

Owed(s) == row[s].ended > 0 /\ ~row[s].billed

\* The longest owed come first; the limit cuts off the others.
Oldest ==
  {s \in Sessions : /\ Owed(s)
                    /\ Cardinality({t \in Sessions :
                         Owed(t) /\ row[t].ended < row[s].ended}) < BatchLimit}

TickList ==
  /\ batch = <<>>
  /\ Oldest # {}
  /\ \E order \in SetToSeqs(Oldest) :
       /\ \A i, j \in DOMAIN order :
            i < j => row[order[i]].ended < row[order[j]].ended
       /\ batch' = [i \in DOMAIN order |->
                      [session |-> order[i], bytes |-> row[order[i]].bytes]]
  /\ UNCHANGED <<row, ends, sent, billing, broker, faults>>

\* The broker has an event of the listed row s.
Reaches(r) ==
  IF exists
  THEN /\ events' = events + 1
       /\ stream' = stream \cup
            {[id |-> events + 1, session |-> r.session, bytes |-> r.bytes,
              tries |-> 0]}
       /\ UNCHANGED <<exists, unheard>>
  ELSE /\ unheard' = unheard \cup {r.session}
       /\ UNCHANGED <<stream, exists, events>>

\* Mutated: the row is marked before the event is published.
Publish_MarkFirst ==
  /\ batch # <<>>
  /\ ~sent
  /\ row' = [row EXCEPT ![Head(batch).session].billed = TRUE]
  /\ \/ Reaches(Head(batch)) /\ sent' = TRUE /\ UNCHANGED <<batch, faults>>
     \/ Fault /\ batch' = Tail(batch) /\ UNCHANGED <<sent, broker>>
  /\ UNCHANGED <<ends, billing>>

Publish ==
  /\ batch # <<>>
  /\ ~sent
  /\ Reaches(Head(batch))
  /\ sent' = TRUE
  /\ UNCHANGED <<row, ends, batch, billing, faults>>

\* The publish or its flush failed, in which case the broker may have the
\* event all the same.  The next row's turn; the tick after lists this one.
PublishFails ==
  /\ batch # <<>>
  /\ ~sent
  /\ Fault
  /\ Reaches(Head(batch)) \/ UNCHANGED broker
  /\ batch' = Tail(batch)
  /\ UNCHANGED <<row, ends, sent, billing>>

\* MarkSessionBilled; its error is logged and the event stays published.
Mark ==
  /\ sent
  /\ \/ /\ row' = [row EXCEPT ![Head(batch).session].billed = TRUE]
        /\ UNCHANGED faults
     \/ Fault /\ UNCHANGED row
  /\ sent' = FALSE
  /\ batch' = Tail(batch)
  /\ UNCHANGED <<ends, billing, broker>>

\* vpn-svc dies with its tick.
VpnCrash ==
  /\ batch # <<>>
  /\ Fault
  /\ batch' = <<>> /\ sent' = FALSE
  /\ UNCHANGED <<row, ends, billing, broker>>

-----------------------------------------------------------------------------
(* The stream and billing-svc's consumer.                                  *)

\* Mutated: the consumer is not durable and starts at what is new.
Start_DeliverNew ==
  /\ ~running
  /\ running' = TRUE
  /\ exists' = TRUE
  /\ stream' = {[id |-> m.id, session |-> m.session, bytes |-> m.bytes,
                 tries |-> MaxDeliver] : m \in stream}
  /\ UNCHANGED <<vpn, inbox, stored, usage, events, unheard, faults>>

\* NewConsumer creates the stream and the durable consumer, once per start
\* of the process.
Start ==
  /\ ~running
  /\ running' = TRUE
  /\ exists' = TRUE
  /\ UNCHANGED <<vpn, inbox, stored, usage, stream, events, unheard, faults>>

\* The process dies, or the consumer goroutine returns an error and nobody
\* starts it again before the process.
Stop ==
  /\ running
  /\ Fault
  /\ running' = FALSE
  /\ inbox' = <<>> /\ stored' = FALSE
  /\ UNCHANGED <<vpn, usage, broker>>

Held(m) == \E i \in DOMAIN inbox : inbox[i].id = m.id

\* JetStream delivers what it has not delivered too often.  An event the
\* client holds is delivered again when its acknowledgement is late.
Deliver ==
  /\ running
  /\ \E m \in stream :
       /\ m.tries < MaxDeliver
       /\ IF Held(m) THEN Fault ELSE UNCHANGED faults
       /\ stream' = (stream \ {m}) \cup
            {[id |-> m.id, session |-> m.session, bytes |-> m.bytes,
              tries |-> m.tries + 1]}
       /\ inbox' = Append(inbox, [id |-> m.id, session |-> m.session,
                                  bytes |-> m.bytes])
  /\ UNCHANGED <<vpn, running, stored, usage, exists, events, unheard>>

\* Mutated: ON CONFLICT DO UPDATE.
Inserted_Updates(s, n) == usage' = [usage EXCEPT ![s] = n]

\* Mutated: an event of a session that has its row adds to it.
Inserted_Adds(s, n) ==
  usage' = [usage EXCEPT ![s] = IF usage[s] = None THEN n ELSE usage[s] + n]

\* INSERT .. ON CONFLICT (workload_id) DO NOTHING.
Inserted(s, n) ==
  usage' = [usage EXCEPT ![s] = IF usage[s] = None THEN n ELSE usage[s]]

Persist ==
  /\ inbox # <<>>
  /\ ~stored
  /\ Inserted(Head(inbox).session, Head(inbox).bytes)
  /\ stored' = TRUE
  /\ UNCHANGED <<vpn, running, inbox, broker, faults>>

\* The insert fails; the Nak has the event delivered again, at once.
PersistFails ==
  /\ inbox # <<>>
  /\ ~stored
  /\ Fault
  /\ inbox' = Tail(inbox)
  /\ UNCHANGED <<vpn, running, stored, usage, broker>>

\* An acknowledgement that is lost leaves the event to be delivered again.
Ack ==
  /\ stored
  /\ \/ /\ stream' = {m \in stream : m.id # Head(inbox).id}
        /\ UNCHANGED faults
     \/ Fault /\ UNCHANGED stream
  /\ inbox' = Tail(inbox)
  /\ stored' = FALSE
  /\ UNCHANGED <<vpn, running, usage, exists, events, unheard>>

-----------------------------------------------------------------------------
Next ==
  \/ \E s \in Sessions, n \in 0 .. MaxBytes : Refresh(s, n)
  \/ \E s \in Sessions : Terminate(s)
  \/ TickList \/ Publish \/ PublishFails \/ Mark \/ VpnCrash
  \/ Start \/ Stop
  \/ Deliver \/ Persist \/ PersistFails \/ Ack

Spec == Init /\ [][Next]_vars

\* The ticker and the tick's own calls; the broker and the consumer's loop.
\* That billing-svc is started again is nobody's duty in the code, so Start
\* has no fairness.
FairSpec ==
  /\ Spec
  /\ WF_vars(TickList) /\ WF_vars(Publish) /\ WF_vars(Mark)
  /\ WF_vars(Deliver) /\ WF_vars(Persist) /\ WF_vars(Ack)

-----------------------------------------------------------------------------
(* Properties.                                                             *)

\* Every part of the state has its type.
TypeOK ==
  /\ row \in [Sessions -> Row] /\ ends \in 0 .. MaxEnds
  /\ batch \in Seq(Listed) /\ sent \in BOOLEAN
  /\ stream \subseteq Event /\ exists \in BOOLEAN /\ events \in Nat
  /\ running \in BOOLEAN /\ inbox \in Seq(Copy) /\ stored \in BOOLEAN
  /\ usage \in [Sessions -> 0 .. MaxBytes \cup {None}]
  /\ unheard \subseteq Sessions /\ faults \in 0 .. MaxFaults

\* What was owed for s is credited, or will be when its event arrives, or
\* went out before there was a stream.
Accounted(s) == \/ usage[s] # None
                \/ \E m \in stream : m.session = s
                \/ s \in unheard

\* Tick publishes, then marks; the consumer stores, then acknowledges.  So a
\* session marked billed has its usage row, or an event of it is in the
\* stream, whichever call failed and whoever crashed in between - unless an
\* event of it went out before there was a stream.
BilledIsAccounted ==
  \A s \in Sessions : row[s].billed => Accounted(s)

\* RecordUsageEvent: once a session has its usage row no second event of it,
\* published again after a failed mark with other bytes or delivered again
\* after a lost acknowledgement, changes what the provider is credited.
CreditIsFinal ==
  [][\A s \in Sessions : usage[s] # None => usage'[s] = usage[s]]_vars

\* A session that ended and is not billed when the stream exists is credited
\* in the end, with faults fewer than the deliveries JetStream grants and a
\* consumer that is running from some time on.
OwedIsCredited ==
  <>[]running =>
    \A s \in Sessions :
      (exists /\ Owed(s) /\ s \notin unheard) ~> (usage[s] # None)
=============================================================================
