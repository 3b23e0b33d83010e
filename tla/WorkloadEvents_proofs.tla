------------------------ MODULE WorkloadEvents_proofs -----------------------
(***************************************************************************)
(* Proofs about WorkloadEvents, for any number of reports and clients and  *)
(* any capacity.                                                           *)
(*                                                                         *)
(* What nobody misses is an invariant over the list of subscribers, so it  *)
(* rests on the list being exactly the open channels, and on a report that *)
(* is under way naming an event that was stored.                           *)
(***************************************************************************)
EXTENDS WorkloadEvents, TLAPS

\* The list holds the open channels, and no closed one.
Listed == subs = {c \in Subscribers : phase[c] = "live"}

\* A report under way names an event.
Named == \A r \in Reporters : report[r].at # "idle" => report[r].event \in Events

EventsInv == TypeOK /\ Listed /\ Named /\ NothingMissed

-----------------------------------------------------------------------------
\* Init satisfies the invariant: nobody is on the list.
LEMMA EventsInit == Init => EventsInv
<1> SUFFICES ASSUME Init PROVE EventsInv
  OBVIOUS
<1>1. Idle \in Report
  BY EventsAssumption DEF Idle, Report
<1>2. status \in 0 .. MaxEvents
  BY EventsAssumption DEF Init
<1>3. channel \in [Subscribers -> Seq(Events)]
  BY DEF Init
<1>4. TypeOK
  BY <1>1, <1>2, <1>3 DEF Init, TypeOK
<1>5. Listed /\ Named /\ NothingMissed
  BY DEF Init, Listed, Named, NothingMissed, Idle
<1>6. QED
  BY <1>4, <1>5 DEF EventsInv

\* A report that takes r's place has its type.
LEMMA ReportType ==
  ASSUME TypeOK, NEW r \in Reporters,
         NEW at \in {"idle", "stored", "sending"}, NEW n \in 0 .. MaxEvents,
         NEW left \in SUBSET Subscribers,
         report' = [report EXCEPT ![r] =
                      [at |-> at, event |-> n, left |-> left]]
  PROVE  report' \in [Reporters -> Report]
<1>1. [at |-> at, event |-> n, left |-> left] \in Report
  BY DEF Report
<1>2. QED
  BY <1>1 DEF TypeOK

\* An event of a client on the list is settled, or its report will see to
\* it.
Kept(c, n) == \/ n \in seen[c] \/ Queued(c, n)
              \/ \E r \in Reporters : Owes(r, c, n)
              \/ n \in missed[c] \/ n \in aborted

\* The clients on the list are the ones the invariant speaks of.
LEMMA OnTheList ==
  ASSUME Listed
  PROVE  NothingMissed <=>
           \A c \in subs : \A n \in since[c] + 1 .. status : Kept(c, n)
BY DEF Listed, NothingMissed, Kept

\* Every step keeps the invariant.
LEMMA EventsStep == EventsInv /\ [Next]_vars => EventsInv'
<1> SUFFICES ASSUME EventsInv, [Next]_vars PROVE EventsInv'
  OBVIOUS
<1> USE EventsAssumption DEF EventsInv
<1>0. /\ \A c \in subs : \A n \in since[c] + 1 .. status : Kept(c, n)
      /\ \A r \in Reporters : report[r] \in Report
  BY OnTheList DEF TypeOK
<1>1. ASSUME NEW r \in Reporters, Store(r) PROVE EventsInv'
  <2>1. status' = status + 1 /\ status + 1 \in Events /\ status \in Nat
    BY <1>1 DEF Store, TypeOK, Events
  <2>2. report' = [report EXCEPT ![r] =
                     [at |-> "stored", event |-> status + 1, left |-> {}]]
    BY <1>1 DEF Store
  <2>3. report' \in [Reporters -> Report]
    <3>1. status + 1 \in 0 .. MaxEvents /\ {} \in SUBSET Subscribers
          /\ "stored" \in {"idle", "stored", "sending"}
      BY <2>1 DEF Events
    <3>2. QED
      BY <2>2, <3>1, ReportType
  <2>4. UNCHANGED <<subs, phase, since, channel, seen, missed, aborted>>
    BY <1>1 DEF Store, client
  <2>5. TypeOK'
    BY <2>1, <2>3, <2>4 DEF TypeOK, Events
  <2>6. Listed' /\ Named'
    BY <2>1, <2>2, <2>3, <2>4 DEF Listed, Named, TypeOK
  <2>7. ASSUME NEW c \in subs, NEW n \in since[c] + 1 .. status + 1
        PROVE  Kept(c, n)'
    <3>1. CASE n = status + 1
      <4>1. Owes(r, c, n)'
        BY <2>2, <3>1 DEF Owes, TypeOK
      <4>2. QED
        BY <4>1 DEF Kept
    <3>2. CASE n # status + 1
      <4>1. n \in since[c] + 1 .. status
        BY <2>1, <3>2 DEF Listed, TypeOK
      <4>2. Kept(c, n)
        BY <1>0, <4>1
      <4>3. \A q \in Reporters : Owes(q, c, n) => Owes(q, c, n)'
        BY <1>1, <2>2 DEF Store, Owes, TypeOK
      <4>4. QED
        BY <2>4, <4>2, <4>3 DEF Kept, Queued
    <3>3. QED
      BY <3>1, <3>2
  <2>8. NothingMissed'
    BY <2>1, <2>4, <2>7, <2>6 DEF NothingMissed, Listed, Kept
  <2>9. QED
    BY <2>5, <2>6, <2>8
<1>2. ASSUME NEW r \in Reporters, CopyList(r) PROVE EventsInv'
  <2>1. report' = [report EXCEPT ![r] =
                     [at |-> "sending", event |-> report[r].event,
                      left |-> subs]]
    BY <1>2 DEF CopyList
  <2>2. report[r].event \in 0 .. MaxEvents /\ subs \in SUBSET Subscribers
    BY <1>0 DEF Report, TypeOK
  <2>3. report' \in [Reporters -> Report]
    BY <2>1, <2>2, ReportType
  <2>4. UNCHANGED <<status, subs, phase, since, channel, seen, missed, aborted>>
    BY <1>2 DEF CopyList, client
  <2>5. TypeOK'
    BY <2>3, <2>4 DEF TypeOK
  <2>6. Listed' /\ Named'
    BY <1>2, <2>1, <2>4 DEF CopyList, Listed, Named, TypeOK
  <2>7. \A c \in subs, n \in Events, q \in Reporters :
          Owes(q, c, n) => Owes(q, c, n)'
    BY <2>1 DEF Owes, TypeOK
  <2>8. ASSUME NEW c \in subs, NEW n \in since[c] + 1 .. status
        PROVE  Kept(c, n)'
    <3>1. n \in Events
      BY DEF Events, Listed, TypeOK
    <3>2. QED
      BY <1>0, <2>4, <2>7, <3>1 DEF Kept, Queued
  <2>9. NothingMissed'
    BY <2>4, <2>8, <2>6 DEF NothingMissed, Listed, Kept
  <2>10. QED
    BY <2>5, <2>6, <2>9
<1>3. ASSUME NEW r \in Reporters, NEW c \in Subscribers, Send(r, c)
      PROVE  EventsInv'
  <2>1. report' = [report EXCEPT ![r] =
                     [at |-> "sending", event |-> report[r].event,
                      left |-> report[r].left \ {c}]]
    BY <1>3 DEF Send, Served
  <2>2. /\ report[r].event \in Events
        /\ report[r].left \ {c} \in SUBSET Subscribers
    BY <1>0, <1>3 DEF Send, Named, Report
  <2>3. report' \in [Reporters -> Report]
    <3>1. report[r].event \in 0 .. MaxEvents
          /\ "sending" \in {"idle", "stored", "sending"}
      BY <2>2 DEF Events
    <3>2. QED
      BY <2>1, <2>2, <3>1, ReportType
  <2>4. UNCHANGED <<status, subs, phase, since, seen, aborted>>
    BY <1>3 DEF Send, client
  <2>5. channel[c] \in Seq(Events)
    BY DEF TypeOK
  <2>6. /\ channel' \in [Subscribers -> Seq(Events)]
        /\ missed' \in [Subscribers -> SUBSET Events]
    <3>1. CASE Full(c)
      <4>1. missed[c] \cup {report[r].event} \in SUBSET Events
        BY <2>2 DEF TypeOK
      <4>2. missed' = [missed EXCEPT ![c] = missed[c] \cup {report[r].event}]
            /\ channel' = channel
        BY <1>3, <3>1 DEF Send, TypeOK
      <4>3. QED
        BY <4>1, <4>2 DEF TypeOK
    <3>2. CASE ~Full(c)
      <4>1. Append(channel[c], report[r].event) \in Seq(Events)
        BY <2>2, <2>5
      <4>2. channel' = [channel EXCEPT
                          ![c] = Append(channel[c], report[r].event)]
            /\ missed' = missed
        BY <1>3, <3>2 DEF Send, TypeOK
      <4>3. QED
        BY <4>1, <4>2 DEF TypeOK
    <3>3. QED
      BY <3>1, <3>2
  <2>7. TypeOK'
    BY <2>3, <2>4, <2>6 DEF TypeOK
  <2>8. Listed' /\ Named'
    BY <2>1, <2>2, <2>4 DEF Listed, Named, TypeOK
  <2>9. \A d \in Subscribers : \A n \in missed[d] : n \in missed'[d]
    BY <1>3 DEF Send, TypeOK
  <2>10. \A d \in Subscribers, n \in Events : Queued(d, n) => Queued(d, n)'
    <3>1. CASE Full(c)
      BY <1>3, <3>1 DEF Send, Queued
    <3>2. CASE ~Full(c)
      <4>1. channel' = [channel EXCEPT
                          ![c] = Append(channel[c], report[r].event)]
        BY <1>3, <3>2 DEF Send, TypeOK
      <4>2. \A i \in DOMAIN channel[c] :
              /\ i \in DOMAIN Append(channel[c], report[r].event)
              /\ Append(channel[c], report[r].event)[i] = channel[c][i]
        BY <2>5, <2>2
      <4>3. QED
        BY <4>1, <4>2 DEF Queued, TypeOK
    <3>3. QED
      BY <3>1, <3>2
  <2>11. ASSUME NEW n \in Events, n = report[r].event
         PROVE  Queued(c, n)' \/ n \in missed'[c]
    <3>1. CASE Full(c)
      BY <1>3, <2>11, <3>1 DEF Send, TypeOK
    <3>2. CASE ~Full(c)
      <4> DEFINE q == Append(channel[c], n)
      <4>1. channel'[c] = q
        BY <1>3, <2>11, <3>2 DEF Send, TypeOK
      <4>2. Len(q) \in DOMAIN q /\ q[Len(q)] = n
        BY <2>5
      <4> HIDE DEF q
      <4>3. QED
        BY <4>1, <4>2 DEF Queued
    <3>3. QED
      BY <3>1, <3>2
  <2>12. ASSUME NEW d \in subs, NEW n \in since[d] + 1 .. status
         PROVE  Kept(d, n)'
    <3>1. n \in Events /\ d \in Subscribers
      BY DEF Events, Listed, TypeOK
    <3>2. \A q \in Reporters : Owes(q, d, n) =>
            Owes(q, d, n)' \/ (q = r /\ d = c /\ n = report[r].event)
      BY <1>3, <2>1 DEF Send, Owes, TypeOK
    <3>3. CASE \E q \in Reporters : Owes(q, d, n)
      <4>1. PICK q \in Reporters : Owes(q, d, n)
        BY <3>3
      <4>2. CASE Owes(q, d, n)'
        BY <4>2 DEF Kept
      <4>3. CASE d = c /\ n = report[r].event
        BY <2>11, <3>1, <4>3 DEF Kept
      <4>4. QED
        BY <3>2, <4>1, <4>2, <4>3
    <3>4. CASE ~\E q \in Reporters : Owes(q, d, n)
      BY <1>0, <2>4, <2>9, <2>10, <3>1, <3>4 DEF Kept
    <3>5. QED
      BY <3>3, <3>4
  <2>13. NothingMissed'
    BY <2>4, <2>12, <2>8 DEF NothingMissed, Listed, Kept
  <2>14. QED
    BY <2>7, <2>8, <2>13
<1>4. ASSUME NEW r \in Reporters,
             \/ Return(r)
             \/ \E c \in Subscribers : Panic(r, c)
      PROVE  EventsInv'
  <2>1. report' = [report EXCEPT ![r] = Idle]
    BY <1>4 DEF Return, Panic
  <2>2. Idle \in Report
    BY DEF Idle, Report
  <2>3. UNCHANGED <<status, subs, phase, since, channel, seen, missed>>
    BY <1>4 DEF Return, Panic, client
  <2>4. /\ aborted \subseteq aborted' /\ aborted' \subseteq Events
        /\ report[r].at = "sending"
        /\ report[r].left = {} \/ report[r].event \in aborted'
    BY <1>4 DEF Return, Panic, Named, TypeOK
  <2>5. TypeOK'
    BY <2>1, <2>2, <2>3, <2>4 DEF TypeOK
  <2>6. Listed' /\ Named'
    BY <2>1, <2>3 DEF Listed, Named, TypeOK, Idle
  <2>7. ASSUME NEW d \in subs, NEW n \in since[d] + 1 .. status
        PROVE  Kept(d, n)'
    <3>1. \A q \in Reporters : Owes(q, d, n) =>
            Owes(q, d, n)' \/ n \in aborted'
      BY <2>1, <2>4 DEF Owes, TypeOK
    <3>2. QED
      BY <1>0, <2>3, <2>4, <3>1 DEF Kept, Queued
  <2>8. NothingMissed'
    BY <2>3, <2>7, <2>6 DEF NothingMissed, Listed, Kept
  <2>9. QED
    BY <2>5, <2>6, <2>8
<1>5. ASSUME NEW c \in Subscribers, Baseline(c) \/ GiveUp(c)
      PROVE  EventsInv'
  <2>1. UNCHANGED <<status, report, subs, since, channel, seen, missed,
                    aborted>>
    BY <1>5 DEF Baseline, GiveUp
  <2>2. TypeOK' /\ Listed'
    BY <1>5, <2>1 DEF Baseline, GiveUp, TypeOK, Listed
  <2>3. Named' /\ NothingMissed'
    BY <2>1, <2>2 DEF Listed, Named, NothingMissed, Queued, Owes
  <2>4. QED
    BY <2>2, <2>3
<1>6. ASSUME NEW c \in Subscribers, Subscribe(c) PROVE EventsInv'
  <2>1. UNCHANGED <<status, report, channel, seen, missed, aborted>>
    BY <1>6 DEF Subscribe
  <2>2. TypeOK' /\ Listed' /\ Named'
    BY <1>6, <2>1 DEF Subscribe, TypeOK, Listed, Named
  <2>3. ASSUME NEW d \in subs', NEW n \in since'[d] + 1 .. status
        PROVE  Kept(d, n)'
    <3>1. CASE d = c
      BY <1>6, <2>1, <3>1 DEF Subscribe, TypeOK
    <3>2. CASE d # c
      <4>1. d \in subs /\ since'[d] = since[d]
        BY <1>6, <3>2 DEF Subscribe, TypeOK
      <4>2. QED
        BY <1>0, <2>1, <4>1 DEF Kept, Queued, Owes
    <3>3. QED
      BY <3>1, <3>2
  <2>4. NothingMissed'
    BY <2>1, <2>3, <2>2 DEF NothingMissed, Listed, Kept
  <2>5. QED
    BY <2>2, <2>4
<1>7. ASSUME NEW c \in Subscribers, Receive(c) PROVE EventsInv'
  <2>1. UNCHANGED <<status, report, subs, phase, since, missed, aborted>>
    BY <1>7 DEF Receive, client
  <2>2. channel[c] \in Seq(Events) /\ channel[c] # <<>>
    BY <1>7 DEF Receive, TypeOK
  <2>3. /\ Head(channel[c]) \in Events /\ Tail(channel[c]) \in Seq(Events)
        /\ Head(channel[c]) = channel[c][1]
        /\ \A i \in DOMAIN channel[c] : i # 1 =>
             i-1 \in DOMAIN Tail(channel[c])
             /\ Tail(channel[c])[i-1] = channel[c][i]
    BY <2>2
  <2>4. /\ channel' = [channel EXCEPT ![c] = Tail(channel[c])]
        /\ seen' = [seen EXCEPT ![c] = seen[c] \cup {Head(channel[c])}]
    BY <1>7 DEF Receive, TypeOK
  <2>5. /\ channel' \in [Subscribers -> Seq(Events)]
        /\ seen' \in [Subscribers -> SUBSET Events]
    <3>1. seen[c] \cup {Head(channel[c])} \in SUBSET Events
      BY <2>3 DEF TypeOK
    <3>2. QED
      BY <2>3, <2>4, <3>1 DEF TypeOK
  <2>6. TypeOK' /\ Listed' /\ Named'
    BY <2>1, <2>5 DEF TypeOK, Listed, Named
  <2>7. \A d \in Subscribers, n \in Events :
          /\ n \in seen[d] => n \in seen'[d]
          /\ Queued(d, n) => Queued(d, n)' \/ n \in seen'[d]
    BY <2>3, <2>4 DEF Queued, TypeOK
  <2>8. ASSUME NEW d \in subs, NEW n \in since[d] + 1 .. status
        PROVE  Kept(d, n)'
    <3>1. n \in Events /\ d \in Subscribers
      BY DEF Events, Listed, TypeOK
    <3>2. QED
      BY <1>0, <2>1, <2>7, <3>1 DEF Kept, Owes
  <2>9. NothingMissed'
    BY <2>1, <2>8, <2>6 DEF NothingMissed, Listed, Kept
  <2>10. QED
    BY <2>6, <2>9
<1>8. ASSUME NEW c \in Subscribers, Leave(c) PROVE EventsInv'
  <2>1. UNCHANGED <<status, report, since, channel, seen, missed, aborted>>
        /\ subs' \subseteq subs
    BY <1>8 DEF Leave
  <2>2. TypeOK' /\ Listed'
    BY <1>8, <2>1 DEF Leave, TypeOK, Listed
  <2>3. Named' /\ NothingMissed'
    BY <2>1, <2>2 DEF Listed, Named, NothingMissed, Queued, Owes
  <2>4. QED
    BY <2>2, <2>3
<1>9. ASSUME UNCHANGED vars PROVE EventsInv'
  <2>1. TypeOK' /\ Listed' /\ Named'
    BY <1>9 DEF vars, client, TypeOK, Listed, Named
  <2>2. NothingMissed'
    BY <1>9 DEF vars, client, NothingMissed, Queued, Owes
  <2>3. QED
    BY <2>1, <2>2
<1>10. QED
  BY <1>1, <1>2, <1>3, <1>4, <1>5, <1>6, <1>7, <1>8, <1>9 DEF Next

-----------------------------------------------------------------------------
\* The invariant holds in every state.
LEMMA EventsInvariant == Spec => []EventsInv
BY EventsInit, EventsStep, PTL DEF Spec

\* Every part of the state has its type.
THEOREM EventsTypes == Spec => []TypeOK
<1>1. EventsInv => TypeOK
  BY DEF EventsInv
<1>2. QED
  BY <1>1, EventsInvariant, PTL

\* No event is lost between a report and a client on the list, except by a
\* full channel or a report that panicked.
THEOREM EventsReach == Spec => []NothingMissed
<1>1. EventsInv => NothingMissed
  BY DEF EventsInv
<1>2. QED
  BY <1>1, EventsInvariant, PTL

\* A report that copies the list after a client left has nothing to send to
\* it, so it does not panic over its closed channel.
THEOREM PanicsAreOld == Spec => LateReportsAreSafe
<1> DEFINE Safe == \A r \in Reporters, c \in Subscribers :
                     phase[c] = "gone" /\ c \notin report[r].left
                       => c \notin report'[r].left
<1>1. ASSUME EventsInv, Next PROVE Safe
  <2>1. ASSUME NEW r \in Reporters, CopyList(r) PROVE Safe
    BY <1>1, <2>1 DEF CopyList, EventsInv, Listed, TypeOK
  <2>2. ASSUME NEW r \in Reporters,
               Store(r) \/ Return(r)
               \/ (\E c \in Subscribers : Send(r, c) \/ Panic(r, c))
        PROVE  Safe
    <3>1. report'[r].left \subseteq report[r].left
      BY <1>1, <2>2
         DEF Store, Return, Send, Served, Panic, Idle, EventsInv, TypeOK
    <3>2. \A q \in Reporters : q # r => report'[q] = report[q]
      BY <1>1, <2>2
         DEF Store, Return, Send, Served, Panic, EventsInv, TypeOK
    <3>3. QED
      BY <3>1, <3>2
  <2>3. ASSUME NEW c \in Subscribers,
               \/ Baseline(c) \/ Subscribe(c) \/ GiveUp(c) \/ Receive(c)
               \/ Leave(c)
        PROVE  Safe
    BY <2>3 DEF Baseline, Subscribe, GiveUp, Receive, Leave
  <2>4. QED
    BY <1>1, <2>1, <2>2, <2>3 DEF Next
<1>2. EventsInv /\ [Next]_vars => [Safe]_vars
  BY <1>1
<1> HIDE DEF Safe
<1>3. Spec => [][Safe]_vars
  BY <1>2, EventsInvariant, PTL DEF Spec
<1>4. QED
  BY <1>3 DEF LateReportsAreSafe, Safe
=============================================================================
