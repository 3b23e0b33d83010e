------------------------ MODULE UsageMetering_proofs ------------------------
(***************************************************************************)
(* Proofs about UsageMetering, for any number of sessions, any limits and  *)
(* any number of faults.                                                   *)
(*                                                                         *)
(* That a billed session is accounted for is not inductive by itself.  The *)
(* mark relies on what the tick did before it (the head it sent is         *)
(* accounted for), the acknowledgement on what the consumer did before it  *)
(* (the head it stored has its row), and removing an event by its id on an *)
(* id naming one session, in the stream and in the client's hands alike.   *)
(***************************************************************************)
EXTENDS UsageMetering, FiniteSetTheorems, TLAPS

\* The event of the row at work is published while it awaits its mark.
SentHead == sent => batch # <<>> /\ Accounted(Head(batch).session)

\* The row of the event at work is there while it awaits its
\* acknowledgement.
StoredHead == stored => inbox # <<>> /\ usage[Head(inbox).session] # None

\* Ids are handed out once.
Numbered == /\ \A m \in stream : m.id <= events
            /\ \A i \in DOMAIN inbox : inbox[i].id <= events

\* An id names one session.
OneSession ==
  /\ \A m, k \in stream : m.id = k.id => m.session = k.session
  /\ \A m \in stream : \A i \in DOMAIN inbox :
       m.id = inbox[i].id => m.session = inbox[i].session

UsageInv == /\ TypeOK /\ BilledIsAccounted /\ SentHead /\ StoredHead
            /\ Numbered /\ OneSession

-----------------------------------------------------------------------------
(* Types.                                                                  *)

\* The first element of a sequence that is not empty, and the others.
LEMMA HeadIn ==
  ASSUME NEW S, NEW q \in Seq(S), q # <<>>
  PROVE  /\ Head(q) \in S /\ Tail(q) \in Seq(S)
         /\ 1 \in DOMAIN q /\ Head(q) = q[1]
         /\ \A i \in DOMAIN Tail(q) : i+1 \in DOMAIN q /\ Tail(q)[i] = q[i+1]
OBVIOUS

\* A published event has the type of the stream's events.
LEMMA ReachesType ==
  ASSUME TypeOK, NEW r \in Listed, Reaches(r)
  PROVE  stream' \subseteq Event /\ exists' \in BOOLEAN /\ events' \in Nat
         /\ unheard' \subseteq Sessions
<1>1. r.session \in Sessions /\ r.bytes \in 0 .. MaxBytes
  BY DEF Listed
<1>2. CASE exists
  <2>1. [id |-> events + 1, session |-> r.session, bytes |-> r.bytes,
         tries |-> 0] \in Event
    BY <1>1, UsageAssumption DEF Event, TypeOK
  <2>2. QED
    BY <1>2, <2>1 DEF Reaches, TypeOK
<1>3. CASE ~exists
  BY <1>1, <1>3 DEF Reaches, TypeOK
<1>4. QED
  BY <1>2, <1>3

\* Init and every step give every variable a value of its type.
LEMMA TypeInit == Init => TypeOK
<1>1. ASSUME Init PROVE TypeOK
  <2>1. [bytes |-> 0, ended |-> 0, billed |-> FALSE] \in Row
    BY UsageAssumption DEF Row
  <2>2. row \in [Sessions -> Row]
    BY <1>1, <2>1 DEF Init
  <2>3. ends \in 0 .. MaxEnds /\ faults \in 0 .. MaxFaults /\ events \in Nat
    BY <1>1, UsageAssumption DEF Init
  <2>4. batch \in Seq(Listed) /\ inbox \in Seq(Copy)
    BY <1>1 DEF Init
  <2>5. usage \in [Sessions -> 0 .. MaxBytes \cup {None}]
    BY <1>1 DEF Init
  <2>6. QED
    BY <1>1, <2>2, <2>3, <2>4, <2>5 DEF Init, TypeOK
<1>2. QED
  BY <1>1

LEMMA TypeStep ==
  TypeOK /\ SentHead /\ StoredHead /\ [Next]_vars => TypeOK'
<1> SUFFICES ASSUME TypeOK, SentHead, StoredHead, [Next]_vars PROVE TypeOK'
  OBVIOUS
<1> USE UsageAssumption
<1>1. ASSUME NEW s \in Sessions, NEW n \in 0 .. MaxBytes, Refresh(s, n)
      PROVE  TypeOK'
  <2>1. row' \in [Sessions -> Row]
    BY <1>1 DEF Refresh, TypeOK, Row
  <2>2. QED
    BY <1>1, <2>1 DEF Refresh, TypeOK, billing, broker
<1>2. ASSUME NEW s \in Sessions, Terminate(s) PROVE TypeOK'
  <2>1. ends + 1 \in 0 .. MaxEnds
    BY <1>2 DEF Terminate, TypeOK
  <2>2. row' \in [Sessions -> Row]
    BY <1>2, <2>1 DEF Terminate, TypeOK, Row
  <2>3. QED
    BY <1>2, <2>1, <2>2 DEF Terminate, TypeOK, billing, broker
<1>3. ASSUME TickList PROVE TypeOK'
  <2>1. PICK order \in SetToSeqs(Oldest) :
          batch' = [i \in DOMAIN order |->
                      [session |-> order[i], bytes |-> row[order[i]].bytes]]
    BY <1>3 DEF TickList
  <2>2. Cardinality(Oldest) \in Nat
    <3>1. Oldest \subseteq Sessions
      BY DEF Oldest
    <3>2. IsFiniteSet(Oldest)
      BY <3>1, FS_Subset
    <3>3. QED
      BY <3>2, FS_CardinalityType
  <2>3. order \in [1 .. Cardinality(Oldest) -> Sessions]
    BY <2>1 DEF SetToSeqs, Oldest
  <2>4. \A s \in Sessions : row[s].bytes \in 0 .. MaxBytes
    BY DEF TypeOK, Row
  <2>5. batch' \in [1 .. Cardinality(Oldest) -> Listed]
    BY <2>1, <2>3, <2>4 DEF Listed
  <2>6. batch' \in Seq(Listed)
    BY <2>2, <2>5
  <2>7. QED
    BY <1>3, <2>6 DEF TickList, TypeOK, billing, broker
<1>4. ASSUME Publish PROVE TypeOK'
  <2>1. Head(batch) \in Listed
    BY <1>4, HeadIn DEF Publish, TypeOK
  <2>2. QED
    BY <1>4, <2>1, ReachesType DEF Publish, TypeOK, billing
<1>5. ASSUME PublishFails PROVE TypeOK'
  <2>1. Head(batch) \in Listed /\ Tail(batch) \in Seq(Listed)
    BY <1>5, HeadIn DEF PublishFails, TypeOK
  <2>2. stream' \subseteq Event /\ exists' \in BOOLEAN /\ events' \in Nat
        /\ unheard' \subseteq Sessions
    <3>1. CASE Reaches(Head(batch))
      BY <2>1, <3>1, ReachesType
    <3>2. CASE UNCHANGED broker
      BY <3>2 DEF broker, TypeOK
    <3>3. QED
      BY <1>5, <3>1, <3>2 DEF PublishFails
  <2>3. QED
    BY <1>5, <2>1, <2>2 DEF PublishFails, Fault, TypeOK, billing
<1>6. ASSUME Mark PROVE TypeOK'
  <2>1. Head(batch) \in Listed /\ Tail(batch) \in Seq(Listed)
    BY <1>6, HeadIn DEF Mark, TypeOK, SentHead
  <2>2. row' \in [Sessions -> Row] /\ faults' \in 0 .. MaxFaults
    <3>1. CASE row' = [row EXCEPT ![Head(batch).session].billed = TRUE]
               /\ UNCHANGED faults
      BY <2>1, <3>1 DEF TypeOK, Row, Listed
    <3>2. CASE Fault /\ UNCHANGED row
      BY <3>2 DEF Fault, TypeOK
    <3>3. QED
      BY <1>6, <3>1, <3>2 DEF Mark
  <2>3. QED
    BY <1>6, <2>1, <2>2 DEF Mark, TypeOK, billing, broker
<1>7. ASSUME VpnCrash PROVE TypeOK'
  <2>1. faults' \in 0 .. MaxFaults
    BY <1>7 DEF VpnCrash, Fault, TypeOK
  <2>2. batch' \in Seq(Listed)
    BY <1>7 DEF VpnCrash
  <2>3. QED
    BY <1>7, <2>1, <2>2 DEF VpnCrash, TypeOK, billing, broker
<1>8. ASSUME Start PROVE TypeOK'
  BY <1>8 DEF Start, TypeOK, vpn
<1>9. ASSUME Stop PROVE TypeOK'
  <2>1. faults' \in 0 .. MaxFaults
    BY <1>9 DEF Stop, Fault, TypeOK
  <2>2. inbox' \in Seq(Copy)
    BY <1>9 DEF Stop
  <2>3. QED
    BY <1>9, <2>1, <2>2 DEF Stop, TypeOK, vpn, broker
<1>10. ASSUME Deliver PROVE TypeOK'
  <2>1. PICK m \in stream :
          /\ m.tries < MaxDeliver
          /\ IF Held(m) THEN Fault ELSE UNCHANGED faults
          /\ stream' = (stream \ {m}) \cup
               {[id |-> m.id, session |-> m.session, bytes |-> m.bytes,
                 tries |-> m.tries + 1]}
          /\ inbox' = Append(inbox, [id |-> m.id, session |-> m.session,
                                     bytes |-> m.bytes])
    BY <1>10 DEF Deliver
  <2>2. m \in Event
    BY DEF TypeOK
  <2>3. [id |-> m.id, session |-> m.session, bytes |-> m.bytes,
         tries |-> m.tries + 1] \in Event
    BY <2>1, <2>2 DEF Event
  <2>4. stream' \subseteq Event
    BY <2>1, <2>3 DEF TypeOK
  <2>5. [id |-> m.id, session |-> m.session, bytes |-> m.bytes] \in Copy
    BY <2>2 DEF Event, Copy
  <2>6. inbox' \in Seq(Copy)
    BY <2>1, <2>5 DEF TypeOK
  <2>7. faults' \in 0 .. MaxFaults
    BY <2>1 DEF Fault, TypeOK
  <2>8. QED
    BY <1>10, <2>4, <2>6, <2>7 DEF Deliver, TypeOK, vpn
<1>11. ASSUME Persist PROVE TypeOK'
  <2>1. Head(inbox) \in Copy
    BY <1>11, HeadIn DEF Persist, TypeOK
  <2>2. usage' \in [Sessions -> 0 .. MaxBytes \cup {None}]
    BY <1>11, <2>1 DEF Persist, Inserted, TypeOK, Copy
  <2>3. QED
    BY <1>11, <2>2 DEF Persist, TypeOK, vpn, broker
<1>12. ASSUME PersistFails PROVE TypeOK'
  <2>1. Tail(inbox) \in Seq(Copy)
    BY <1>12, HeadIn DEF PersistFails, TypeOK
  <2>2. faults' \in 0 .. MaxFaults
    BY <1>12 DEF PersistFails, Fault, TypeOK
  <2>3. QED
    BY <1>12, <2>1, <2>2 DEF PersistFails, TypeOK, vpn, broker
<1>13. ASSUME Ack PROVE TypeOK'
  <2>1. Tail(inbox) \in Seq(Copy)
    BY <1>13, HeadIn DEF Ack, TypeOK, StoredHead
  <2>2. stream' \subseteq Event /\ faults' \in 0 .. MaxFaults
    BY <1>13 DEF Ack, Fault, TypeOK
  <2>3. QED
    BY <1>13, <2>1, <2>2 DEF Ack, TypeOK, vpn
<1>14. CASE UNCHANGED vars
  BY <1>14 DEF vars, vpn, billing, broker, TypeOK
<1>15. QED
  BY <1>1, <1>2, <1>3, <1>4, <1>5, <1>6, <1>7, <1>8, <1>9, <1>10, <1>11,
     <1>12, <1>13, <1>14 DEF Next

-----------------------------------------------------------------------------
(* What is billed is accounted for.                                        *)

\* Init has nothing billed and nothing under way.
LEMMA AccountInit == Init => UsageInv
<1> SUFFICES ASSUME Init PROVE UsageInv
  OBVIOUS
<1>1. TypeOK
  BY TypeInit
<1>2. BilledIsAccounted /\ SentHead /\ StoredHead
  BY DEF Init, BilledIsAccounted, SentHead, StoredHead
<1>3. Numbered /\ OneSession
  BY DEF Init, Numbered, OneSession
<1>4. QED
  BY <1>1, <1>2, <1>3 DEF UsageInv

\* A step that takes no event away and no credit leaves what is accounted
\* for accounted for.
Grows == /\ \A s \in Sessions : usage[s] # None => usage'[s] # None
         /\ \A m \in stream : \E k \in stream' : k.session = m.session
         /\ unheard \subseteq unheard'

LEMMA GrowsKeeps ==
  ASSUME Grows, NEW s \in Sessions, Accounted(s)
  PROVE  Accounted(s)'
BY DEF Grows, Accounted

\* A publication adds an event of the listed session, or to the unheard.
LEMMA ReachesAdds ==
  ASSUME TypeOK, Numbered, OneSession, NEW r \in Listed, Reaches(r),
         UNCHANGED billing
  PROVE  Grows /\ Accounted(r.session)' /\ Numbered' /\ OneSession'
<1>1. CASE exists
  <2> DEFINE e == [id |-> events + 1, session |-> r.session,
                   bytes |-> r.bytes, tries |-> 0]
  <2>1. /\ events' = events + 1 /\ stream' = stream \cup {e}
        /\ UNCHANGED unheard /\ inbox' = inbox /\ usage' = usage
    BY <1>1 DEF Reaches, billing
  <2>2. e.id = events + 1 /\ e.session = r.session
    OBVIOUS
  <2>3. /\ \A m \in stream : m.id <= events /\ m.id \in Nat
        /\ \A i \in DOMAIN inbox : inbox[i].id <= events
        /\ \A i \in DOMAIN inbox : inbox[i].id \in Nat
        /\ events \in Nat
    <3>1. \A m \in stream : m.id \in Nat
      BY DEF TypeOK, Event
    <3>2. \A i \in DOMAIN inbox : inbox[i] \in Copy
      BY DEF TypeOK
    <3>3. \A i \in DOMAIN inbox : inbox[i].id \in Nat
      BY <3>2 DEF Copy
    <3>4. QED
      BY <3>1, <3>3 DEF Numbered, TypeOK
  <2> HIDE DEF e
  <2>4. Grows
    BY <2>1 DEF Grows
  <2>5. Accounted(r.session)'
    BY <2>1, <2>2 DEF Accounted
  <2>6. Numbered'
    BY <2>1, <2>2, <2>3 DEF Numbered
  <2>7. OneSession'
    BY <2>1, <2>2, <2>3 DEF OneSession
  <2>8. QED
    BY <2>4, <2>5, <2>6, <2>7
<1>2. CASE ~exists
  <2>1. /\ UNCHANGED <<stream, events, inbox, usage>>
        /\ unheard' = unheard \cup {r.session}
    BY <1>2 DEF Reaches, billing
  <2>2. QED
    BY <2>1 DEF Grows, Accounted, Numbered, OneSession
<1>3. QED
  BY <1>1, <1>2

\* A client that drops the first delivery it holds keeps the ids straight.
LEMMA DropDelivery ==
  ASSUME TypeOK, Numbered, OneSession, inbox # <<>>, inbox' = Tail(inbox),
         events' = events, stream' \subseteq stream
  PROVE  Numbered' /\ OneSession'
<1>1. \A i \in DOMAIN inbox' :
        i+1 \in DOMAIN inbox /\ inbox'[i] = inbox[i+1]
  BY HeadIn DEF TypeOK
<1>2. QED
  BY <1>1 DEF Numbered, OneSession

\* Every step keeps the parts of the invariant that are not about types.
LEMMA AccountStep == UsageInv /\ [Next]_vars => UsageInv'
<1> SUFFICES ASSUME UsageInv, [Next]_vars PROVE UsageInv'
  OBVIOUS
<1> USE DEF UsageInv
<1> DEFINE Rest == /\ BilledIsAccounted' /\ SentHead' /\ StoredHead'
                   /\ Numbered' /\ OneSession'
<1>0. TypeOK'
  BY TypeStep
<1> HIDE DEF Rest
<1>1. ASSUME NEW s \in Sessions, NEW n \in 0 .. MaxBytes, Refresh(s, n)
      PROVE  Rest
  <2>1. \A t \in Sessions : row'[t].billed = row[t].billed
    BY <1>1 DEF Refresh, TypeOK, Row
  <2>2. UNCHANGED <<batch, sent, stored, inbox, usage, stream, events, unheard>>
    BY <1>1 DEF Refresh, billing, broker
  <2>3. QED
    BY <2>1, <2>2 DEF Rest, BilledIsAccounted, Accounted, SentHead,
       StoredHead, Numbered, OneSession
<1>2. ASSUME NEW s \in Sessions, Terminate(s) PROVE Rest
  <2>1. \A t \in Sessions : row'[t].billed = row[t].billed
    BY <1>2 DEF Terminate, TypeOK, Row
  <2>2. UNCHANGED <<batch, sent, stored, inbox, usage, stream, events, unheard>>
    BY <1>2 DEF Terminate, billing, broker
  <2>3. QED
    BY <2>1, <2>2 DEF Rest, BilledIsAccounted, Accounted, SentHead,
       StoredHead, Numbered, OneSession
<1>3. ASSUME TickList PROVE Rest
  <2>1. ~sent'
    BY <1>3 DEF TickList, SentHead
  <2>2. UNCHANGED <<row, stored, inbox, usage, stream, events, unheard>>
    BY <1>3 DEF TickList, billing, broker
  <2>3. QED
    BY <2>1, <2>2 DEF Rest, BilledIsAccounted, Accounted, SentHead,
       StoredHead, Numbered, OneSession
<1>4. ASSUME Publish PROVE Rest
  <2>1. Head(batch) \in Listed
    BY <1>4, HeadIn DEF Publish, TypeOK
  <2>2. Grows /\ Accounted(Head(batch).session)' /\ Numbered' /\ OneSession'
    BY <1>4, <2>1, ReachesAdds DEF Publish
  <2>3. SentHead' /\ StoredHead'
    BY <1>4, <2>2 DEF Publish, SentHead, StoredHead, billing, Accounted
  <2>4. BilledIsAccounted'
    BY <1>4, <2>2, GrowsKeeps DEF Publish, BilledIsAccounted
  <2>5. QED
    BY <2>2, <2>3, <2>4 DEF Rest
<1>5. ASSUME PublishFails PROVE Rest
  <2>1. Head(batch) \in Listed
    BY <1>5, HeadIn DEF PublishFails, TypeOK
  <2>2. Grows /\ Numbered' /\ OneSession'
    <3>1. CASE Reaches(Head(batch))
      BY <1>5, <2>1, <3>1, ReachesAdds DEF PublishFails
    <3>2. CASE UNCHANGED broker
      BY <1>5, <3>2
         DEF PublishFails, broker, billing, Grows, Numbered, OneSession
    <3>3. QED
      BY <1>5, <3>1, <3>2 DEF PublishFails
  <2>3. SentHead' /\ StoredHead'
    BY <1>5 DEF PublishFails, SentHead, StoredHead, billing
  <2>4. BilledIsAccounted'
    BY <1>5, <2>2, GrowsKeeps DEF PublishFails, BilledIsAccounted
  <2>5. QED
    BY <2>2, <2>3, <2>4 DEF Rest
<1>6. ASSUME Mark PROVE Rest
  <2>1. Head(batch) \in Listed /\ Accounted(Head(batch).session)
    BY <1>6, HeadIn DEF Mark, TypeOK, SentHead
  <2>2. \A t \in Sessions :
          row'[t].billed => row[t].billed \/ t = Head(batch).session
    BY <1>6 DEF Mark, TypeOK, Row
  <2>3. UNCHANGED <<stored, inbox, usage, stream, events, unheard>> /\ ~sent'
    BY <1>6 DEF Mark, billing, broker
  <2>4. QED
    BY <2>1, <2>2, <2>3 DEF Rest, BilledIsAccounted, Accounted, SentHead,
       StoredHead, Numbered, OneSession
<1>7. ASSUME VpnCrash PROVE Rest
  <2>1. UNCHANGED <<row, stored, inbox, usage, stream, events, unheard>>
        /\ ~sent'
    BY <1>7 DEF VpnCrash, billing, broker
  <2>2. QED
    BY <2>1 DEF Rest, BilledIsAccounted, Accounted, SentHead,
       StoredHead, Numbered, OneSession
<1>8. ASSUME Start PROVE Rest
  <2>1. UNCHANGED <<row, batch, sent, stored, inbox, usage, stream, events,
                    unheard>>
    BY <1>8 DEF Start, vpn
  <2>2. QED
    BY <2>1 DEF Rest, BilledIsAccounted, Accounted, SentHead,
       StoredHead, Numbered, OneSession
<1>9. ASSUME Stop PROVE Rest
  <2>1. UNCHANGED <<row, batch, sent, usage, stream, events, unheard>>
        /\ inbox' = <<>> /\ ~stored'
    BY <1>9 DEF Stop, vpn, broker
  <2>2. DOMAIN inbox' = {}
    BY <2>1
  <2>3. QED
    BY <2>1, <2>2 DEF Rest, BilledIsAccounted, Accounted, SentHead,
       StoredHead, Numbered, OneSession
<1>10. ASSUME Deliver PROVE Rest
  <2> DEFINE e(m) == [id |-> m.id, session |-> m.session, bytes |-> m.bytes,
                      tries |-> m.tries + 1]
             c(m) == [id |-> m.id, session |-> m.session, bytes |-> m.bytes]
  <2>1. PICK m \in stream : /\ stream' = (stream \ {m}) \cup {e(m)}
                            /\ inbox' = Append(inbox, c(m))
    BY <1>10 DEF Deliver
  <2>2. /\ e(m).id = m.id /\ e(m).session = m.session
        /\ c(m).id = m.id /\ c(m).session = m.session
    OBVIOUS
  <2>3. /\ inbox \in Seq(Copy) /\ c(m) \in Copy
        /\ UNCHANGED <<row, batch, sent, stored, usage, events, unheard>>
    BY <1>10 DEF Deliver, vpn, TypeOK, Event, Copy
  <2> HIDE DEF e, c
  <2>4. /\ \A i \in DOMAIN inbox' :
             inbox'[i] = c(m) \/ (i \in DOMAIN inbox /\ inbox'[i] = inbox[i])
        /\ inbox # <<>> => inbox' # <<>> /\ Head(inbox') = Head(inbox)
    BY <2>1, <2>3
  <2>5. Grows
    BY <2>1, <2>2, <2>3 DEF Grows
  <2>6. Numbered'
    BY <2>1, <2>2, <2>3, <2>4 DEF Numbered
  <2>7. OneSession'
    BY <2>1, <2>2, <2>4 DEF OneSession
  <2>8. BilledIsAccounted'
    BY <2>3, <2>5, GrowsKeeps DEF BilledIsAccounted
  <2>9. SentHead'
    <3>1. ASSUME sent PROVE batch # <<>> /\ Accounted(Head(batch).session)'
      <4>1. Head(batch) \in Listed
        BY <3>1, HeadIn DEF SentHead, TypeOK
      <4>2. QED
        BY <3>1, <4>1, <2>5, <2>3, GrowsKeeps DEF SentHead, Listed
    <3>2. QED
      BY <3>1, <2>3 DEF SentHead
  <2>10. StoredHead'
    BY <2>3, <2>4 DEF StoredHead
  <2>11. QED
    BY <2>6, <2>7, <2>8, <2>9, <2>10 DEF Rest
<1>11. ASSUME Persist PROVE Rest
  <2>1. Head(inbox) \in Copy
    BY <1>11, HeadIn DEF Persist, TypeOK
  <2>2. /\ usage'[Head(inbox).session] # None
        /\ \A t \in Sessions : usage[t] # None => usage'[t] # None
    BY <1>11, <2>1, UsageAssumption DEF Persist, Inserted, TypeOK, Copy
  <2>3. UNCHANGED <<row, batch, sent, inbox, stream, events, unheard>>
    BY <1>11 DEF Persist, vpn, broker
  <2>4. Grows
    BY <2>2, <2>3 DEF Grows
  <2>5. BilledIsAccounted'
    BY <2>3, <2>4, GrowsKeeps DEF BilledIsAccounted
  <2>6. SentHead'
    <3>1. ASSUME sent PROVE batch # <<>> /\ Accounted(Head(batch).session)'
      <4>1. Head(batch) \in Listed
        BY <3>1, HeadIn DEF SentHead, TypeOK
      <4>2. QED
        BY <3>1, <4>1, <2>4, <2>3, GrowsKeeps DEF SentHead, Listed
    <3>2. QED
      BY <3>1, <2>3 DEF SentHead
  <2>7. StoredHead' /\ Numbered' /\ OneSession'
    BY <1>11, <2>2, <2>3 DEF Persist, StoredHead, Numbered, OneSession
  <2>8. QED
    BY <2>5, <2>6, <2>7 DEF Rest
<1>12. ASSUME PersistFails PROVE Rest
  <2>1. UNCHANGED <<row, batch, sent, stored, usage, stream, events, unheard>>
    BY <1>12 DEF PersistFails, vpn, broker
  <2>2. Numbered' /\ OneSession'
    BY <1>12, <2>1, DropDelivery DEF PersistFails
  <2>3. QED
    BY <1>12, <2>1, <2>2 DEF PersistFails, Rest, BilledIsAccounted,
       Accounted, SentHead, StoredHead
<1>13. ASSUME Ack PROVE Rest
  <2>1. /\ UNCHANGED <<row, batch, sent, usage, events, unheard>> /\ ~stored'
        /\ inbox # <<>> /\ inbox' = Tail(inbox)
        /\ usage[Head(inbox).session] # None
    BY <1>13 DEF Ack, vpn, StoredHead
  <2>2. stream' \subseteq stream
    BY <1>13 DEF Ack
  <2>3. \A m \in stream : m \notin stream' => usage[m.session] # None
    <3>1. \A m \in stream : m \notin stream' => m.id = Head(inbox).id
      BY <1>13 DEF Ack
    <3>2. 1 \in DOMAIN inbox /\ Head(inbox) = inbox[1]
      BY <2>1, HeadIn DEF TypeOK
    <3>3. QED
      BY <2>1, <3>1, <3>2 DEF OneSession
  <2>4. \A s \in Sessions : Accounted(s) => Accounted(s)'
    BY <2>1, <2>3 DEF Accounted
  <2>5. BilledIsAccounted'
    BY <2>1, <2>4 DEF BilledIsAccounted
  <2>6. SentHead'
    <3>1. ASSUME sent PROVE batch # <<>> /\ Accounted(Head(batch).session)'
      <4>1. Head(batch) \in Listed
        BY <3>1, HeadIn DEF SentHead, TypeOK
      <4>2. QED
        BY <3>1, <4>1, <2>4, <2>1 DEF SentHead, Listed
    <3>2. QED
      BY <3>1, <2>1 DEF SentHead
  <2>7. Numbered' /\ OneSession'
    BY <2>1, <2>2, DropDelivery
  <2>8. QED
    BY <2>1, <2>5, <2>6, <2>7 DEF Rest, StoredHead
<1>14. ASSUME UNCHANGED vars PROVE Rest
  BY <1>14 DEF vars, vpn, billing, broker, Rest, BilledIsAccounted,
     Accounted, SentHead, StoredHead, Numbered, OneSession
<1>15. Rest
  BY <1>1, <1>2, <1>3, <1>4, <1>5, <1>6, <1>7, <1>8, <1>9, <1>10, <1>11,
     <1>12, <1>13, <1>14 DEF Next
<1>16. QED
  BY <1>0, <1>15 DEF Rest

-----------------------------------------------------------------------------
(* The theorems.                                                           *)

\* The inductive invariant holds in every state.
LEMMA Invariant == Spec => []UsageInv
BY AccountInit, AccountStep, PTL DEF Spec

\* Every part of the state has its type, however many faults there are.
THEOREM UsageTypes == Spec => []TypeOK
<1>1. UsageInv => TypeOK
  BY DEF UsageInv
<1>2. QED
  BY <1>1, Invariant, PTL

\* Whatever fails between the publish, the mark, the insert and the
\* acknowledgement, a billed session is credited or its event is in the
\* stream, if there was a stream when its events went out.
THEOREM BilledAccounted == Spec => []BilledIsAccounted
<1>1. UsageInv => BilledIsAccounted
  BY DEF UsageInv
<1>2. QED
  BY <1>1, Invariant, PTL

\* The first usage row of a session is its last, however often an event of
\* it is published and delivered.
THEOREM CreditsFinal == Spec => CreditIsFinal
<1> DEFINE Final == \A s \in Sessions : usage[s] # None => usage'[s] = usage[s]
<1>1. ASSUME TypeOK, Next PROVE Final
  <2>1. CASE Persist
    BY <1>1, <2>1 DEF Persist, Inserted, TypeOK
  <2>2. CASE ~Persist
    <3>1. usage' = usage
      BY <1>1, <2>2 DEF Next, Refresh, Terminate, TickList, Publish,
         PublishFails, Mark, VpnCrash, Start, Stop, Deliver, PersistFails,
         Ack, vpn, billing, broker
    <3>2. QED
      BY <3>1
  <2>3. QED
    BY <2>1, <2>2
<1>2. TypeOK /\ [Next]_vars => [Final]_vars
  BY <1>1
<1> HIDE DEF Final
<1>3. Spec => [][Final]_vars
  BY <1>2, UsageTypes, PTL DEF Spec
<1>4. QED
  BY <1>3 DEF CreditIsFinal, Final
=============================================================================
