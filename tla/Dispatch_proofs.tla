-------------------------- MODULE Dispatch_proofs ---------------------------
(***************************************************************************)
(* Proofs about workloads-svc's registry of streams and its placement of   *)
(* workloads.                                                              *)
(*                                                                         *)
(* RegistryInv is the inductive invariant of the registry.  NewestStream-  *)
(* HoldsSlot is not inductive alone: that a stream that registers is newer *)
(* than all others needs the registration numbers to be at most the number *)
(* of streams registered so far.  CallInv is the one of the calls,         *)
(* PolledInv and ServedInv those of the attempts, ReportInv the one of the *)
(* handlers of reports; each rests on the ones before it.                  *)
(***************************************************************************)
EXTENDS Dispatch, FiniteSetTheorems, TLAPS

Ever == {t \in Streams : seq[t] > 0}

Newest(s) == \A t \in Streams : Owner[t] = Owner[s] => seq[t] <= seq[s]

RegistryType ==
  /\ conn \in [Streams -> {"new", "live", "dead", "gone"}]
  /\ seq \in [Streams -> Nat]
  /\ slot \in [Providers -> Streams \cup {None}]
  /\ offers \in [Streams -> SUBSET Types]

RegistryInv ==
  /\ RegistryType
  /\ \A s \in Streams : seq[s] <= Cardinality(Ever)
  /\ \A s \in Streams : conn[s] = "new" => seq[s] = 0
  /\ \A p \in Providers :
       slot[p] # None => Owner[slot[p]] = p /\ Registered(slot[p])
  /\ \A s \in Streams : Registered(s) /\ Newest(s) => slot[Owner[s]] = s

LEMMA EverFinite == IsFiniteSet(Ever) /\ Cardinality(Ever) \in Nat
<1>1. Ever \subseteq Streams
  BY DEF Ever
<1>. QED  BY <1>1, DispatchAssumption, FS_Subset, FS_CardinalityType

LEMMA RegistryInit == Init => RegistryInv
<1> SUFFICES ASSUME Init PROVE RegistryInv
  OBVIOUS
<1> USE DispatchAssumption
<1>1. RegistryType
  BY DEF Init, RegistryType
<1>2. \A s \in Streams : seq[s] <= Cardinality(Ever)
  BY EverFinite DEF Init
<1>. QED  BY <1>1, <1>2 DEF Init, RegistryInv, Registered

\* A stream that registers gets a number above all others, and the number of
\* streams ever registered grows by one.
LEMMA RegisterNumbers ==
  ASSUME RegistryInv, NEW s \in Streams, Register(s)
  PROVE  /\ seq' = [seq EXCEPT ![s] = Cardinality(Ever) + 1]
         /\ Cardinality(Ever') = Cardinality(Ever) + 1
         /\ \A t \in Streams : seq[t] < seq'[s]
<1>1. seq' = [seq EXCEPT ![s] = Cardinality(Ever) + 1]
  BY DEF Register, Ever
<1>2. seq \in [Streams -> Nat] /\ s \notin Ever
  BY DEF RegistryInv, RegistryType, Register, Ever
<1>3. Ever' = Ever \cup {s}
  BY <1>1, <1>2, EverFinite DEF Ever
<1>4. Cardinality(Ever') = Cardinality(Ever) + 1
  BY <1>2, <1>3, EverFinite, FS_AddElement
<1>5. \A t \in Streams : seq[t] < seq'[s]
  BY <1>1, <1>2, EverFinite DEF RegistryInv
<1>. QED  BY <1>1, <1>4, <1>5

LEMMA RegisterKeepsInv ==
  ASSUME RegistryInv, NEW s \in Streams, Register(s)
  PROVE  RegistryInv'
<1> USE DispatchAssumption
<1>1. /\ seq' = [seq EXCEPT ![s] = Cardinality(Ever) + 1]
      /\ Cardinality(Ever') = Cardinality(Ever) + 1
      /\ \A t \in Streams : seq[t] < seq'[s]
  BY RegisterNumbers
<1>2. /\ conn[s] = "new"
      /\ conn' = [conn EXCEPT ![s] = "live"]
      /\ slot' = [slot EXCEPT ![Owner[s]] = s]
      /\ offers' = [offers EXCEPT ![s] = Merged(s)]
  BY DEF Register
<1>3. RegistryType'
  <2>1. Merged(s) \subseteq Types
    BY DEF Merged, RegistryInv, RegistryType
  <2>2. Owner[s] \in Providers
    OBVIOUS
  <2>. QED  BY <1>1, <1>2, <2>1, <2>2, EverFinite DEF RegistryInv, RegistryType
<1>4. \A t \in Streams : seq'[t] <= Cardinality(Ever')
  BY <1>1, EverFinite DEF RegistryInv, RegistryType
<1>5. \A t \in Streams : conn'[t] = "new" => seq'[t] = 0
  BY <1>1, <1>2 DEF RegistryInv, RegistryType
<1>6. \A p \in Providers :
        slot'[p] # None => Owner[slot'[p]] = p /\ conn'[slot'[p]] \in {"live", "dead"}
  <2> SUFFICES ASSUME NEW p \in Providers, slot'[p] # None
               PROVE  Owner[slot'[p]] = p /\ conn'[slot'[p]] \in {"live", "dead"}
    OBVIOUS
  <2>1. CASE p = Owner[s]
    BY <1>2, <2>1 DEF RegistryInv, RegistryType
  <2>2. CASE p # Owner[s]
    <3>1. slot'[p] = slot[p] /\ slot[p] \in Streams
      BY <1>2, <2>2 DEF RegistryInv, RegistryType
    <3>2. Owner[slot[p]] = p /\ conn[slot[p]] \in {"live", "dead"}
      BY <3>1 DEF RegistryInv, Registered
    <3>. QED  BY <1>2, <3>1, <3>2 DEF RegistryInv, RegistryType
  <2>. QED  BY <2>1, <2>2
<1>7. \A t \in Streams : Registered(t)' /\ Newest(t)' => slot'[Owner[t]] = t
  <2> SUFFICES ASSUME NEW t \in Streams, Registered(t)', Newest(t)', t # s
               PROVE  slot'[Owner[t]] = t
    BY <1>2 DEF RegistryInv, RegistryType
  <2>1. seq'[t] = seq[t] /\ seq[t] < seq'[s]
    BY <1>1 DEF RegistryInv, RegistryType
  <2>2. Owner[t] # Owner[s]
    BY <2>1, <1>3 DEF Newest, RegistryInv, RegistryType
  <2>3. Registered(t) /\ Newest(t)
    BY <1>1, <1>2, <2>2 DEF Registered, Newest, RegistryInv, RegistryType
  <2>. QED  BY <1>2, <2>2, <2>3 DEF RegistryInv, RegistryType
<1>. QED  BY <1>3, <1>4, <1>5, <1>6, <1>7 DEF RegistryInv, Registered

LEMMA BreakKeepsInv ==
  ASSUME RegistryInv, NEW s \in Streams, Break(s)
  PROVE  RegistryInv'
<1>1. /\ conn[s] = "live" /\ conn' = [conn EXCEPT ![s] = "dead"]
      /\ UNCHANGED <<seq, slot, offers>>
  BY DEF Break
<1>2. Cardinality(Ever') = Cardinality(Ever)
  BY <1>1 DEF Ever
<1>3. \A t \in Streams : Newest(t)' <=> Newest(t)
  BY <1>1 DEF Newest
<1>4. \A t \in Streams : Registered(t)' <=> Registered(t)
  BY <1>1 DEF Registered, RegistryInv, RegistryType
<1>. QED  BY <1>1, <1>2, <1>3, <1>4 DEF RegistryInv, RegistryType

LEMMA CloseKeepsInv ==
  ASSUME RegistryInv, NEW s \in Streams, Close(s)
  PROVE  RegistryInv'
<1> USE DispatchAssumption
<1>1. /\ conn[s] \in {"live", "dead"} /\ conn' = [conn EXCEPT ![s] = "gone"]
      /\ slot' = Vacated(s)
      /\ UNCHANGED <<seq, offers>>
  BY DEF Close
<1>2. Cardinality(Ever') = Cardinality(Ever)
  BY <1>1 DEF Ever
<1>3. \A t \in Streams : Newest(t)' <=> Newest(t)
  BY <1>1 DEF Newest
<1>4. \A t \in Streams : Registered(t)' <=> Registered(t) /\ t # s
  BY <1>1 DEF Registered, RegistryInv, RegistryType
<1>5. \A p \in Providers : slot'[p] = IF slot[p] = s THEN None ELSE slot[p]
  BY <1>1 DEF Vacated, RegistryInv, RegistryType
<1>6. slot' \in [Providers -> Streams \cup {None}]
  BY <1>1 DEF Vacated, RegistryInv, RegistryType
<1>. QED  BY <1>1, <1>2, <1>3, <1>4, <1>5, <1>6 DEF RegistryInv, RegistryType

\* The other actions leave the registry alone.
LEMMA StepRegistry ==
  ASSUME [Next]_vars
  PROVE  \/ \E s \in Streams : Register(s) \/ Break(s) \/ Close(s)
         \/ UNCHANGED registry
<1> USE DEF registry
<1>1. ASSUME NEW s \in Streams, HandleUpdate(s) \/ AbandonUpdate(s)
      PROVE  UNCHANGED registry
  BY <1>1 DEF HandleUpdate, AbandonUpdate
<1>2. ASSUME NEW w \in Workloads, Submit(w) \/ Cancel(w)
      PROVE  UNCHANGED registry
  BY <1>2 DEF Submit, Cancel
<1>3. ASSUME NEW w \in Workloads, Calls(w) PROVE UNCHANGED registry
  BY <1>3 DEF Calls, Pick, TakeCandidate, SendOk, SendFails, MarkDispatched,
              NoneLeft
<1>4. ASSUME NEW w \in Workloads, HandlePosts(w) PROVE UNCHANGED registry
  BY <1>4 DEF HandlePosts, HandlePostAttempt, HandlePost
<1>5. ASSUME NEW w \in Workloads, NEW p \in Providers, Poll(w, p)
      PROVE  UNCHANGED registry
  BY <1>5 DEF Poll
<1>6. ASSUME NEW j \in Jobs, NEW status \in Status,
             (\E s \in Streams : StreamReport(j, s, status)) \/ PostReport(j, status)
      PROVE  UNCHANGED registry
  BY <1>6 DEF StreamReport, PostReport
<1>7. ASSUME NEW p \in Providers, DaemonRestart(p) PROVE UNCHANGED registry
  BY <1>7 DEF DaemonRestart
<1>8. ASSUME NEW m \in posts, DropPost(m) PROVE UNCHANGED registry
  BY <1>8 DEF DropPost
<1>9. CASE UNCHANGED vars
  BY <1>9 DEF vars
<1>. QED
  BY <1>1, <1>2, <1>3, <1>4, <1>5, <1>6, <1>7, <1>8, <1>9 DEF Next

LEMMA RegistryStep == RegistryInv /\ [Next]_vars => RegistryInv'
<1> SUFFICES ASSUME RegistryInv, [Next]_vars PROVE RegistryInv'
  OBVIOUS
<1>1. CASE UNCHANGED registry
  BY <1>1 DEF registry, RegistryInv, RegistryType, Ever, Newest, Registered
<1>. QED
  BY <1>1, StepRegistry, RegisterKeepsInv, BreakKeepsInv, CloseKeepsInv

THEOREM RegistryInvariant == Spec => []RegistryInv
BY RegistryInit, RegistryStep, PTL DEF Spec

\* The stream a provider opened last holds the provider's slot until its own
\* handler ends, and a slot never names a stream whose handler has ended.
THEOREM NewestHolds == Spec => []NewestStreamHoldsSlot
<1>1. RegistryInv => NewestStreamHoldsSlot
  <2> SUFFICES ASSUME RegistryInv, NEW s \in Streams
               PROVE  /\ Registered(s) /\ Newest(s) => slot[Owner[s]] = s
                      /\ slot[Owner[s]] = s => Registered(s)
    BY DEF NewestStreamHoldsSlot, Newest
  <2>1. Owner[s] \in Providers /\ s # None
    BY DispatchAssumption
  <2>. QED  BY <2>1 DEF RegistryInv
<1>. QED  BY <1>1, RegistryInvariant, PTL

\* Replacing a connection only ever adds to the types its provider offers.
THEOREM OffersRatchetUp == Spec => CapabilitiesRatchetUp
<1> DEFINE Grows == \A p \in Providers :
                      slot[p] # None /\ slot'[p] # None
                        => offers[slot[p]] \subseteq offers'[slot'[p]]
<1>1. RegistryInv /\ [Next]_vars => [Grows]_vars
  <2> SUFFICES ASSUME RegistryInv, [Next]_vars, NEW p \in Providers,
                      slot[p] # None, slot'[p] # None
               PROVE  offers[slot[p]] \subseteq offers'[slot'[p]]
    OBVIOUS
  <2>1. ASSUME NEW s \in Streams, Register(s)
        PROVE  offers[slot[p]] \subseteq offers'[slot'[p]]
    <3>1. /\ offers' = [offers EXCEPT ![s] = Merged(s)]
          /\ slot' = [slot EXCEPT ![Owner[s]] = s]
          /\ conn[s] = "new"
      BY <2>1 DEF Register
    <3>2. slot[p] \in Streams /\ slot[p] # s
      BY <3>1 DEF RegistryInv, RegistryType, Registered
    <3>3. CASE p = Owner[s]
      BY <3>1, <3>2, <3>3 DEF Merged, RegistryInv, RegistryType
    <3>4. CASE p # Owner[s]
      BY <3>1, <3>2, <3>4 DEF RegistryInv, RegistryType
    <3>. QED  BY <3>3, <3>4
  <2>2. ASSUME NEW s \in Streams, Break(s) \/ Close(s)
        PROVE  slot'[p] = slot[p] /\ offers' = offers
    BY <2>2 DEF Break, Close, Vacated, RegistryInv, RegistryType
  <2>3. CASE UNCHANGED registry
    BY <2>3 DEF registry
  <2>. QED  BY <2>1, <2>2, <2>3, StepRegistry
<1>. QED  BY <1>1, RegistryInvariant, PTL DEF Spec, CapabilitiesRatchetUp

-----------------------------------------------------------------------------
(***************************************************************************)
(* Proofs about the SubmitWorkload calls of workloads-svc: that one        *)
(* submission goes down one stream, and that only providers that offered   *)
(* to are asked.                                                           *)
(*                                                                         *)
(* CallInv carries the argument along the way an attempt takes: a provider *)
(* that offers a type gets on a call's candidate list, from there it is    *)
(* asked, its attempt is polled, and the poll's run posts about it.        *)
(***************************************************************************)

\* p said on one of its streams that it takes workloads like w.
Offered(w, p) ==
  \E s \in Streams : Owner[s] = p /\ seq[s] > 0 /\ TypeOf[w] \in Advertises[s]

Call == [pc : {"none", "pick", "next", "send", "sent", "done"},
         todo : SUBSET Providers,
         at : Providers \cup {None},
         via : Streams \cup {None},
         placed : Providers \cup {None}]

CallType ==
  /\ assign \in [Workloads -> Call]
  /\ attempt \in [Attempts -> Status \cup {None}]
  /\ job \in [Jobs -> JobState]
  /\ posts \subseteq Report

\* What a snapshot offers, some stream of its provider advertised.
SnapshotInv ==
  /\ \A s \in Streams : conn[s] # "new" => seq[s] > 0
  /\ \A s \in Streams : \A type \in offers[s] :
       \E t \in Streams : /\ Owner[t] = Owner[s] /\ seq[t] > 0
                          /\ type \in Advertises[t]

SentInv ==
  /\ \A m \in sent : m.w \in Workloads /\ assign[m.w].pc \in {"sent", "done"}
  /\ SentAtMostOnce

AskedInv ==
  /\ \A w \in Workloads : \A p \in assign[w].todo : Offered(w, p)
  /\ \A w \in Workloads :
       assign[w].pc \in {"send", "sent"}
         => assign[w].at \in Providers /\ Offered(w, assign[w].at)
  /\ \A w \in Workloads, p \in Providers :
       attempt[<<w, p>>] # None => Offered(w, p)
  /\ \A w \in Workloads, p \in Providers :
       job[<<w, p, "poll">>] # "none" => Offered(w, p)
  /\ \A m \in posts : Offered(m.w, m.p)

CallInv == CallType /\ SnapshotInv /\ SentInv /\ AskedInv

LEMMA CallInit == Init => CallInv
<1> SUFFICES ASSUME Init PROVE CallInv
  OBVIOUS
<1> USE DispatchAssumption DEF Init
<1>1. CallType
  BY DEF CallType, Call, NoCall, JobState, Jobs
<1>2. SnapshotInv
  BY DEF SnapshotInv
<1>3. SentInv
  BY DEF SentInv, SentAtMostOnce
<1>4. AskedInv
  BY DEF AskedInv, NoCall, Jobs, Paths, Attempts
<1>. QED  BY <1>1, <1>2, <1>3, <1>4 DEF CallInv

-----------------------------------------------------------------------------
(* The registry only ever adds to what was offered.                        *)

LEMMA RegistryCalls ==
  ASSUME RegistryInv, SnapshotInv,
         (\E s \in Streams : Register(s) \/ Break(s) \/ Close(s)) \/ UNCHANGED registry
  PROVE  /\ SnapshotInv'
         /\ \A w, p : Offered(w, p) => Offered(w, p)'
<1> USE DispatchAssumption
<1>1. CASE UNCHANGED registry
  BY <1>1 DEF registry, SnapshotInv, Offered
<1>2. ASSUME NEW s \in Streams, Break(s) \/ Close(s)
      PROVE  SnapshotInv' /\ \A w, p : Offered(w, p) => Offered(w, p)'
  <2>1. /\ conn[s] # "new" /\ UNCHANGED <<seq, offers>>
        /\ \A t \in Streams : conn'[t] # "new" => conn[t] # "new"
    BY <1>2 DEF Break, Close, RegistryInv, RegistryType
  <2>. QED  BY <2>1 DEF SnapshotInv, Offered
<1>3. ASSUME NEW s \in Streams, Register(s)
      PROVE  SnapshotInv' /\ \A w, p : Offered(w, p) => Offered(w, p)'
  <2>1. /\ conn[s] = "new" /\ seq[s] = 0
        /\ conn' = [conn EXCEPT ![s] = "live"]
        /\ offers' = [offers EXCEPT ![s] = Merged(s)]
    BY <1>3 DEF Register, RegistryInv
  <2>2. seq'[s] > 0 /\ \A t \in Streams : t # s => seq'[t] = seq[t]
    BY <1>3, RegisterNumbers, EverFinite DEF RegistryInv, RegistryType
  <2>3. \A t \in Streams : seq[t] > 0 => seq'[t] > 0
    BY <2>1, <2>2
  <2>4. \A t \in Streams : conn'[t] # "new" => seq'[t] > 0
    BY <2>1, <2>2 DEF SnapshotInv, RegistryInv, RegistryType
  <2>5. ASSUME NEW u \in Streams, NEW type \in offers'[u]
        PROVE  \E t \in Streams : /\ Owner[t] = Owner[u] /\ seq'[t] > 0
                                  /\ type \in Advertises[t]
    <3>1. CASE u # s \/ type \notin Advertises[s]
      <4>1. PICK v \in Streams : Owner[v] = Owner[u] /\ type \in offers[v]
        BY <2>1, <3>1 DEF Merged, RegistryInv, RegistryType
      <4>. QED  BY <2>3, <4>1 DEF SnapshotInv
    <3>2. CASE u = s /\ type \in Advertises[s]
      BY <2>2, <3>2
    <3>. QED  BY <3>1, <3>2
  <2>. QED  BY <2>3, <2>4, <2>5 DEF SnapshotInv, Offered
<1>. QED  BY <1>1, <1>2, <1>3

-----------------------------------------------------------------------------
(* The steps of a call.                                                    *)

LEMMA SubmitKeepsInv ==
  ASSUME CallInv, NEW w \in Workloads, Submit(w)
  PROVE  CallType' /\ SentInv' /\ AskedInv'
<1> USE DEF CallInv, registry, reports
<1>1. /\ assign[w].pc = "none" /\ assign' = [assign EXCEPT ![w].pc = "pick"]
      /\ UNCHANGED <<registry, attempt, posts, job, sent>>
  BY DEF Submit
<1>2. CallType'
  BY <1>1 DEF CallType, Call
<1>3. SentInv'
  BY <1>1 DEF SentInv, SentAtMostOnce, CallType, Call
<1>4. AskedInv'
  BY <1>1 DEF AskedInv, CallType, Call, Offered
<1>. QED  BY <1>2, <1>3, <1>4

\* A call that is answered keeps nothing to ask.
LEMMA AnswerKeepsInv ==
  ASSUME CallInv, NEW w \in Workloads, NEW status, NEW p \in Providers \cup {None},
         Answer(w, status, p), UNCHANGED <<registry, attempt, reports, job, sent>>
  PROVE  CallType' /\ SentInv' /\ AskedInv'
<1> USE DEF CallInv, registry, reports
<1> DEFINE answered == [NoCall EXCEPT !.pc = "done", !.placed = p]
<1>1. /\ assign' = [assign EXCEPT ![w] = answered]
      /\ UNCHANGED <<registry, attempt, posts, job, sent>>
  BY DEF Answer
<1>2. answered \in Call /\ answered.pc = "done" /\ answered.todo = {}
  BY DEF NoCall, Call
<1> HIDE DEF answered
<1>3. CallType'
  BY <1>1, <1>2 DEF CallType
<1>4. SentInv'
  BY <1>1, <1>2 DEF SentInv, SentAtMostOnce, CallType
<1>5. AskedInv'
  BY <1>1, <1>2 DEF AskedInv, CallType, Offered
<1>. QED  BY <1>3, <1>4, <1>5

LEMMA PickKeepsInv ==
  ASSUME RegistryInv, CallInv, NEW w \in Workloads, Pick(w)
  PROVE  CallType' /\ SentInv' /\ AskedInv'
<1> USE DEF CallInv, registry, reports
<1>1. assign[w].pc = "pick" /\ UNCHANGED <<registry, attempt, reports, job, sent>>
  BY DEF Pick
<1>2. PICK C \in SUBSET Eligible(w) :
        IF C = {} THEN Answer(w, "rejected", None)
        ELSE assign' = [assign EXCEPT ![w].pc = "next", ![w].todo = C]
  BY DEF Pick
<1>3. CASE C = {}
  BY <1>1, <1>2, <1>3, AnswerKeepsInv
<1>4. CASE C # {}
  <2>1. assign' = [assign EXCEPT ![w].pc = "next", ![w].todo = C]
    BY <1>2, <1>4
  <2>2. C \subseteq Providers
    BY DEF Eligible
  <2>3. \A p \in C : Offered(w, p)
    <3> SUFFICES ASSUME NEW p \in C PROVE Offered(w, p)
      OBVIOUS
    <3>1. /\ p \in Providers /\ slot[p] \in Streams /\ Owner[slot[p]] = p
          /\ TypeOf[w] \in offers[slot[p]]
      BY DEF Eligible, RegistryInv, RegistryType
    <3>. QED  BY <3>1 DEF SnapshotInv, Offered
  <2>4. CallType'
    <3> DEFINE picked == [assign[w] EXCEPT !.pc = "next", !.todo = C]
    <3>1. assign' = [assign EXCEPT ![w] = picked]
      BY <2>1
    <3>2. picked \in Call
      BY <2>2 DEF CallType, Call
    <3>. QED  BY <1>1, <3>1, <3>2 DEF CallType
  <2>5. SentInv'
    BY <1>1, <2>1 DEF SentInv, SentAtMostOnce, CallType, Call
  <2>6. AskedInv'
    BY <1>1, <2>1, <2>3 DEF AskedInv, CallType, Call, Offered
  <2>. QED  BY <2>4, <2>5, <2>6
<1>. QED  BY <1>3, <1>4

LEMMA TakeCandidateKeepsInv ==
  ASSUME RegistryInv, CallInv, NEW w \in Workloads, NEW p \in Providers,
         TakeCandidate(w, p)
  PROVE  CallType' /\ SentInv' /\ AskedInv'
<1> USE DEF CallInv, registry, reports
<1>1. /\ assign[w].pc = "next" /\ p \in assign[w].todo
      /\ UNCHANGED <<registry, posts, job, sent>>
  BY DEF TakeCandidate
<1>2. Offered(w, p)
  BY <1>1 DEF AskedInv
<1>3. CASE slot[p] = None
  <2>1. assign' = [assign EXCEPT ![w].todo = @ \ {p}] /\ UNCHANGED attempt
    BY <1>3 DEF TakeCandidate, Skipped
  <2>2. CallType'
    BY <1>1, <2>1 DEF CallType, Call
  <2>3. SentInv'
    BY <1>1, <2>1 DEF SentInv, SentAtMostOnce, CallType, Call
  <2>4. AskedInv'
    BY <1>1, <2>1 DEF AskedInv, CallType, Call, Offered
  <2>. QED  BY <2>2, <2>3, <2>4
<1>4. CASE slot[p] # None
  <2>1. /\ assign' = [assign EXCEPT ![w].pc = "send", ![w].at = p,
                                    ![w].via = slot[p], ![w].todo = @ \ {p}]
        /\ attempt' = [attempt EXCEPT ![<<w, p>>] = "dispatched"]
    BY <1>4 DEF TakeCandidate
  <2>2. slot[p] \in Streams
    BY <1>4 DEF RegistryInv, RegistryType
  <2>3. CallType'
    BY <1>1, <2>1, <2>2 DEF CallType, Call, Status
  <2>4. SentInv'
    BY <1>1, <2>1 DEF SentInv, SentAtMostOnce, CallType, Call
  <2>5. AskedInv'
    BY <1>1, <1>2, <2>1 DEF AskedInv, CallType, Call, Offered, Attempts
  <2>. QED  BY <2>3, <2>4, <2>5
<1>. QED  BY <1>3, <1>4

LEMMA SendOkKeepsInv ==
  ASSUME CallInv, NEW w \in Workloads, SendOk(w)
  PROVE  CallType' /\ SentInv' /\ AskedInv'
<1> USE DEF CallInv, registry, reports
<1>1. /\ assign[w].pc = "send" /\ assign' = [assign EXCEPT ![w].pc = "sent"]
      /\ sent' = sent \cup {[w |-> w, p |-> assign[w].at]}
      /\ UNCHANGED <<registry, attempt, posts>>
  BY DEF SendOk, AfterSend
<1>2. /\ job' \in [Jobs -> JobState]
      /\ \A v \in Workloads, q \in Providers :
           job'[<<v, q, "poll">>] = job[<<v, q, "poll">>]
  BY DEF SendOk, CallType, Jobs, Paths, JobState
<1>3. CallType'
  BY <1>1, <1>2 DEF CallType, Call
<1>4. SentInv'
  <2>1. \A m \in sent : m.w # w
    BY <1>1 DEF SentInv
  <2>. QED  BY <1>1, <2>1 DEF SentInv, SentAtMostOnce, CallType, Call
<1>5. AskedInv'
  BY <1>1, <1>2 DEF AskedInv, CallType, Call, Offered
<1>. QED  BY <1>3, <1>4, <1>5

LEMMA SendFailsKeepsInv ==
  ASSUME CallInv, NEW w \in Workloads, SendFails(w)
  PROVE  CallType' /\ SentInv' /\ AskedInv'
<1> USE DEF CallInv, registry, reports
<1>1. /\ assign[w].pc = "send" /\ assign' = [assign EXCEPT ![w].pc = "next"]
      /\ attempt' = [attempt EXCEPT ![<<w, assign[w].at>>] = "rejected"]
      /\ UNCHANGED <<registry, posts, job, sent>>
  BY DEF SendFails
<1>2. assign[w].at \in Providers /\ Offered(w, assign[w].at)
  BY <1>1 DEF AskedInv
<1>3. CallType'
  BY <1>1 DEF CallType, Call, Status, Terminals
<1>4. SentInv'
  BY <1>1 DEF SentInv, SentAtMostOnce, CallType, Call
<1>5. AskedInv'
  BY <1>1, <1>2 DEF AskedInv, CallType, Call, Offered, Attempts
<1>. QED  BY <1>3, <1>4, <1>5

LEMMA CallsKeepInv ==
  ASSUME RegistryInv, CallInv, NEW w \in Workloads, Calls(w)
  PROVE  CallType' /\ SentInv' /\ AskedInv'
<1>1. ASSUME MarkDispatched(w) PROVE CallType' /\ SentInv' /\ AskedInv'
  <2>1. assign[w].at \in Providers
    BY <1>1 DEF MarkDispatched, CallInv, AskedInv
  <2>. QED  BY <1>1, <2>1, AnswerKeepsInv DEF MarkDispatched
<1>2. ASSUME NoneLeft(w) PROVE CallType' /\ SentInv' /\ AskedInv'
  BY <1>2, AnswerKeepsInv DEF NoneLeft
<1>. QED
  BY <1>1, <1>2, PickKeepsInv, TakeCandidateKeepsInv, SendOkKeepsInv,
     SendFailsKeepsInv DEF Calls

-----------------------------------------------------------------------------
(* The daemons and the handlers of their reports.                          *)

LEMMA NextReportsType ==
  ASSUME DispatchAssumption, NEW j \in Jobs
  PROVE  /\ NextReports(j) \subseteq Status
         /\ \A status \in NextReports(j) : After(job[j], status) \in JobState
BY DEF DispatchAssumption, NextReports, After, JobState, Status, Terminals

LEMMA JobsKeepInv ==
  ASSUME CallInv, NEW j \in Jobs, NEW status \in Status,
         (\E s \in Streams : StreamReport(j, s, status)) \/ PostReport(j, status)
  PROVE  CallType' /\ SentInv' /\ AskedInv'
<1> USE DEF CallInv, registry, reports
<1>1. /\ status \in NextReports(j)
      /\ job' = [job EXCEPT ![j] = After(@, status)]
      /\ UNCHANGED <<registry, attempt, assign, sent>>
  BY DEF StreamReport, PostReport
<1>2. After(job[j], status) \in JobState
  BY <1>1, NextReportsType, DispatchAssumption
<1>3. job[j] # "none"
  BY <1>1 DEF NextReports
<1>4. posts' = posts \/ (j[3] = "poll" /\ posts' = posts \cup
        {[w |-> j[1], p |-> j[2], status |-> status, pc |-> "attempt"]})
  BY DEF StreamReport, PostReport
<1>5. /\ j[1] \in Workloads /\ j[2] \in Providers
      /\ j[3] = "poll" => Offered(j[1], j[2])
  BY <1>3 DEF AskedInv, Jobs
<1>6. CallType'
  BY <1>1, <1>2, <1>4, <1>5 DEF CallType, Report
<1>7. SentInv'
  BY <1>1 DEF SentInv, SentAtMostOnce
<1>8. AskedInv'
  <2>1. \A v \in Workloads, q \in Providers :
          job'[<<v, q, "poll">>] # "none" => job[<<v, q, "poll">>] # "none"
    BY <1>1, <1>3 DEF CallType, Jobs, Paths
  <2>2. \A m \in posts' : Offered(m.w, m.p)
    BY <1>4, <1>5 DEF AskedInv
  <2>. QED  BY <1>1, <2>1, <2>2 DEF AskedInv, Offered
<1>. QED  BY <1>6, <1>7, <1>8

LEMMA PollKeepsInv ==
  ASSUME CallInv, NEW w \in Workloads, NEW p \in Providers, Poll(w, p)
  PROVE  CallType' /\ SentInv' /\ AskedInv'
<1> USE DEF CallInv, registry, reports
<1>1. /\ attempt[<<w, p>>] = "dispatched"
      /\ job' = [job EXCEPT ![<<w, p, "poll">>] = "held"]
      /\ UNCHANGED <<registry, attempt, assign, posts, sent>>
  BY DEF Poll
<1>2. Offered(w, p)
  BY <1>1, DispatchAssumption DEF AskedInv, DispatchAssumption, Status
<1>3. CallType'
  BY <1>1 DEF CallType, JobState
<1>4. SentInv'
  BY <1>1 DEF SentInv, SentAtMostOnce
<1>5. AskedInv'
  BY <1>1, <1>2 DEF AskedInv, Offered, CallType, Jobs, Paths
<1>. QED  BY <1>3, <1>4, <1>5

LEMMA RestartKeepsInv ==
  ASSUME CallInv, NEW p \in Providers, DaemonRestart(p)
  PROVE  CallType' /\ SentInv' /\ AskedInv'
<1> USE DEF CallInv, registry, reports
<1>1. /\ posts' \subseteq posts
      /\ UNCHANGED <<registry, attempt, assign, sent>>
  BY DEF DaemonRestart
<1>2. /\ job' \in [Jobs -> JobState]
      /\ \A v \in Workloads, q \in Providers :
           job'[<<v, q, "poll">>] # "none" => job[<<v, q, "poll">>] # "none"
  BY DEF DaemonRestart, CallType, JobState, Jobs, Paths
<1>3. CallType'
  BY <1>1, <1>2 DEF CallType
<1>4. SentInv'
  BY <1>1 DEF SentInv, SentAtMostOnce
<1>5. AskedInv'
  BY <1>1, <1>2 DEF AskedInv, Offered
<1>. QED  BY <1>3, <1>4, <1>5

LEMMA PostsKeepInv ==
  ASSUME CallInv, NEW m \in posts, HandlePostAttempt(m) \/ HandlePost(m) \/ DropPost(m)
  PROVE  CallType' /\ SentInv' /\ AskedInv'
<1> USE DEF CallInv, registry, reports
<1>1. m \in Report /\ Offered(m.w, m.p)
  BY DEF CallType, AskedInv
<1>2. UNCHANGED <<registry, assign, job, sent>>
  BY DEF HandlePostAttempt, HandlePost, DropPost
<1>3. \A n \in posts' :
        n \in posts \/ \E pc \in {"status", "result", "forward"} :
                         n = [m EXCEPT !.pc = pc]
  BY DEF HandlePostAttempt, HandlePost, DropPost, PostStep, StepOf, AfterStatus
<1>4. posts' \subseteq Report /\ \A n \in posts' : Offered(n.w, n.p)
  BY <1>1, <1>3 DEF CallType, AskedInv, Report
<1>5. attempt' = attempt \/ attempt' = [attempt EXCEPT ![<<m.w, m.p>>] = m.status]
  BY DEF HandlePostAttempt, HandlePost, DropPost, PostedAttempt
<1>6. /\ attempt' \in [Attempts -> Status \cup {None}]
      /\ \A w \in Workloads, p \in Providers :
           attempt'[<<w, p>>] # None => Offered(w, p)
  BY <1>1, <1>5 DEF CallType, AskedInv, Report, Attempts
<1>7. CallType'
  BY <1>2, <1>4, <1>6 DEF CallType
<1>8. SentInv'
  BY <1>2 DEF SentInv, SentAtMostOnce
<1>9. AskedInv'
  BY <1>2, <1>4, <1>6 DEF AskedInv, Offered
<1>. QED  BY <1>7, <1>8, <1>9

\* What leaves calls, attempts, jobs and posts alone only has to keep offers.
LEMMA OthersKeepInv ==
  ASSUME CallInv, \A w, p : Offered(w, p) => Offered(w, p)',
         UNCHANGED <<attempt, assign, posts, job, sent>>
  PROVE  CallType' /\ SentInv' /\ AskedInv'
<1>1. CallType' /\ SentInv'
  BY DEF CallInv, CallType, SentInv, SentAtMostOnce
<1>2. AskedInv'
  BY DEF CallInv, AskedInv
<1>. QED  BY <1>1, <1>2

LEMMA CallStep ==
  ASSUME RegistryInv, CallInv, [Next]_vars
  PROVE  CallInv'
<1>1. SnapshotInv' /\ \A w, p : Offered(w, p) => Offered(w, p)'
  BY StepRegistry, RegistryCalls DEF CallInv
<1>2. CallType' /\ SentInv' /\ AskedInv'
  <2>1. ASSUME NEW s \in Streams,
               \/ Register(s) \/ Break(s) \/ Close(s)
               \/ HandleUpdate(s) \/ AbandonUpdate(s)
        PROVE  CallType' /\ SentInv' /\ AskedInv'
    <3>1. UNCHANGED <<attempt, assign, posts, job, sent>>
      BY <2>1 DEF Register, Break, Close, HandleUpdate, AbandonUpdate, reports
    <3>. QED  BY <1>1, <3>1, OthersKeepInv
  <2>2. ASSUME NEW w \in Workloads, Cancel(w)
        PROVE  CallType' /\ SentInv' /\ AskedInv'
    <3>1. UNCHANGED <<attempt, assign, posts, job, sent>>
      BY <2>2 DEF Cancel, reports
    <3>. QED  BY <1>1, <3>1, OthersKeepInv
  <2>3. ASSUME NEW w \in Workloads, HandlePosts(w)
        PROVE  CallType' /\ SentInv' /\ AskedInv'
    BY <2>3, PostsKeepInv DEF HandlePosts
  <2>4. CASE UNCHANGED vars
    BY <1>1, <2>4, OthersKeepInv DEF vars
  <2>. QED
    BY <2>1, <2>2, <2>3, <2>4, SubmitKeepsInv, CallsKeepInv, JobsKeepInv,
       PollKeepsInv, RestartKeepsInv, PostsKeepInv DEF Next
<1>. QED  BY <1>1, <1>2 DEF CallInv

THEOREM CallInvariant == Spec => []CallInv
<1>1. RegistryInv /\ CallInv /\ [Next]_vars => CallInv'
  BY CallStep
<1>. QED  BY <1>1, CallInit, RegistryInvariant, PTL DEF Spec

\* One submission goes down one stream, with any number of candidates, streams
\* that come and go and Sends that fail.
THEOREM OneSend == Spec => []SentAtMostOnce
<1>1. CallInv => SentAtMostOnce
  BY DEF CallInv, SentInv
<1>. QED  BY <1>1, CallInvariant, PTL

\* A provider is asked to run a workload only when one of its streams said
\* that it takes such workloads.
THEOREM OnlyOfferedAsked == Spec => []OnlyCapableAreAsked
<1>1. CallInv => OnlyCapableAreAsked
  BY DEF CallInv, AskedInv, Offered, OnlyCapableAreAsked
<1>. QED  BY <1>1, CallInvariant, PTL

-----------------------------------------------------------------------------
(* What is sent can be polled.                                             *)

\* The attempt of w at p is on the poll list, or a post took it off.
Pollable(w, p) == attempt[<<w, p>>] = "dispatched" \/ <<w, p>> \in drained

PolledInv ==
  /\ \A w \in Workloads : assign[w].pc = "send" => Pollable(w, assign[w].at)
  /\ \A m \in sent : m.p \in Providers /\ Pollable(m.w, m.p)

LEMMA PolledCalls ==
  ASSUME RegistryInv, CallInv, PolledInv, NEW w \in Workloads, Calls(w)
  PROVE  PolledInv'
<1> USE DEF CallInv, reports
<1>1. UNCHANGED drained /\ assign \in [Workloads -> Call]
  BY DEF Calls, Pick, TakeCandidate, SendOk, SendFails, MarkDispatched, NoneLeft,
         CallType
<1>2. CASE Pick(w) \/ MarkDispatched(w) \/ NoneLeft(w)
  <2>1. UNCHANGED <<attempt, sent>>
    BY <1>2 DEF Pick, MarkDispatched, NoneLeft
  <2>2. \/ \E C : assign' = [assign EXCEPT ![w].pc = "next", ![w].todo = C]
        \/ \E p : assign' = [assign EXCEPT ![w] = [NoCall EXCEPT !.pc = "done",
                                                                !.placed = p]]
    <3>1. CASE Pick(w)
      <4>1. PICK C \in SUBSET Eligible(w) :
              IF C = {} THEN Answer(w, "rejected", None)
              ELSE assign' = [assign EXCEPT ![w].pc = "next", ![w].todo = C]
        BY <3>1 DEF Pick
      <4>. QED  BY <4>1 DEF Answer
    <3>2. CASE MarkDispatched(w) \/ NoneLeft(w)
      BY <3>2 DEF MarkDispatched, NoneLeft, Answer
    <3>. QED  BY <1>2, <3>1, <3>2
  <2>3. /\ assign'[w].pc # "send"
        /\ \A v \in Workloads : v # w => assign'[v] = assign[v]
    <3>1. ASSUME NEW C,
                 assign' = [assign EXCEPT ![w].pc = "next", ![w].todo = C]
          PROVE  /\ assign'[w].pc = "next"
                 /\ \A v \in Workloads : v # w => assign'[v] = assign[v]
      BY <1>1, <3>1 DEF Call
    <3>2. ASSUME NEW p, assign' = [assign EXCEPT ![w] = [NoCall EXCEPT !.pc = "done",
                                                                !.placed = p]]
          PROVE  /\ assign'[w].pc = "done"
                 /\ \A v \in Workloads : v # w => assign'[v] = assign[v]
      BY <1>1, <3>2 DEF NoCall
    <3>. QED  BY <2>2, <3>1, <3>2
  <2>. QED  BY <1>1, <2>1, <2>3 DEF PolledInv, Pollable
<1>3. ASSUME NEW p \in Providers, TakeCandidate(w, p) PROVE PolledInv'
  <2>1. UNCHANGED sent /\ assign[w].pc = "next"
    BY <1>3 DEF TakeCandidate
  <2>2. CASE slot[p] = None
    BY <1>1, <1>3, <2>1, <2>2
    DEF TakeCandidate, Skipped, PolledInv, Pollable, Call
  <2>3. CASE slot[p] # None
    <3>1. /\ attempt' = [attempt EXCEPT ![<<w, p>>] = "dispatched"]
          /\ assign' = [assign EXCEPT ![w].pc = "send", ![w].at = p,
                                      ![w].via = slot[p], ![w].todo = @ \ {p}]
      BY <1>3, <2>3 DEF TakeCandidate
    <3>2. \A v, q : Pollable(v, q) => Pollable(v, q)'
      BY <1>1, <3>1 DEF Pollable, CallType
    <3>3. Pollable(w, p)'
      BY <3>1 DEF Pollable, CallType, Attempts
    <3>4. /\ assign'[w].at = p
          /\ \A v \in Workloads : v # w => assign'[v] = assign[v]
      BY <1>1, <3>1 DEF Call
    <3>. QED  BY <2>1, <3>2, <3>3, <3>4 DEF PolledInv
  <2>. QED  BY <2>2, <2>3
<1>4. CASE SendOk(w)
  <2>1. /\ assign[w].pc = "send" /\ UNCHANGED attempt
        /\ assign' = [assign EXCEPT ![w].pc = "sent"]
        /\ sent' = sent \cup {[w |-> w, p |-> assign[w].at]}
    BY <1>4 DEF SendOk, AfterSend
  <2>2. assign[w].at \in Providers
    BY <2>1 DEF AskedInv
  <2>. QED  BY <1>1, <2>1, <2>2 DEF PolledInv, Pollable, Call
<1>5. CASE SendFails(w)
  <2>1. /\ assign[w].pc = "send" /\ UNCHANGED sent
        /\ attempt' = [attempt EXCEPT ![<<w, assign[w].at>>] = "rejected"]
        /\ assign' = [assign EXCEPT ![w].pc = "next"]
    BY <1>5 DEF SendFails
  <2>2. \A m \in sent : m.w # w
    BY <2>1 DEF SentInv
  <2>3. \A v, q : v # w /\ Pollable(v, q) => Pollable(v, q)'
    BY <1>1, <2>1 DEF Pollable, CallType
  <2>4. /\ assign'[w].pc # "send"
        /\ \A v \in Workloads : v # w => assign'[v] = assign[v]
    BY <1>1, <2>1 DEF Call
  <2>. QED  BY <2>1, <2>2, <2>3, <2>4 DEF PolledInv
<1>. QED  BY <1>2, <1>3, <1>4, <1>5 DEF Calls

\* Outside the calls, only a post touches an attempt, and it drains it.
LEMMA PolledOthers ==
  ASSUME CallInv, PolledInv, UNCHANGED <<assign, sent>>,
         \/ UNCHANGED <<attempt, drained>>
         \/ \E m \in posts : HandlePostAttempt(m)
  PROVE  PolledInv'
<1>1. \A v, q : Pollable(v, q) => Pollable(v, q)'
  <2>1. CASE UNCHANGED <<attempt, drained>>
    BY <2>1 DEF Pollable
  <2>2. ASSUME NEW m \in posts, HandlePostAttempt(m)
        PROVE  \A v, q : Pollable(v, q) => Pollable(v, q)'
    <3>1. /\ attempt' = [attempt EXCEPT ![<<m.w, m.p>>] = m.status]
          /\ drained' = drained \cup {<<m.w, m.p>>}
      BY <2>2 DEF HandlePostAttempt, PostedAttempt
    <3>. QED  BY <3>1 DEF Pollable, CallInv, CallType
  <2>. QED  BY <2>1, <2>2
<1>. QED  BY <1>1 DEF PolledInv

LEMMA PolledStep ==
  ASSUME RegistryInv, CallInv, PolledInv, [Next]_vars
  PROVE  PolledInv'
<1> USE DEF registry, reports
<1>1. ASSUME NEW w \in Workloads, Submit(w) PROVE PolledInv'
  <2>1. /\ UNCHANGED <<attempt, drained, sent>>
        /\ assign' = [assign EXCEPT ![w].pc = "pick"]
    BY <1>1 DEF Submit
  <2>. QED  BY <2>1 DEF PolledInv, Pollable, CallInv, CallType, Call
<1>2. ASSUME NEW s \in Streams,
             \/ Register(s) \/ Break(s) \/ Close(s)
             \/ HandleUpdate(s) \/ AbandonUpdate(s)
      PROVE  PolledInv'
  <2>1. UNCHANGED <<assign, sent, attempt, drained>>
    BY <1>2 DEF Register, Break, Close, HandleUpdate, AbandonUpdate
  <2>. QED  BY <2>1, PolledOthers
<1>3. ASSUME NEW p \in Providers,
             (\E w \in Workloads : Poll(w, p)) \/ DaemonRestart(p)
      PROVE  PolledInv'
  <2>1. UNCHANGED <<assign, sent, attempt, drained>>
    BY <1>3 DEF Poll, DaemonRestart
  <2>. QED  BY <2>1, PolledOthers
<1>4. ASSUME NEW j \in Jobs, NEW status \in Status,
             (\E s \in Streams : StreamReport(j, s, status)) \/ PostReport(j, status)
      PROVE  PolledInv'
  <2>1. UNCHANGED <<assign, sent, attempt, drained>>
    BY <1>4 DEF StreamReport, PostReport
  <2>. QED  BY <2>1, PolledOthers
<1>5. ASSUME NEW m \in posts, HandlePostAttempt(m) \/ HandlePost(m) \/ DropPost(m)
      PROVE  PolledInv'
  <2>1. UNCHANGED <<assign, sent>>
    BY <1>5 DEF HandlePostAttempt, HandlePost, DropPost
  <2>2. HandlePostAttempt(m) \/ UNCHANGED <<attempt, drained>>
    BY <1>5 DEF HandlePost, DropPost
  <2>. QED  BY <2>1, <2>2, PolledOthers
<1>6. CASE UNCHANGED vars
  BY <1>6, PolledOthers DEF vars
<1>7. ASSUME NEW w \in Workloads, Cancel(w) PROVE PolledInv'
  <2>1. UNCHANGED <<assign, sent, attempt, drained>>
    BY <1>7 DEF Cancel
  <2>. QED  BY <2>1, PolledOthers
<1>. QED
  BY <1>1, <1>2, <1>3, <1>4, <1>5, <1>6, <1>7, PolledCalls DEF Next, HandlePosts

\* A build sent down a stream can be polled until a post reports on it: a frame
\* that the edge loses is not a lost build.
THEOREM SentIsPolled == Spec => []SentIsPolledUntilReported
<1>1. Init => PolledInv
  BY DEF Init, PolledInv, NoCall
<1>2. RegistryInv /\ CallInv /\ PolledInv /\ [Next]_vars => PolledInv'
  BY PolledStep
<1>3. PolledInv => SentIsPolledUntilReported
  BY DEF PolledInv, Pollable, SentIsPolledUntilReported
<1>. QED
  BY <1>1, <1>2, <1>3, RegistryInvariant, CallInvariant, PTL DEF Spec

-----------------------------------------------------------------------------
(***************************************************************************)
(* What a post has reported on.                                            *)
(*                                                                         *)
(* ServedInv follows one attempt through its call, the poll and its posts: *)
(* no row before the call reaches its provider, at most one post at a time *)
(* and no way back to "dispatched" once a post has drained it.  An end that*)
(* is stored means that the poll's run is over and that no post about it   *)
(* is still to write the attempt.                                          *)
(***************************************************************************)

Polled(w, p) == job[<<w, p, "poll">>]

AttemptInv ==
  /\ \A w \in Workloads, p \in Providers :
       assign[w].pc \in {"none", "pick"} \/ p \in assign[w].todo
         => attempt[<<w, p>>] = None
  /\ \A w \in Workloads :
       assign[w].pc = "send" => attempt[<<w, assign[w].at>>] # None
  /\ \A w \in Workloads, p \in Providers :
       Polled(w, p) # "none" => attempt[<<w, p>>] # None
  /\ \A w \in Workloads, p \in Providers :
       <<w, p>> \in drained => attempt[<<w, p>>] \notin {None, "dispatched"}

PostInv ==
  /\ \A m \in posts : /\ attempt[<<m.w, m.p>>] # None
                      /\ m.status \in {"running"} \cup Outcomes
                      /\ m.status \in Outcomes => Polled(m.w, m.p) = "ended"
  /\ \A m, n \in posts : m.w = n.w /\ m.p = n.p => m = n

EndInv ==
  \A w \in Workloads, p \in Providers :
    attempt[<<w, p>>] \in Outcomes
      => /\ Polled(w, p) \in {"none", "ended"}
         /\ \A m \in posts : m.w = w /\ m.p = p => m.pc # "attempt"

ServedInv == AttemptInv /\ PostInv /\ EndInv

LEMMA ServedInit == Init => ServedInv
<1> SUFFICES ASSUME Init PROVE ServedInv
  OBVIOUS
<1> USE DispatchAssumption DEF Init
<1>1. AttemptInv
  BY DEF AttemptInv, Polled, NoCall, Jobs, Paths, Attempts
<1>2. PostInv
  BY DEF PostInv
<1>3. EndInv
  BY DEF EndInv, Polled, Attempts, Jobs, Paths, Status
<1>. QED  BY <1>1, <1>2, <1>3 DEF ServedInv

\* A call writes attempts that no post has drained, and neither stores an end.
LEMMA CallsServe ==
  ASSUME CallInv, ServedInv, NEW w \in Workloads, Calls(w)
  PROVE  ServedInv'
<1> USE DEF CallInv, ServedInv, reports
<1>1. /\ UNCHANGED <<posts, drained>>
      /\ assign \in [Workloads -> Call]
      /\ attempt \in [Attempts -> Status \cup {None}]
      /\ \A v \in Workloads, p \in Providers : <<v, p>> \in Attempts
  BY DEF Calls, Pick, TakeCandidate, SendOk, SendFails, MarkDispatched, NoneLeft,
         CallType, Attempts
<1>2. \A v \in Workloads, p \in Providers : Polled(v, p)' = Polled(v, p)
  BY DEF Calls, Pick, TakeCandidate, SendOk, SendFails, MarkDispatched, NoneLeft,
         CallType, Jobs, Paths, Polled
<1>3. "dispatched" \notin Outcomes /\ "rejected" \notin Outcomes /\ None \notin Status
  BY DispatchAssumption
<1>4. ASSUME UNCHANGED attempt,
             \A v \in Workloads : v # w => assign'[v] = assign[v],
             assign'[w].pc \notin {"none", "pick", "send"},
             \/ assign'[w].todo \subseteq assign[w].todo
             \/ assign[w].pc = "pick" /\ assign'[w].todo \subseteq Providers
      PROVE  ServedInv'
  <2>1. AttemptInv'
    BY <1>1, <1>2, <1>4 DEF AttemptInv
  <2>2. PostInv' /\ EndInv'
    BY <1>1, <1>2, <1>4 DEF PostInv, EndInv, CallType, Report
  <2>. QED  BY <2>1, <2>2
<1>5. CASE Pick(w) \/ MarkDispatched(w) \/ NoneLeft(w)
  <2>1. UNCHANGED attempt
    BY <1>5 DEF Pick, MarkDispatched, NoneLeft
  <2>2. \/ \E C \in SUBSET Providers :
             /\ assign[w].pc = "pick"
             /\ assign' = [assign EXCEPT ![w].pc = "next", ![w].todo = C]
        \/ \E p : assign' = [assign EXCEPT ![w] = [NoCall EXCEPT !.pc = "done",
                                                                !.placed = p]]
    <3>1. CASE Pick(w)
      <4>1. PICK C \in SUBSET Eligible(w) :
              IF C = {} THEN Answer(w, "rejected", None)
              ELSE assign' = [assign EXCEPT ![w].pc = "next", ![w].todo = C]
        BY <3>1 DEF Pick
      <4>2. C \subseteq Providers /\ assign[w].pc = "pick"
        BY <3>1 DEF Eligible, Pick
      <4>. QED  BY <4>1, <4>2 DEF Answer
    <3>2. CASE MarkDispatched(w) \/ NoneLeft(w)
      BY <3>2 DEF MarkDispatched, NoneLeft, Answer
    <3>. QED  BY <1>5, <3>1, <3>2
  <2>3. ASSUME NEW C \in SUBSET Providers, assign[w].pc = "pick",
               assign' = [assign EXCEPT ![w].pc = "next", ![w].todo = C]
        PROVE  ServedInv'
    <3>1. /\ assign'[w].pc = "next" /\ assign'[w].todo = C
          /\ \A v \in Workloads : v # w => assign'[v] = assign[v]
      BY <1>1, <2>3 DEF Call
    <3>. QED  BY <1>4, <2>1, <2>3, <3>1
  <2>4. ASSUME NEW p, assign' = [assign EXCEPT ![w] = [NoCall EXCEPT !.pc = "done",
                                                                    !.placed = p]]
        PROVE  ServedInv'
    <3>1. /\ assign'[w].pc = "done" /\ assign'[w].todo = {}
          /\ \A v \in Workloads : v # w => assign'[v] = assign[v]
      BY <1>1, <2>4 DEF NoCall
    <3>. QED  BY <1>4, <2>1, <3>1
  <2>. QED  BY <2>2, <2>3, <2>4
<1>6. ASSUME NEW p \in Providers, TakeCandidate(w, p) PROVE ServedInv'
  <2>1. assign[w].pc = "next" /\ p \in assign[w].todo /\ attempt[<<w, p>>] = None
    BY <1>6 DEF TakeCandidate, AttemptInv
  <2>2. CASE slot[p] = None
    <3>1. UNCHANGED attempt /\ assign' = [assign EXCEPT ![w].todo = @ \ {p}]
      BY <1>6, <2>2 DEF TakeCandidate, Skipped
    <3>2. /\ assign'[w].pc = "next" /\ assign'[w].todo \subseteq assign[w].todo
          /\ \A v \in Workloads : v # w => assign'[v] = assign[v]
      BY <1>1, <2>1, <3>1 DEF Call
    <3>. QED  BY <1>4, <3>1, <3>2
  <2>3. CASE slot[p] # None
    <3>1. /\ attempt' = [attempt EXCEPT ![<<w, p>>] = "dispatched"]
          /\ assign' = [assign EXCEPT ![w].pc = "send", ![w].at = p,
                                      ![w].via = slot[p], ![w].todo = @ \ {p}]
      BY <1>6, <2>3 DEF TakeCandidate
    <3>2. /\ assign'[w].pc = "send" /\ assign'[w].at = p
          /\ assign'[w].todo = assign[w].todo \ {p}
          /\ \A v \in Workloads : v # w => assign'[v] = assign[v]
      BY <1>1, <3>1 DEF Call
    <3>3. /\ attempt'[<<w, p>>] = "dispatched"
          /\ \A v \in Workloads, q \in Providers :
               <<v, q>> # <<w, p>> => attempt'[<<v, q>>] = attempt[<<v, q>>]
      BY <1>1, <3>1
    <3>4. <<w, p>> \notin drained
      BY <2>1 DEF AttemptInv
    <3>5. "dispatched" # None
      BY <1>3 DEF Status
    <3>6. AttemptInv'
      <4>1. \A v \in Workloads, q \in Providers :
              assign'[v].pc \in {"none", "pick"} \/ q \in assign'[v].todo
                => attempt'[<<v, q>>] = None
        BY <3>2, <3>3 DEF AttemptInv
      <4>2. \A v \in Workloads :
              assign'[v].pc = "send" => attempt'[<<v, assign'[v].at>>] # None
        <5>1. \A v \in Workloads : assign[v].pc = "send" => assign[v].at \in Providers
          BY DEF AskedInv
        <5>. QED  BY <3>2, <3>3, <3>5, <5>1 DEF AttemptInv
      <4>3. \A v \in Workloads, q \in Providers :
              Polled(v, q)' # "none" => attempt'[<<v, q>>] # None
        BY <1>2, <3>3, <3>5 DEF AttemptInv
      <4>4. \A v \in Workloads, q \in Providers :
              <<v, q>> \in drained' => attempt'[<<v, q>>] \notin {None, "dispatched"}
        BY <1>1, <3>3, <3>4 DEF AttemptInv
      <4>. QED  BY <4>1, <4>2, <4>3, <4>4 DEF AttemptInv
    <3>7. PostInv' /\ EndInv'
      BY <1>1, <1>2, <1>3, <3>3, <3>5 DEF PostInv, EndInv, CallType, Report
    <3>. QED  BY <3>6, <3>7
  <2>. QED  BY <2>2, <2>3
<1>7. CASE SendOk(w)
  <2>1. UNCHANGED attempt /\ assign' = [assign EXCEPT ![w].pc = "sent"]
    BY <1>7 DEF SendOk, AfterSend
  <2>2. /\ assign'[w].pc = "sent" /\ assign'[w].todo = assign[w].todo
        /\ \A v \in Workloads : v # w => assign'[v] = assign[v]
    BY <1>1, <2>1 DEF Call
  <2>. QED  BY <1>4, <2>1, <2>2
<1>8. CASE SendFails(w)
  <2>1. /\ assign[w].pc = "send"
        /\ attempt' = [attempt EXCEPT ![<<w, assign[w].at>>] = "rejected"]
        /\ assign' = [assign EXCEPT ![w].pc = "next"]
    BY <1>8 DEF SendFails
  <2>2. /\ assign'[w].pc = "next" /\ assign'[w].todo = assign[w].todo
        /\ \A v \in Workloads : v # w => assign'[v] = assign[v]
    BY <1>1, <2>1 DEF Call
  <2>3. /\ attempt'[<<w, assign[w].at>>] = "rejected"
        /\ \A v \in Workloads, q \in Providers :
             <<v, q>> # <<w, assign[w].at>> => attempt'[<<v, q>>] = attempt[<<v, q>>]
    BY <1>1, <2>1 DEF AskedInv
  <2>4. /\ attempt[<<w, assign[w].at>>] # None
        /\ "rejected" # None /\ "rejected" # "dispatched"
    BY <1>3, <2>1 DEF AttemptInv, Status, Terminals
  <2>5. AttemptInv'
    <3>1. \A v \in Workloads, q \in Providers :
            assign'[v].pc \in {"none", "pick"} \/ q \in assign'[v].todo
              => attempt'[<<v, q>>] = None
      BY <2>1, <2>2, <2>3, <2>4 DEF AttemptInv
    <3>2. \A v \in Workloads :
            assign'[v].pc = "send" => attempt'[<<v, assign'[v].at>>] # None
      <4>1. \A v \in Workloads : assign[v].pc = "send" => assign[v].at \in Providers
        BY DEF AskedInv
      <4>. QED  BY <2>2, <2>3, <2>4, <4>1 DEF AttemptInv
    <3>3. \A v \in Workloads, q \in Providers :
            Polled(v, q)' # "none" => attempt'[<<v, q>>] # None
      BY <1>2, <2>3, <2>4 DEF AttemptInv
    <3>4. \A v \in Workloads, q \in Providers :
            <<v, q>> \in drained' => attempt'[<<v, q>>] \notin {None, "dispatched"}
      BY <1>1, <2>3, <2>4 DEF AttemptInv
    <3>. QED  BY <3>1, <3>2, <3>3, <3>4 DEF AttemptInv
  <2>6. PostInv' /\ EndInv'
    BY <1>1, <1>2, <1>3, <2>3, <2>4 DEF PostInv, EndInv, CallType, Report
  <2>. QED  BY <2>5, <2>6
<1>. QED  BY <1>5, <1>6, <1>7, <1>8 DEF Calls

\* What a poll's run may report: that it runs, once, and then how it ended.
LEMMA PollReports ==
  ASSUME NEW j \in Jobs, NEW status \in NextReports(j), j[3] = "poll"
  PROVE  \/ /\ status = "running" /\ job[j] = "held"
            /\ After(job[j], status) = "running"
         \/ /\ status \in Outcomes /\ job[j] = "running"
            /\ After(job[j], status) = "ended"
BY DispatchAssumption DEF NextReports, After

\* A post is sent when none about the attempt is open, by a run that goes on.
LEMMA ReportsServe ==
  ASSUME CallInv, ServedInv, NEW j \in Jobs, NEW status \in Status,
         (\E s \in Streams : StreamReport(j, s, status)) \/ PostReport(j, status)
  PROVE  ServedInv'
<1> USE DEF CallInv, ServedInv
<1>1. /\ UNCHANGED <<attempt, assign, drained>>
      /\ status \in NextReports(j)
      /\ job' = [job EXCEPT ![j] = After(@, status)]
      /\ job \in [Jobs -> JobState]
  BY DEF StreamReport, PostReport, CallType
<1>2. CASE \E s \in Streams : StreamReport(j, s, status)
  <2>1. UNCHANGED posts /\ j[3] = "stream"
    BY <1>2 DEF StreamReport
  <2>2. \A v \in Workloads, q \in Providers : Polled(v, q)' = Polled(v, q)
    BY <1>1, <2>1 DEF Jobs, Paths, Polled
  <2>. QED
    BY <1>1, <2>1, <2>2 DEF AttemptInv, PostInv, EndInv, CallType, Report
<1>3. CASE PostReport(j, status)
  <2> DEFINE w == j[1]
             p == j[2]
             m == [w |-> w, p |-> p, status |-> status, pc |-> "attempt"]
  <2>1. /\ j[3] = "poll" /\ posts' = posts \cup {m}
        /\ \A n \in posts : ~(n.w = w /\ n.p = p)
    BY <1>3 DEF PostReport
  <2>2. /\ w \in Workloads /\ p \in Providers /\ j = <<w, p, "poll">>
        /\ m.w = w /\ m.p = p /\ m.status = status
    BY <2>1 DEF Jobs
  <2> HIDE DEF w, p, m
  <2>3. /\ Polled(w, p) \in {"held", "running"}
        /\ status \in {"running"} \cup Outcomes
        /\ status \in Outcomes => Polled(w, p)' = "ended"
        /\ \A v \in Workloads, q \in Providers :
             v # w \/ q # p => Polled(v, q)' = Polled(v, q)
    <3>1. "running" \notin Outcomes
      BY DispatchAssumption
    <3>. QED  BY <1>1, <2>1, <2>2, <3>1, PollReports DEF Polled, Jobs, Paths
  <2>4. attempt[<<w, p>>] \notin Outcomes /\ attempt[<<w, p>>] # None
    BY <2>2, <2>3 DEF EndInv, AttemptInv
  <2>5. AttemptInv'
    BY <1>1, <2>2, <2>3, <2>4 DEF AttemptInv
  <2>6. PostInv'
    BY <1>1, <2>1, <2>2, <2>3, <2>4 DEF PostInv, CallType, Report
  <2>7. EndInv'
    BY <1>1, <2>1, <2>2, <2>3, <2>4 DEF EndInv
  <2>. QED  BY <2>5, <2>6, <2>7
<1>. QED  BY <1>2, <1>3

LEMMA PollServes ==
  ASSUME CallInv, ServedInv, NEW w \in Workloads, NEW p \in Providers, Poll(w, p)
  PROVE  ServedInv'
<1> USE DEF CallInv, ServedInv, reports
<1>1. /\ attempt[<<w, p>>] = "dispatched" /\ Polled(w, p) = "none"
      /\ job' = [job EXCEPT ![<<w, p, "poll">>] = "held"]
      /\ UNCHANGED <<attempt, assign, drained, posts>>
  BY DEF Poll, Polled
<1>2. \A v \in Workloads, q \in Providers :
        v # w \/ q # p => Polled(v, q)' = Polled(v, q)
  BY <1>1 DEF Polled, CallType, Jobs, Paths
<1>3. "dispatched" \notin Outcomes /\ "dispatched" # None
  BY DispatchAssumption DEF Status
<1>4. AttemptInv'
  BY <1>1, <1>2, <1>3 DEF AttemptInv
<1>5. PostInv'
  BY <1>1, <1>2 DEF PostInv, CallType, Report
<1>6. EndInv'
  BY <1>1, <1>2, <1>3 DEF EndInv
<1>. QED  BY <1>4, <1>5, <1>6

LEMMA RestartServes ==
  ASSUME CallInv, ServedInv, NEW p \in Providers, DaemonRestart(p)
  PROVE  ServedInv'
<1> USE DEF CallInv, ServedInv
<1>1. /\ posts' = {m \in posts : m.p # p}
      /\ UNCHANGED <<attempt, assign, drained>>
  BY DEF DaemonRestart
<1>2. \A v \in Workloads, q \in Providers :
        Polled(v, q)' = IF q = p THEN "none" ELSE Polled(v, q)
  BY DEF DaemonRestart, Polled, Jobs, Paths
<1>3. AttemptInv'
  BY <1>1, <1>2 DEF AttemptInv
<1>4. PostInv'
  BY <1>1, <1>2 DEF PostInv, CallType, Report
<1>5. EndInv'
  BY <1>1, <1>2 DEF EndInv
<1>. QED  BY <1>3, <1>4, <1>5

\* The handler of a post writes the attempt first; no second post follows it
\* there.
LEMMA PostsServe ==
  ASSUME CallInv, ServedInv, NEW m \in posts,
         HandlePostAttempt(m) \/ HandlePost(m) \/ DropPost(m)
  PROVE  ServedInv'
<1> USE DEF CallInv, ServedInv
<1>1. /\ UNCHANGED <<assign, job>>
      /\ m \in Report /\ posts \subseteq Report
      /\ \A v \in Workloads, p \in Providers : <<v, p>> \in Attempts
  BY DEF HandlePostAttempt, HandlePost, DropPost, CallType, Attempts
<1>2. \A n \in posts' :
        \/ n \in posts /\ n # m
        \/ /\ n.w = m.w /\ n.p = m.p /\ n.status = m.status
           /\ n.pc \in {"status", "result", "forward"}
           /\ \A o \in posts' : o # n => o \in posts /\ o # m
  BY <1>1 DEF HandlePostAttempt, HandlePost, DropPost, PostStep, StepOf,
              AfterStatus, Report
<1>3. CASE HandlePost(m) \/ DropPost(m)
  <2>1. UNCHANGED <<attempt, drained>>
    BY <1>3 DEF HandlePost, DropPost
  <2>2. AttemptInv'
    BY <1>1, <2>1 DEF AttemptInv, Polled
  <2>3. PostInv'
    BY <1>1, <1>2, <2>1 DEF PostInv, Polled
  <2>4. EndInv'
    BY <1>1, <1>2, <2>1 DEF EndInv, Polled
  <2>. QED  BY <2>2, <2>3, <2>4
<1>4. CASE HandlePostAttempt(m)
  <2>1. /\ attempt' = [attempt EXCEPT ![<<m.w, m.p>>] = m.status]
        /\ drained' = drained \cup {<<m.w, m.p>>}
    BY <1>4 DEF HandlePostAttempt, PostedAttempt
  <2>2. m.w \in Workloads /\ m.p \in Providers
    BY <1>1 DEF Report
  <2>3. /\ attempt'[<<m.w, m.p>>] = m.status
        /\ \A v \in Workloads, p \in Providers :
             <<v, p>> # <<m.w, m.p>> => attempt'[<<v, p>>] = attempt[<<v, p>>]
    BY <1>1, <2>1, <2>2 DEF CallType
  <2>4. /\ attempt[<<m.w, m.p>>] # None
        /\ m.status \in {"running"} \cup Outcomes
        /\ m.status \notin {None, "dispatched"}
        /\ m.status \in Outcomes => Polled(m.w, m.p) = "ended"
    BY DispatchAssumption DEF PostInv, Status, Terminals
  <2>5. AttemptInv'
    <3>1. \A v \in Workloads, q \in Providers :
            assign[v].pc \in {"none", "pick"} \/ q \in assign[v].todo
              => attempt'[<<v, q>>] = None
      BY <2>2, <2>3, <2>4 DEF AttemptInv
    <3>2. \A v \in Workloads :
            assign[v].pc = "send" => attempt'[<<v, assign[v].at>>] # None
      <4>1. \A v \in Workloads : assign[v].pc = "send" => assign[v].at \in Providers
        BY DEF AskedInv
      <4>. QED  BY <2>3, <2>4, <4>1 DEF AttemptInv
    <3>3. \A v \in Workloads, q \in Providers :
            Polled(v, q) # "none" => attempt'[<<v, q>>] # None
      BY <2>3, <2>4 DEF AttemptInv
    <3>4. \A v \in Workloads, q \in Providers :
            <<v, q>> \in drained' => attempt'[<<v, q>>] \notin {None, "dispatched"}
      BY <2>1, <2>3, <2>4 DEF AttemptInv
    <3>. QED  BY <1>1, <3>1, <3>2, <3>3, <3>4 DEF AttemptInv, Polled
  <2>6. PostInv'
    <3>1. \A v \in Workloads, q \in Providers :
            attempt[<<v, q>>] # None => attempt'[<<v, q>>] # None
      BY <2>3, <2>4
    <3>. QED  BY <1>1, <1>2, <2>4, <3>1 DEF PostInv, Polled, Report
  <2>7. EndInv'
    <3>1. \A n \in posts' : n.w = m.w /\ n.p = m.p => n.pc # "attempt"
      BY <1>2 DEF PostInv
    <3>2. \A v \in Workloads, q \in Providers :
            \A n \in posts' : n.w = v /\ n.p = q /\ <<v, q>> # <<m.w, m.p>> => n \in posts
      BY <1>2
    <3>. QED  BY <1>1, <2>3, <2>4, <3>1, <3>2 DEF EndInv, Polled
  <2>. QED  BY <2>5, <2>6, <2>7
<1>. QED  BY <1>3, <1>4

LEMMA OthersServe ==
  ASSUME ServedInv, UNCHANGED <<attempt, assign, posts, job, drained>>
  PROVE  ServedInv'
BY DEF ServedInv, AttemptInv, PostInv, EndInv, Polled

LEMMA ServedStep ==
  ASSUME CallInv, ServedInv, [Next]_vars
  PROVE  ServedInv'
<1> USE DEF registry, reports
<1>1. ASSUME NEW s \in Streams,
             \/ Register(s) \/ Break(s) \/ Close(s)
             \/ HandleUpdate(s) \/ AbandonUpdate(s)
      PROVE  ServedInv'
  <2>1. UNCHANGED <<attempt, assign, posts, job, drained>>
    BY <1>1 DEF Register, Break, Close, HandleUpdate, AbandonUpdate
  <2>. QED  BY <2>1, OthersServe
<1>2. ASSUME NEW w \in Workloads, Cancel(w) PROVE ServedInv'
  <2>1. UNCHANGED <<attempt, assign, posts, job, drained>>
    BY <1>2 DEF Cancel
  <2>. QED  BY <2>1, OthersServe
<1>3. ASSUME NEW w \in Workloads, Submit(w) PROVE ServedInv'
  <2>1. /\ UNCHANGED <<attempt, posts, job, drained>>
        /\ assign[w].pc = "none" /\ assign' = [assign EXCEPT ![w].pc = "pick"]
    BY <1>3 DEF Submit
  <2>2. /\ assign'[w].pc = "pick"
        /\ \A v \in Workloads : v # w => assign'[v] = assign[v]
    BY <2>1 DEF CallInv, CallType, Call
  <2>. QED
    BY <2>1, <2>2 DEF ServedInv, AttemptInv, PostInv, EndInv, Polled
<1>4. ASSUME NEW w \in Workloads, HandlePosts(w) PROVE ServedInv'
  BY <1>4, PostsServe DEF HandlePosts
<1>5. CASE UNCHANGED vars
  BY <1>5, OthersServe DEF vars
<1>. QED
  BY <1>1, <1>2, <1>3, <1>4, <1>5, CallsServe, ReportsServe, PollServes,
     RestartServes, PostsServe DEF Next

THEOREM ServedInvariant == Spec => []ServedInv
<1>1. CallInv /\ ServedInv /\ [Next]_vars => ServedInv'
  BY ServedStep
<1>. QED  BY <1>1, ServedInit, CallInvariant, PTL DEF Spec

\* No poll serves an attempt that a post has drained: only Poll starts a job of
\* the poll, and it wants the attempt to be "dispatched".
THEOREM DrainedStays == Spec => DrainedIsNotServedAgain
<1> DEFINE Stays == \A w \in Workloads, p \in Providers :
                      <<w, p>> \in drained /\ job[<<w, p, "poll">>] = "none"
                        => job'[<<w, p, "poll">>] = "none"
<1>1. CallInv /\ ServedInv /\ [Next]_vars => [Stays]_vars
  <2> SUFFICES ASSUME CallInv, ServedInv, Next, NEW w \in Workloads,
                      NEW p \in Providers, <<w, p>> \in drained,
                      job[<<w, p, "poll">>] = "none"
               PROVE  job'[<<w, p, "poll">>] = "none"
    OBVIOUS
  <2> USE DEF registry, reports
  <2>1. /\ <<w, p, "poll">> \in Jobs /\ job \in [Jobs -> JobState]
        /\ attempt[<<w, p>>] # "dispatched"
    BY DEF CallInv, CallType, ServedInv, AttemptInv, Jobs, Paths
  <2>2. ASSUME NEW v \in Workloads, NEW q \in Providers, Poll(v, q)
        PROVE  job'[<<w, p, "poll">>] = "none"
    <3>1. v # w \/ q # p
      BY <2>1, <2>2 DEF Poll
    <3>2. <<v, q, "poll">> # <<w, p, "poll">>
      BY <3>1
    <3>. QED  BY <2>1, <2>2, <3>2 DEF Poll
  <2>3. ASSUME NEW j \in Jobs, NEW status \in Status,
               (\E s \in Streams : StreamReport(j, s, status)) \/ PostReport(j, status)
        PROVE  job'[<<w, p, "poll">>] = "none"
    <3>1. /\ status \in NextReports(j)
          /\ job' = [job EXCEPT ![j] = After(@, status)]
      BY <2>3 DEF StreamReport, PostReport
    <3>2. job[j] # "none"
      BY <3>1 DEF NextReports
    <3>. QED  BY <2>1, <3>1, <3>2
  <2>4. ASSUME NEW q \in Providers, DaemonRestart(q)
        PROVE  job'[<<w, p, "poll">>] = "none"
    BY <2>1, <2>4 DEF DaemonRestart
  <2>5. ASSUME NEW v \in Workloads, Calls(v)
        PROVE  job'[<<w, p, "poll">>] = "none"
    BY <2>1, <2>5 DEF Calls, Pick, TakeCandidate, SendOk, SendFails,
                      MarkDispatched, NoneLeft
  <2>6. ASSUME NEW s \in Streams,
               \/ Register(s) \/ Break(s) \/ Close(s)
               \/ HandleUpdate(s) \/ AbandonUpdate(s)
        PROVE  UNCHANGED job
    BY <2>6 DEF Register, Break, Close, HandleUpdate, AbandonUpdate
  <2>7. ASSUME NEW v \in Workloads, Submit(v) \/ Cancel(v) PROVE UNCHANGED job
    BY <2>7 DEF Submit, Cancel
  <2>8. ASSUME NEW m \in posts, HandlePostAttempt(m) \/ HandlePost(m) \/ DropPost(m)
        PROVE  UNCHANGED job
    BY <2>8 DEF HandlePostAttempt, HandlePost, DropPost
  <2>. QED
    BY <2>2, <2>3, <2>4, <2>5, <2>6, <2>7, <2>8 DEF Next, HandlePosts
<1>. QED
  BY <1>1, CallInvariant, ServedInvariant, PTL DEF Spec, DrainedIsNotServedAgain

\* The end that a post stored for an attempt is kept, unless its own Send fails
\* afterwards: no call asks the provider again and no post about it is open.
THEOREM EndKept == Spec => AttemptEndIsKept
<1> DEFINE Kept == \A w \in Workloads, p \in Providers :
                     attempt[<<w, p>>] \in Outcomes /\ ~(assign[w].pc = "send" /\ assign[w].at = p)
                       => attempt'[<<w, p>>] = attempt[<<w, p>>]
<1>1. CallInv /\ ServedInv /\ [Next]_vars => [Kept]_vars
  <2> SUFFICES ASSUME CallInv, ServedInv, Next, NEW w \in Workloads,
                      NEW p \in Providers, attempt[<<w, p>>] \in Outcomes,
                      ~(assign[w].pc = "send" /\ assign[w].at = p)
               PROVE  attempt'[<<w, p>>] = attempt[<<w, p>>]
    OBVIOUS
  <2> USE DEF registry, reports
  <2>1. /\ <<w, p>> \in Attempts /\ attempt \in [Attempts -> Status \cup {None}]
        /\ attempt[<<w, p>>] # None
    BY DispatchAssumption DEF CallInv, CallType, Attempts, Status, Terminals
  <2>2. ASSUME NEW v \in Workloads, NEW q \in Providers, TakeCandidate(v, q)
        PROVE  attempt'[<<w, p>>] = attempt[<<w, p>>]
    <3>1. attempt[<<v, q>>] = None
      BY <2>2 DEF TakeCandidate, ServedInv, AttemptInv
    <3>. QED  BY <2>1, <2>2, <3>1 DEF TakeCandidate
  <2>3. ASSUME NEW v \in Workloads, SendFails(v)
        PROVE  attempt'[<<w, p>>] = attempt[<<w, p>>]
    <3>1. <<v, assign[v].at>> # <<w, p>>
      BY <2>3 DEF SendFails
    <3>. QED  BY <2>1, <2>3, <3>1 DEF SendFails
  <2>4. ASSUME NEW v \in Workloads,
               Pick(v) \/ SendOk(v) \/ MarkDispatched(v) \/ NoneLeft(v)
        PROVE  UNCHANGED attempt
    BY <2>4 DEF Pick, SendOk, MarkDispatched, NoneLeft
  <2>5. ASSUME NEW m \in posts, HandlePostAttempt(m) \/ HandlePost(m) \/ DropPost(m)
        PROVE  attempt'[<<w, p>>] = attempt[<<w, p>>]
    <3>1. CASE HandlePost(m) \/ DropPost(m)
      BY <3>1 DEF HandlePost, DropPost
    <3>2. CASE HandlePostAttempt(m)
      <4>1. m.pc = "attempt" /\ attempt' = [attempt EXCEPT ![<<m.w, m.p>>] = m.status]
        BY <3>2 DEF HandlePostAttempt, PostedAttempt
      <4>2. <<m.w, m.p>> # <<w, p>>
        BY <4>1 DEF ServedInv, EndInv
      <4>. QED  BY <2>1, <4>1, <4>2
    <3>. QED  BY <2>5, <3>1, <3>2
  <2>6. ASSUME NEW s \in Streams,
               \/ Register(s) \/ Break(s) \/ Close(s)
               \/ HandleUpdate(s) \/ AbandonUpdate(s)
        PROVE  UNCHANGED attempt
    BY <2>6 DEF Register, Break, Close, HandleUpdate, AbandonUpdate
  <2>7. ASSUME NEW v \in Workloads, Submit(v) \/ Cancel(v) PROVE UNCHANGED attempt
    BY <2>7 DEF Submit, Cancel
  <2>8. ASSUME NEW j \in Jobs, NEW status \in Status,
               (\E s \in Streams : StreamReport(j, s, status)) \/ PostReport(j, status)
        PROVE  UNCHANGED attempt
    BY <2>8 DEF StreamReport, PostReport
  <2>9. ASSUME NEW q \in Providers, DaemonRestart(q) \/ \E v \in Workloads : Poll(v, q)
        PROVE  UNCHANGED attempt
    BY <2>9 DEF DaemonRestart, Poll
  <2>. QED
    BY <2>2, <2>3, <2>4, <2>5, <2>6, <2>7, <2>8, <2>9 DEF Next, HandlePosts, Calls
<1>. QED
  BY <1>1, CallInvariant, ServedInvariant, PTL DEF Spec, AttemptEndIsKept

-----------------------------------------------------------------------------
(***************************************************************************)
(* The rows and the forwards.  A handler keeps the result it stored as a   *)
(* forward to do, and only a fault takes the forward away.                 *)
(***************************************************************************)

HandlerType ==
  /\ update \in [Streams -> Report \cup {None}]
  /\ \A s \in Streams : update[s] # None => update[s].pc # "attempt"
  /\ \A s \in Streams :
       update[s] # None /\ update[s].pc = "result" => update[s].status \in Terminals
  /\ \A m \in posts : m.pc = "result" => m.status \in Terminals

RowType ==
  /\ workload \in [Workloads -> Row]
  /\ told \in [Workloads -> SUBSET Status]

HistoryType ==
  /\ sent \subseteq [w : Workloads, p : Providers]
  /\ drained \subseteq Attempts
  /\ faults \in Nat

\* A handler has stored the result of w and is about to forward it.
Forwarding(w) ==
  \/ \E m \in posts : m.w = w /\ m.pc = "forward" /\ m.status = workload[w].result
  \/ \E s \in Streams : /\ update[s] # None /\ update[s].w = w
                         /\ update[s].pc = "forward"
                         /\ update[s].status = workload[w].result

ToldInv ==
  faults = 0 =>
    /\ \A s \in Streams : conn[s] # "dead"
    /\ \A w \in Workloads :
         workload[w].result # None /\ TypeOf[w] = Build
           => workload[w].result \in told[w] \/ Forwarding(w)

ReportInv == HandlerType /\ RowType /\ HistoryType /\ ToldInv

LEMMA ReportInit == Init => ReportInv
<1> SUFFICES ASSUME Init PROVE ReportInv
  OBVIOUS
<1> USE DispatchAssumption DEF Init
<1>1. HandlerType
  BY DEF HandlerType
<1>2. RowType
  BY DEF RowType, Row
<1>3. HistoryType
  BY DEF HistoryType
<1>4. ToldInv
  BY DEF ToldInv
<1>. QED  BY <1>1, <1>2, <1>3, <1>4 DEF ReportInv

\* What a handler writes, and what is left to forward after it.
LEMMA WriteRows ==
  ASSUME RowType, NEW m \in Report, m.pc \in {"status", "result", "forward"},
         m.pc = "result" => m.status \in Terminals, Write(m)
  PROVE  /\ RowType'
         /\ \A w \in Workloads :
              \/ /\ w = m.w /\ m.pc = "result"
                 /\ workload'[w].result = m.status
              \/ /\ workload'[w].result = workload[w].result
                 /\ told[w] \subseteq told'[w]
         /\ m.pc = "forward" /\ TypeOf[m.w] = Build => m.status \in told'[m.w]
<1>1. m.w \in Workloads /\ m.status \in Status
  BY DEF Report
<1>2. CASE m.pc = "status"
  <2>1. workload' = [workload EXCEPT ![m.w].status = m.status] /\ UNCHANGED told
    BY <1>2 DEF Write
  <2>. QED  BY <1>1, <1>2, <2>1 DEF RowType, Row
<1>3. CASE m.pc = "result"
  <2>1. workload' = [workload EXCEPT ![m.w].result = m.status] /\ UNCHANGED told
    BY <1>3 DEF Write
  <2>. QED  BY <1>1, <1>3, <2>1 DEF RowType, Row
<1>4. CASE m.pc = "forward"
  <2>1. /\ UNCHANGED workload
        /\ told' = [told EXCEPT ![m.w] = IF TypeOf[m.w] = Build
                                         THEN @ \cup {m.status} ELSE @]
    BY <1>4 DEF Write
  <2>. QED  BY <1>1, <1>4, <2>1 DEF RowType
<1>. QED  BY <1>2, <1>3, <1>4

\* Steps of a report: where the message goes on.
LEMMA StepOfReport ==
  ASSUME NEW m \in Report, m.pc \in {"status", "result"}
  PROVE  /\ StepOf(m) \in Report /\ StepOf(m).w = m.w /\ StepOf(m).p = m.p
         /\ StepOf(m).status = m.status
         /\ StepOf(m).pc \in {"result", "forward"}
         /\ StepOf(m).pc = "result" => m.status \in Terminals
         /\ m.pc = "result" => StepOf(m).pc = "forward"
BY DEF StepOf, AfterStatus, Report

LEMMA UpdateKeepsReports ==
  ASSUME CallInv, ReportInv, NEW s \in Streams, HandleUpdate(s)
  PROVE  ReportInv'
<1> USE DEF ReportInv, registry, reports
<1> DEFINE m == update[s]
<1>1. /\ m # None /\ m \in Report /\ m.pc \in {"status", "result", "forward"}
      /\ m.pc = "result" => m.status \in Terminals
      /\ Write(m)
      /\ update' = [update EXCEPT ![s] = IF m.pc = "forward" THEN None ELSE StepOf(m)]
      /\ UNCHANGED <<conn, posts, drained, sent, faults>>
  BY DEF HandleUpdate, HandlerType, Report
<1>2. /\ \A t \in Streams : t # s => update'[t] = update[t]
      /\ update'[s] = IF m.pc = "forward" THEN None ELSE StepOf(m)
  BY <1>1 DEF HandlerType
<1> HIDE DEF m
<1>3. m.pc # "forward" =>
        /\ StepOf(m) \in Report /\ StepOf(m).w = m.w
        /\ StepOf(m).status = m.status
        /\ StepOf(m).pc \in {"result", "forward"}
        /\ StepOf(m).pc = "result" => m.status \in Terminals
        /\ m.pc = "result" => StepOf(m).pc = "forward"
  BY <1>1, StepOfReport
<1>4. HandlerType'
  BY <1>1, <1>2, <1>3 DEF HandlerType
<1>5. /\ RowType'
      /\ \A w \in Workloads :
           \/ w = m.w /\ m.pc = "result" /\ workload'[w].result = m.status
           \/ workload'[w].result = workload[w].result /\ told[w] \subseteq told'[w]
      /\ m.pc = "forward" /\ TypeOf[m.w] = Build => m.status \in told'[m.w]
  BY <1>1, WriteRows
<1>6. HistoryType'
  BY <1>1 DEF HistoryType
<1>7. ToldInv'
  <2> SUFFICES ASSUME faults = 0, NEW w \in Workloads, workload'[w].result # None,
                      TypeOf[w] = Build
               PROVE  workload'[w].result \in told'[w] \/ Forwarding(w)'
    BY <1>1 DEF ToldInv
  <2>1. CASE w = m.w /\ m.pc = "result" /\ workload'[w].result = m.status
    BY <1>2, <1>3, <2>1, ReportAssumption DEF Forwarding
  <2>2. CASE workload'[w].result = workload[w].result /\ told[w] \subseteq told'[w]
    <3>1. workload[w].result \in told[w] \/ Forwarding(w)
      BY <2>2 DEF ToldInv
    <3>2. CASE workload[w].result \in told[w]
      BY <2>2, <3>2
    <3>3. CASE \E n \in posts : n.w = w /\ n.pc = "forward" /\ n.status = workload[w].result
      BY <1>1, <2>2, <3>3 DEF Forwarding
    <3>4. ASSUME NEW t \in Streams, update[t] # None, update[t].w = w,
                 update[t].pc = "forward", update[t].status = workload[w].result
          PROVE  workload'[w].result \in told'[w] \/ Forwarding(w)'
      <4>1. CASE t = s
        BY <1>5, <2>2, <3>4, <4>1 DEF m
      <4>2. CASE t # s
        BY <1>2, <2>2, <3>4, <4>2 DEF Forwarding
      <4>. QED  BY <4>1, <4>2
    <3>. QED  BY <3>1, <3>2, <3>3, <3>4 DEF Forwarding
  <2>. QED  BY <1>5, <2>1, <2>2
<1>. QED  BY <1>4, <1>5, <1>6, <1>7

LEMMA PostKeepsReports ==
  ASSUME CallInv, ReportInv, NEW m \in posts, HandlePost(m)
  PROVE  ReportInv'
<1> USE DEF ReportInv, registry, reports
<1>1. /\ m \in Report /\ m.pc \in {"status", "result", "forward"}
      /\ m.pc = "result" => m.status \in Terminals
      /\ Write(m)
      /\ posts' = (posts \ {m}) \cup PostStep(m)
      /\ UNCHANGED <<conn, update, drained, sent, faults>>
  BY DEF HandlePost, HandlerType, CallInv, CallType, Report
<1>2. PostStep(m) = IF m.pc = "forward" THEN {} ELSE {StepOf(m)}
  BY DEF PostStep
<1>3. m.pc # "forward" =>
        /\ StepOf(m) \in Report /\ StepOf(m).w = m.w
        /\ StepOf(m).status = m.status
        /\ StepOf(m).pc = "result" => m.status \in Terminals
        /\ m.pc = "result" => StepOf(m).pc = "forward"
  BY <1>1, StepOfReport
<1>4. HandlerType'
  BY <1>1, <1>2, <1>3 DEF HandlerType
<1>5. /\ RowType'
      /\ \A w \in Workloads :
           \/ w = m.w /\ m.pc = "result" /\ workload'[w].result = m.status
           \/ workload'[w].result = workload[w].result /\ told[w] \subseteq told'[w]
      /\ m.pc = "forward" /\ TypeOf[m.w] = Build => m.status \in told'[m.w]
  BY <1>1, WriteRows
<1>6. HistoryType'
  BY <1>1 DEF HistoryType
<1>7. ToldInv'
  <2> SUFFICES ASSUME faults = 0, NEW w \in Workloads, workload'[w].result # None,
                      TypeOf[w] = Build
               PROVE  workload'[w].result \in told'[w] \/ Forwarding(w)'
    BY <1>1 DEF ToldInv
  <2>1. CASE w = m.w /\ m.pc = "result" /\ workload'[w].result = m.status
    BY <1>1, <1>2, <1>3, <2>1 DEF Forwarding
  <2>2. CASE workload'[w].result = workload[w].result /\ told[w] \subseteq told'[w]
    <3>1. workload[w].result \in told[w] \/ Forwarding(w)
      BY <2>2 DEF ToldInv
    <3>2. CASE workload[w].result \in told[w]
      BY <2>2, <3>2
    <3>3. ASSUME NEW n \in posts, n.w = w, n.pc = "forward",
                 n.status = workload[w].result
          PROVE  workload'[w].result \in told'[w] \/ Forwarding(w)'
      <4>1. CASE n = m
        BY <1>5, <2>2, <3>3, <4>1
      <4>2. CASE n # m
        BY <1>1, <2>2, <3>3, <4>2 DEF Forwarding
      <4>. QED  BY <4>1, <4>2
    <3>4. CASE \E t \in Streams : /\ update[t] # None /\ update[t].w = w
                                  /\ update[t].pc = "forward"
                                  /\ update[t].status = workload[w].result
      BY <1>1, <2>2, <3>4 DEF Forwarding
    <3>. QED  BY <3>1, <3>2, <3>3, <3>4 DEF Forwarding
  <2>. QED  BY <1>5, <2>1, <2>2
<1>. QED  BY <1>4, <1>5, <1>6, <1>7

\* What leaves results and statuses told alone, and drops no forward.
LEMMA QuietKeepsTold ==
  ASSUME ToldInv, UNCHANGED <<told, faults>>,
         \A s \in Streams : conn[s] # "dead" => conn'[s] # "dead",
         \A w \in Workloads : workload'[w].result = workload[w].result,
         \A m \in posts : m.pc = "forward" => m \in posts',
         \A s \in Streams : update[s] # None => update'[s] = update[s]
  PROVE  ToldInv'
<1>1. \A w \in Workloads : Forwarding(w) => Forwarding(w)'
  BY DEF Forwarding
<1>. QED  BY <1>1 DEF ToldInv

\* After a fault nothing is promised.
LEMMA FaultEndsPromise ==
  ASSUME HistoryType, Fault
  PROVE  faults' \in Nat /\ ToldInv'
<1>1. faults' \in Nat /\ faults' # 0
  BY DEF HistoryType, Fault
<1>. QED  BY <1>1 DEF ToldInv

LEMMA CallsKeepReports ==
  ASSUME CallInv, ReportInv, NEW w \in Workloads, Calls(w) \/ Submit(w) \/ Cancel(w)
  PROVE  ReportInv'
<1> USE DEF ReportInv, registry, reports
<1>1. UNCHANGED <<conn, update, posts, told, drained>>
  BY DEF Calls, Submit, Cancel, Pick, TakeCandidate, SendOk, SendFails,
         MarkDispatched, NoneLeft
<1>2. \/ UNCHANGED workload
      \/ \E status \in Status : workload' = [workload EXCEPT ![w].status = status]
  <2>1. "queued" \in Status /\ "rejected" \in Status /\ "dispatched" \in Status
        /\ "cancelled" \in Status
    BY DEF Status, Terminals
  <2>2. CASE Pick(w)
    <3>1. PICK C \in SUBSET Eligible(w) :
            IF C = {} THEN Answer(w, "rejected", None) ELSE UNCHANGED workload
      BY <2>2 DEF Pick
    <3>. QED  BY <2>1, <3>1 DEF Answer
  <2>3. CASE MarkDispatched(w) \/ NoneLeft(w)
    BY <2>1, <2>3 DEF MarkDispatched, NoneLeft, Answer
  <2>4. CASE Submit(w) \/ Cancel(w)
    BY <2>1, <2>4 DEF Submit, Cancel
  <2>5. CASE SendOk(w) \/ SendFails(w) \/ \E p \in Providers : TakeCandidate(w, p)
    BY <2>5 DEF SendOk, SendFails, TakeCandidate
  <2>. QED  BY <2>2, <2>3, <2>4, <2>5 DEF Calls
<1>3. /\ RowType'
      /\ \A v \in Workloads : workload'[v].result = workload[v].result
  BY <1>1, <1>2 DEF RowType, Row
<1>4. HandlerType'
  BY <1>1 DEF HandlerType
<1>5. sent' \subseteq [w : Workloads, p : Providers]
  <2>1. CASE SendOk(w)
    <3>1. assign[w].at \in Providers
      BY <2>1 DEF SendOk, CallInv, AskedInv
    <3>. QED  BY <2>1, <3>1 DEF SendOk, HistoryType
  <2>2. CASE ~SendOk(w)
    BY <2>2 DEF Calls, Submit, Cancel, Pick, TakeCandidate, SendFails,
                MarkDispatched, NoneLeft, HistoryType
  <2>. QED  BY <2>1, <2>2
<1>6. UNCHANGED faults \/ Fault
  BY DEF Calls, Submit, Cancel, Pick, TakeCandidate, SendOk, SendFails,
         MarkDispatched, NoneLeft
<1>7. CASE UNCHANGED faults
  <2>1. ToldInv'
    BY <1>1, <1>3, <1>7, QuietKeepsTold
  <2>. QED  BY <1>1, <1>3, <1>4, <1>5, <1>7, <2>1 DEF HistoryType
<1>8. CASE Fault
  BY <1>1, <1>3, <1>4, <1>5, <1>8, FaultEndsPromise DEF HistoryType
<1>. QED  BY <1>6, <1>7, <1>8

LEMMA RegistryKeepsReports ==
  ASSUME CallInv, RegistryInv, ReportInv, NEW s \in Streams,
         Register(s) \/ Break(s) \/ Close(s) \/ AbandonUpdate(s)
  PROVE  ReportInv'
<1> USE DEF ReportInv, registry, reports
<1>1. UNCHANGED <<workload, posts, told, sent, drained>>
  BY DEF Register, Break, Close, AbandonUpdate
<1>2. update' = update \/ update' = [update EXCEPT ![s] = None]
  BY DEF Register, Break, Close, AbandonUpdate
<1>3. HandlerType' /\ RowType'
  BY <1>1, <1>2 DEF HandlerType, RowType
<1>4. CASE Register(s) \/ Close(s)
  <2>1. /\ UNCHANGED <<update, faults>>
        /\ \A t \in Streams : conn[t] # "dead" => conn'[t] # "dead"
    BY <1>4 DEF Register, Close, RegistryInv, RegistryType
  <2>2. ToldInv'
    BY <1>1, <2>1, QuietKeepsTold
  <2>. QED  BY <1>1, <1>3, <2>1, <2>2 DEF HistoryType
<1>5. CASE Break(s)
  BY <1>1, <1>3, <1>5, FaultEndsPromise DEF Break, HistoryType
<1>6. CASE AbandonUpdate(s)
  <2>1. UNCHANGED faults /\ faults # 0
    BY <1>6 DEF AbandonUpdate, ToldInv
  <2>. QED  BY <1>1, <1>3, <2>1 DEF HistoryType, ToldInv
<1>. QED  BY <1>4, <1>5, <1>6

LEMMA JobsKeepReports ==
  ASSUME CallInv, ReportInv, NEW j \in Jobs, NEW status \in Status,
         (\E s \in Streams : StreamReport(j, s, status)) \/ PostReport(j, status)
  PROVE  ReportInv'
<1> USE DEF ReportInv, registry, reports
<1>1. /\ UNCHANGED <<conn, workload, told, drained, sent, faults>>
      /\ j[1] \in Workloads /\ j[2] \in Providers
  BY DEF StreamReport, PostReport, Jobs
<1>2. ASSUME NEW s \in Streams, StreamReport(j, s, status)
      PROVE  ReportInv'
  <2> DEFINE m == [w |-> j[1], p |-> j[2], status |-> status, pc |-> "status"]
  <2>1. /\ update[s] = None /\ update' = [update EXCEPT ![s] = m]
        /\ UNCHANGED posts
    BY <1>2 DEF StreamReport
  <2>2. m \in Report /\ m.pc = "status"
    BY <1>1 DEF Report
  <2> HIDE DEF m
  <2>3. HandlerType'
    BY <2>1, <2>2 DEF HandlerType
  <2>4. ToldInv'
    BY <1>1, <2>1, QuietKeepsTold DEF HandlerType
  <2>. QED  BY <1>1, <2>3, <2>4 DEF RowType, HistoryType
<1>3. ASSUME PostReport(j, status) PROVE ReportInv'
  <2>1. /\ posts' = posts \cup {[w |-> j[1], p |-> j[2], status |-> status,
                                 pc |-> "attempt"]}
        /\ UNCHANGED update
    BY <1>3 DEF PostReport
  <2>2. HandlerType'
    BY <2>1 DEF HandlerType
  <2>3. ToldInv'
    BY <1>1, <2>1, QuietKeepsTold
  <2>. QED  BY <1>1, <2>2, <2>3 DEF RowType, HistoryType
<1>. QED  BY <1>2, <1>3

LEMMA OtherPostsKeepReports ==
  ASSUME CallInv, ReportInv, NEW m \in posts, HandlePostAttempt(m) \/ DropPost(m)
  PROVE  ReportInv'
<1> USE DEF ReportInv, registry, reports
<1>1. UNCHANGED <<conn, workload, update, told, sent>> /\ m \in Report
  BY DEF HandlePostAttempt, DropPost, CallInv, CallType
<1>2. CASE HandlePostAttempt(m)
  <2>1. /\ m.pc = "attempt" /\ UNCHANGED faults
        /\ posts' = (posts \ {m}) \cup {[m EXCEPT !.pc = "status"]}
        /\ drained' = drained \cup {<<m.w, m.p>>}
    BY <1>2 DEF HandlePostAttempt
  <2>2. HandlerType'
    BY <1>1, <2>1 DEF HandlerType, Report
  <2>3. ToldInv'
    BY <1>1, <2>1, QuietKeepsTold
  <2>4. HistoryType'
    BY <1>1, <2>1 DEF HistoryType, Report, Attempts
  <2>. QED  BY <1>1, <2>2, <2>3, <2>4 DEF RowType
<1>3. CASE DropPost(m)
  <2>1. Fault /\ posts' = posts \ {m} /\ UNCHANGED drained
    BY <1>3 DEF DropPost
  <2>. QED
    BY <1>1, <2>1, FaultEndsPromise DEF HandlerType, RowType, HistoryType
<1>. QED  BY <1>2, <1>3

LEMMA OthersKeepReports ==
  ASSUME CallInv, ReportInv,
         \/ UNCHANGED vars
         \/ \E p \in Providers : DaemonRestart(p) \/ \E w \in Workloads : Poll(w, p)
  PROVE  ReportInv'
<1> USE DEF ReportInv, registry, reports
<1>1. UNCHANGED <<conn, workload, update, told, sent, drained>> /\ posts' \subseteq posts
  BY DEF vars, DaemonRestart, Poll
<1>2. UNCHANGED <<posts, faults>> \/ Fault
  BY DEF vars, DaemonRestart, Poll
<1>3. HandlerType' /\ RowType'
  BY <1>1 DEF HandlerType, RowType
<1>4. CASE UNCHANGED <<posts, faults>>
  <2>1. ToldInv'
    BY <1>1, <1>4, QuietKeepsTold
  <2>. QED  BY <1>1, <1>3, <1>4, <2>1 DEF HistoryType
<1>5. CASE Fault
  BY <1>1, <1>3, <1>5, FaultEndsPromise DEF HistoryType
<1>. QED  BY <1>2, <1>4, <1>5

THEOREM ReportInvariant == Spec => []ReportInv
<1>1. RegistryInv /\ CallInv /\ ReportInv /\ [Next]_vars => ReportInv'
  BY UpdateKeepsReports, PostKeepsReports, CallsKeepReports, RegistryKeepsReports,
     JobsKeepReports, OtherPostsKeepReports, OthersKeepReports
  DEF Next, HandlePosts
<1>. QED
  BY <1>1, ReportInit, RegistryInvariant, CallInvariant, PTL DEF Spec

\* Every variable of the registry, the store and the handlers keeps its type.
THEOREM DispatchTypes == Spec => []TypeOK
<1>1. RegistryInv /\ CallInv /\ ReportInv => TypeOK
  BY DEF RegistryInv, RegistryType, CallInv, CallType, Call, ReportInv,
         HandlerType, RowType, HistoryType, TypeOK
<1>. QED
  BY <1>1, RegistryInvariant, CallInvariant, ReportInvariant, PTL

\* Unless a stream broke or a post was dropped, a build whose result is stored
\* and about which nothing is being handled is one whose result the
\* build-gateway was told.
THEOREM ResultsForwarded == Spec => []ResultsAreForwarded
<1>1. ReportInv => ResultsAreForwarded
  <2> SUFFICES ASSUME ReportInv, faults = 0, NEW w \in Workloads,
                      workload[w].result # None, TypeOf[w] = Build, ~InFlight(w)
               PROVE  workload[w].result \in told[w]
    BY DEF ResultsAreForwarded
  <2>1. ~Forwarding(w)
    BY DEF Forwarding, InFlight
  <2>. QED  BY <2>1 DEF ReportInv, ToldInv
<1>. QED  BY <1>1, ReportInvariant, PTL
=============================================================================
