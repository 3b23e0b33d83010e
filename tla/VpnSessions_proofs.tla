------------------------- MODULE VpnSessions_proofs -------------------------
(***************************************************************************)
(* Proofs about vpn-svc's sessions: the types, and that a key rotation     *)
(* leaves no live session on an older key.                                 *)
(*                                                                         *)
(* RotationEndsSessions is not inductive: a registration stores the new    *)
(* key one statement after it ended the sessions of the old one.  What     *)
(* carries over is Purged, and Purged holds after the first statement      *)
(* because a provider with a session has a registered key (Placed).        *)
(***************************************************************************)
EXTENDS VpnSessions, TLAPS

Named(p) == pool[p].key # None

\* Whoever a session, a request or a failover names has registered a key.
Placed ==
  \A s \in Sessions :
    /\ Exists(s) => Named(session[s].primary) /\ Named(session[s].current)
    /\ asked[s] # None => ~Exists(s) /\ Named(asked[s].at)
    /\ moving[s] # None =>
         /\ Exists(s) /\ Named(moving[s].from) /\ Named(moving[s].to)
         /\ ~moving[s].written => session[s].failovers < MaxFailovers

\* A registered key is a key the provider's daemon has had.
Ranked ==
  \A p \in Providers :
    /\ pool[p].status # "unknown" => Named(p)
    /\ Named(p) => pool[p].key[1] = p /\ pool[p].key[2] <= daemon[p].key

Listed == \A p \in Providers : \A s \in daemon[p].list : Exists(s)

\* A live session that started on p and names an older key of it.
Old(p, s) ==
  /\ Live(s) /\ session[s].primary = p
  /\ session[s].bound # None /\ session[s].bound[1] = p
  /\ session[s].bound # KeyOf(p)

Purged ==
  \A p \in Providers :
    daemon[p].purged => daemon[p].up /\ \A s \in Sessions : ~Old(p, s)

Rotation ==
  \A p \in Providers :
    pool[p].key = KeyOf(p) => \A s \in Sessions : ~Old(p, s)

VpnInv == TypeOK /\ Placed /\ Ranked /\ Listed /\ Purged /\ Rotation

-----------------------------------------------------------------------------
(* Types.                                                                  *)

\* A row is a session, and a session that lives has a row.
LEMMA Rows ==
  ASSUME TypeOK, NEW s \in Sessions
  PROVE  /\ Exists(s) => session[s] \in Session
         /\ Live(s) => Exists(s)
         /\ Live(s) \in BOOLEAN
<1>1. CASE session[s] \in Session
  BY <1>1 DEF Session, Exists, Live, Absent
<1>2. CASE session[s] = Absent
  BY <1>2 DEF Exists, Live, Absent
<1>. QED  BY <1>1, <1>2 DEF TypeOK

LEMMA NewRowTyped ==
  ASSUME NEW p \in Providers, NEW k \in BOOLEAN
  PROVE  NewRow(p, k) \in Session
BY VpnAssumption DEF NewRow, Session

LEMMA KeyTyped ==
  ASSUME TypeOK, NEW p \in Providers, daemon[p].up
  PROVE  KeyOf(p) \in Key /\ KeyOf(p) # None
<1>1. daemon[p].key \in 1 .. MaxKeys
  BY DEF TypeOK, Daemon
<1>. QED  BY <1>1, VpnAssumption DEF KeyOf, Key

LEMMA PickTyped ==
  ASSUME TypeOK, NEW p \in Providers, CanPick(p)
  PROVE  Picked(p) \in [Providers -> Pool]
<1>1. pool[p] \in Pool /\ pool[p].picks + 1 \in 0 .. MaxPicks
  BY VpnAssumption DEF TypeOK, Pool, CanPick
<1>2. [key |-> pool[p].key, status |-> pool[p].status,
       recent |-> TRUE, picks |-> pool[p].picks + 1] \in Pool
  BY <1>1 DEF Pool
<1>. QED  BY <1>2 DEF TypeOK, Picked

LEMMA ReportTyped ==
  ASSUME TypeOK, NEW p \in Providers,
         NEW t \in {"healthy", "degraded", "offline"}
  PROVE  Reported(p, t) \in [Providers -> Pool]
<1>1. [key |-> pool[p].key, status |-> t,
       recent |-> TRUE, picks |-> pool[p].picks] \in Pool
  BY DEF TypeOK, Pool
<1>. QED  BY <1>1 DEF TypeOK, Reported

\* What the type invariant says of the daemons.
DaemonsTyped ==
  /\ daemon \in [Providers -> Daemon]
  /\ \A p \in Providers :
       IF daemon[p].up THEN daemon[p].key > 0 ELSE Idle(p)

LEMMA OneDaemon ==
  ASSUME TypeOK, NEW p \in Providers, NEW d \in Daemon,
         daemon' = [daemon EXCEPT ![p] = d],
         IF d.up THEN d.key > 0
                 ELSE d.calls = 0 /\ d.list = {} /\ d.peers = {}
  PROVE  DaemonsTyped'
BY DEF TypeOK, DaemonsTyped, Idle

LEMMA DownTyped ==
  ASSUME TypeOK, NEW p \in Providers, daemon' = Down(p)
  PROVE  DaemonsTyped'
<1>. DEFINE d == [up |-> FALSE, key |-> daemon[p].key, calls |-> 0,
                  purged |-> FALSE, peers |-> {}, list |-> {}]
<1>1. d \in Daemon
  BY DEF TypeOK, Daemon
<1>. QED  BY <1>1, OneDaemon DEF Down

LEMMA CallTyped ==
  ASSUME TypeOK, NEW p \in Providers, daemon[p].calls > 0,
         daemon' = CallMade(p)
  PROVE  DaemonsTyped'
<1>. DEFINE d == [up |-> daemon[p].up, key |-> daemon[p].key,
                  calls |-> daemon[p].calls - 1, purged |-> FALSE,
                  peers |-> daemon[p].peers, list |-> daemon[p].list]
<1>1. d \in Daemon
  BY DEF TypeOK, Daemon
<1>2. daemon[p].up /\ daemon[p].key > 0
  BY DEF TypeOK, Idle
<1>. QED  BY <1>1, <1>2, OneDaemon DEF CallMade

LEMMA PeerTyped ==
  ASSUME TypeOK, NEW p \in Providers, NEW s \in daemon[p].list,
         daemon' = PeerOf(p, s)
  PROVE  DaemonsTyped'
<1>. DEFINE d == [up |-> daemon[p].up, key |-> daemon[p].key,
                  calls |-> daemon[p].calls, purged |-> daemon[p].purged,
                  peers |-> daemon[p].peers \cup {s},
                  list |-> daemon[p].list \ {s}]
<1>1. d \in Daemon
  BY DEF TypeOK, Daemon
<1>2. daemon[p].up /\ daemon[p].key > 0
  BY DEF TypeOK, Idle
<1>. QED  BY <1>1, <1>2, OneDaemon DEF PeerOf

LEMMA CandidatesTyped == Candidates \subseteq Providers
BY DEF Candidates, LeastLoaded, Healthy, Fresh

\* A set of rows is ended.
LEMMA EndTyped ==
  ASSUME TypeOK, NEW S, \A s \in S \cap Sessions : Live(s),
         session' = [s \in Sessions |->
                       IF s \in S THEN [session[s] EXCEPT !.live = FALSE]
                                  ELSE session[s]]
  PROVE  session' \in [Sessions -> Session \cup {Absent}]
<1>1. ASSUME NEW s \in Sessions, s \in S
      PROVE  [session[s] EXCEPT !.live = FALSE] \in Session
  <2>1. session[s] \in Session
    BY <1>1, Rows
  <2>. QED  BY <2>1 DEF Session
<1>. QED  BY <1>1 DEF TypeOK

LEMMA SessionTypes ==
  ASSUME TypeOK, Placed, NEW s \in Sessions,
         \/ RequestSession(s) \/ BindCustomerWgKey(s)
         \/ RequestMobile(s) \/ LookupProvider(s) \/ CreateMobile(s)
         \/ Terminate(s) \/ Age(s)
         \/ Failover(s) \/ FailoverWrite(s) \/ FailoverDegrade(s)
  PROVE  TypeOK'
<1>0. Idle(s)' = Idle(s) /\ daemon' = daemon
  BY DEF RequestSession, BindCustomerWgKey, RequestMobile, LookupProvider,
         CreateMobile, Terminate, Age, Failover, FailoverWrite,
         FailoverDegrade, Idle
<1>a. \A p \in Providers : Idle(p)' = Idle(p)
  BY <1>0 DEF Idle
<1>1. CASE RequestSession(s)
  <2>1. PICK p \in Candidates :
          /\ CanPick(p)
          /\ pool' = Picked(p)
          /\ session' = [session EXCEPT ![s] = NewRow(p, FALSE)]
    BY <1>1 DEF RequestSession
  <2>2. NewRow(p, FALSE) \in Session /\ pool' \in [Providers -> Pool]
    BY <2>1, CandidatesTyped, NewRowTyped, PickTyped
  <2>. QED  BY <1>1, <1>0, <1>a, <2>1, <2>2 DEF TypeOK, RequestSession
<1>2. CASE BindCustomerWgKey(s)
  <2>1. session[s] \in Session
    BY <1>2, Rows DEF BindCustomerWgKey
  <2>2. [session[s] EXCEPT !.keyed = TRUE] \in Session
    BY <2>1 DEF Session
  <2>. QED  BY <1>2, <1>0, <1>a, <2>2 DEF TypeOK, BindCustomerWgKey
<1>3. CASE RequestMobile(s)
  <2>1. PICK p \in Candidates :
          /\ CanPick(p)
          /\ pool' = Picked(p)
          /\ asked' = [asked EXCEPT ![s] = [at |-> p, key |-> None]]
    BY <1>3 DEF RequestMobile
  <2>2. [at |-> p, key |-> None] \in Asked /\ pool' \in [Providers -> Pool]
    BY <2>1, CandidatesTyped, PickTyped DEF Asked
  <2>. QED  BY <1>3, <1>0, <1>a, <2>1, <2>2 DEF TypeOK, RequestMobile
<1>4. CASE LookupProvider(s)
  <2>1. asked[s] \in Asked
    BY <1>4 DEF TypeOK, LookupProvider
  <2>2. pool[asked[s].at].key \in Key \cup {None}
    BY <2>1 DEF TypeOK, Asked, Pool
  <2>3. [asked[s] EXCEPT !.key = pool[asked[s].at].key] \in Asked
    BY <2>1, <2>2 DEF Asked
  <2>4. asked' \in [Sessions -> Asked \cup {None}]
    BY <1>4, <2>3 DEF TypeOK, LookupProvider
  <2>. QED  BY <1>4, <1>0, <1>a, <2>4 DEF TypeOK, LookupProvider
<1>5. CASE CreateMobile(s)
  <2>1. asked[s] \in Asked
    BY <1>5 DEF TypeOK, CreateMobile
  <2>2. NewRow(asked[s].at, TRUE) \in Session
    BY <2>1, NewRowTyped DEF Asked
  <2>. QED  BY <1>5, <1>0, <1>a, <2>2 DEF TypeOK, CreateMobile
<1>6. CASE Terminate(s)
  <2>1. session[s] \in Session
    BY <1>6, Rows DEF Terminate
  <2>2. [session[s] EXCEPT !.live = FALSE] \in Session
    BY <2>1 DEF Session
  <2>. QED  BY <1>6, <1>0, <1>a, <2>2 DEF TypeOK, Terminate
<1>7. CASE Age(s)
  <2>1. session[s] \in Session
    BY <1>7, Rows DEF Age
  <2>2. [session[s] EXCEPT !.young = FALSE] \in Session
    BY <2>1 DEF Session
  <2>. QED  BY <1>7, <1>0, <1>a, <2>2 DEF TypeOK, Age
<1>8. CASE Failover(s)
  <2>1. PICK p \in Providers :
          /\ CanPick(p)
          /\ pool' = Picked(p)
          /\ moving' = [moving EXCEPT ![s] = [from |-> session[s].current,
                                              to |-> p, written |-> FALSE]]
    BY <1>8 DEF Failover, LeastLoaded, Healthy
  <2>2. session[s].current \in Providers
    BY <1>8, Rows DEF Failover, Session
  <2>3. [from |-> session[s].current, to |-> p, written |-> FALSE] \in Moving
    BY <2>2 DEF Moving
  <2>4. pool' \in [Providers -> Pool]
    BY <2>1, PickTyped
  <2>. QED  BY <1>8, <1>0, <1>a, <2>1, <2>3, <2>4 DEF TypeOK, Failover
<1>9. CASE FailoverWrite(s)
  <2>1. moving[s] \in Moving /\ session[s] \in Session
        /\ session[s].failovers < MaxFailovers
    BY <1>9, Rows DEF TypeOK, FailoverWrite, Placed
  <2>2. session[s].failovers + 1 \in 0 .. MaxFailovers
    BY <2>1, VpnAssumption DEF Session
  <2>3. Moved(session[s], moving[s].to) \in Session
    BY <2>1, <2>2 DEF Session, Moved, Moving
  <2>4. [moving[s] EXCEPT !.written = TRUE] \in Moving
    BY <2>1 DEF Moving
  <2>. QED  BY <1>9, <1>0, <1>a, <2>3, <2>4 DEF TypeOK, FailoverWrite
<1>10. CASE FailoverDegrade(s)
  <2>1. moving[s].from \in Providers
    BY <1>10 DEF TypeOK, FailoverDegrade, Moving
  <2>2. pool' \in [Providers -> Pool]
    BY <1>10, <2>1, ReportTyped DEF FailoverDegrade, TypeOK
  <2>. QED  BY <1>10, <1>0, <1>a, <2>2 DEF TypeOK, FailoverDegrade
<1>. QED  BY <1>1, <1>2, <1>3, <1>4, <1>5, <1>6, <1>7, <1>8, <1>9, <1>10

LEMMA ProviderTypes ==
  ASSUME TypeOK, Listed, NEW p \in Providers,
         \/ Start(p) \/ Crash(p) \/ Stop(p)
         \/ Invalidate(p) \/ Register(p) \/ RegisterFails(p)
         \/ Health(p) \/ Silence(p)
         \/ Reconcile(p) \/ Poll(p)
         \/ \E s \in daemon[p].list : BindSession(p, s) \/ BindFails(p, s)
  PROVE  TypeOK'
<1>0. TypeOK' <=>
        /\ session' \in [Sessions -> Session \cup {Absent}]
        /\ asked' \in [Sessions -> Asked \cup {None}]
        /\ moving' \in [Sessions -> Moving \cup {None}]
        /\ pool' \in [Providers -> Pool]
        /\ DaemonsTyped'
        /\ starts' \in 0 .. MaxStarts
        /\ losses' \in 0 .. MaxLosses
  BY DEF TypeOK, DaemonsTyped
<1>a. daemon[p] \in Daemon
  BY DEF TypeOK
<1>b. (daemon[p].up => daemon[p].key > 0) /\ (~daemon[p].up => Idle(p))
  BY DEF TypeOK
<1>1. CASE Start(p)
  <2>1. PICK k \in {daemon[p].key, daemon[p].key + 1} \cap (1 .. MaxKeys) :
          daemon' = [daemon EXCEPT ![p] =
                       [up |-> TRUE, key |-> k, calls |-> 2, purged |-> FALSE,
                        peers |-> {}, list |-> {}]]
    BY <1>1 DEF Start
  <2>. DEFINE d == [up |-> TRUE, key |-> k, calls |-> 2, purged |-> FALSE,
                    peers |-> {}, list |-> {}]
  <2>2. d \in Daemon /\ d.up /\ d.key > 0
    BY VpnAssumption DEF Daemon
  <2>3. DaemonsTyped'
    <3>1. daemon' = [daemon EXCEPT ![p] = d]
      BY <2>1
    <3>. HIDE DEF d
    <3>. QED  BY <2>2, <3>1, OneDaemon
  <2>4. starts' \in 0 .. MaxStarts
    BY <1>1, VpnAssumption DEF Start, TypeOK
  <2>. QED  BY <1>1, <1>0, <2>3, <2>4 DEF TypeOK, Start
<1>2. CASE Crash(p)
  BY <1>2, <1>0, DownTyped DEF Crash, TypeOK
<1>3. CASE Stop(p)
  <2>1. pool' \in [Providers -> Pool]
    BY <1>3, ReportTyped DEF Stop, TypeOK
  <2>. QED  BY <1>3, <1>0, <2>1, DownTyped DEF Stop, TypeOK
<1>4. CASE Invalidate(p)
  <2>2. DaemonsTyped'
    <3>1. daemon[p].up /\ daemon[p].key > 0
      BY <1>4, <1>a, <1>b DEF Invalidate, Idle, Daemon
    <3>. DEFINE d == [daemon[p] EXCEPT !.purged = TRUE]
    <3>2. d \in Daemon /\ d.up /\ d.key > 0
      BY <3>1, <1>a DEF Daemon
    <3>3. daemon' = [daemon EXCEPT ![p] = d]
      BY <1>4 DEF Invalidate
    <3>. HIDE DEF d
    <3>. QED  BY <3>2, <3>3, OneDaemon
  <2>3. session' \in [Sessions -> Session \cup {Absent}]
    <3>. DEFINE S == IF pool[p].key \notin {None, KeyOf(p)}
                       THEN Rotated(p) ELSE {}
    <3>1. session' = [s \in Sessions |->
                        IF s \in S THEN [session[s] EXCEPT !.live = FALSE]
                                   ELSE session[s]]
      BY <1>4 DEF Invalidate
    <3>2. \A s \in S \cap Sessions : Live(s)
      BY DEF Rotated
    <3>. QED  BY <3>1, <3>2, EndTyped
  <2>. QED  BY <1>4, <1>0, <2>2, <2>3 DEF TypeOK, Invalidate
<1>5. CASE Register(p)
  <2>1. daemon[p].up
    BY <1>5, <1>a, <1>b DEF Register, Idle, Daemon
  <2>2. [key |-> KeyOf(p), status |-> "healthy", recent |-> TRUE,
         picks |-> pool[p].picks] \in Pool
    BY <2>1, KeyTyped DEF TypeOK, Pool
  <2>3. pool' \in [Providers -> Pool]
    BY <1>5, <2>2 DEF Register, TypeOK
  <2>4. DaemonsTyped'
    BY <1>5, CallTyped DEF Register
  <2>. QED  BY <1>5, <1>0, <2>3, <2>4 DEF TypeOK, Register
<1>6. CASE RegisterFails(p)
  <2>1. losses' \in 0 .. MaxLosses
    BY <1>6, VpnAssumption DEF RegisterFails, TypeOK
  <2>. QED  BY <1>6, <1>0, <2>1, CallTyped DEF TypeOK, RegisterFails
<1>7. CASE Health(p)
  <2>1. pool' \in [Providers -> Pool]
    BY <1>7, ReportTyped DEF Health
  <2>. QED  BY <1>7, <1>0, <2>1 DEF TypeOK, Health, DaemonsTyped, Idle
<1>8. CASE Silence(p)
  <2>1. [pool[p] EXCEPT !.recent = FALSE] \in Pool
    BY DEF TypeOK, Pool
  <2>. QED  BY <1>8, <1>0, <2>1 DEF TypeOK, Silence, DaemonsTyped, Idle
<1>9. CASE Reconcile(p)
  <2>1. [daemon[p] EXCEPT !.peers = @ \cup Bound(p)] \in Daemon
    BY <1>a DEF Daemon, Bound
  <2>2. DaemonsTyped'
    BY <1>9, <1>a, <1>b, <2>1, OneDaemon DEF Reconcile, Binding, Daemon
  <2>. QED  BY <1>9, <1>0, <2>2 DEF TypeOK, Reconcile
<1>10. CASE Poll(p)
  <2>1. [daemon[p] EXCEPT !.list = Assigned(p)] \in Daemon
    BY <1>a DEF Daemon, Assigned, Bound
  <2>2. DaemonsTyped'
    BY <1>10, <1>a, <1>b, <2>1, OneDaemon DEF Poll, Binding, Daemon
  <2>. QED  BY <1>10, <1>0, <2>2 DEF TypeOK, Poll
<1>11. ASSUME NEW s \in daemon[p].list, BindSession(p, s) PROVE TypeOK'
  <2>1. s \in Sessions /\ daemon[p].up
    BY <1>a, <1>b DEF Daemon, Idle
  <2>2. session[s] \in Session
    BY <2>1, Rows DEF Listed
  <2>3. [session[s] EXCEPT !.bound = KeyOf(p)] \in Session
    BY <2>1, <2>2, KeyTyped DEF Session
  <2>4. session' \in [Sessions -> Session \cup {Absent}]
    BY <1>11, <2>1, <2>3 DEF BindSession, TypeOK
  <2>5. DaemonsTyped'
    BY <1>11, PeerTyped DEF BindSession
  <2>. QED  BY <1>11, <1>0, <2>4, <2>5 DEF TypeOK, BindSession
<1>12. ASSUME NEW s \in daemon[p].list, BindFails(p, s) PROVE TypeOK'
  <2>1. DaemonsTyped'
    BY <1>12, PeerTyped DEF BindFails
  <2>2. losses' \in 0 .. MaxLosses
    BY <1>12, VpnAssumption DEF BindFails, TypeOK
  <2>. QED  BY <1>12, <1>0, <2>1, <2>2 DEF TypeOK, BindFails
<1>. QED  BY <1>1, <1>2, <1>3, <1>4, <1>5, <1>6, <1>7, <1>8, <1>9, <1>10,
             <1>11, <1>12

LEMMA TypeStep ==
  ASSUME TypeOK, Placed, Listed, [Next]_vars
  PROVE  TypeOK'
<1>1. ASSUME NEW c \in Customers, TerminateAll(c) PROVE TypeOK'
  <2>. DEFINE S == {s \in Sessions : Owner[s] = c /\ Live(s)}
  <2>1. session' = [s \in Sessions |->
                      IF s \in S THEN [session[s] EXCEPT !.live = FALSE]
                                 ELSE session[s]]
    BY <1>1 DEF TerminateAll
  <2>2. session' \in [Sessions -> Session \cup {Absent}]
    BY <2>1, EndTyped
  <2>. QED  BY <1>1, <2>2 DEF TerminateAll, TypeOK, Idle
<1>2. CASE UNCHANGED vars
  BY <1>2 DEF vars, TypeOK, Idle
<1>. QED  BY <1>1, <1>2, SessionTypes, ProviderTypes DEF Next

-----------------------------------------------------------------------------
(* How a step moves the rows of sessions, of providers and the daemons.    *)

LEMMA AbsentIsNoRow == Absent \notin Session
<1>1. DOMAIN Absent = {"live"}
  BY DEF Absent
<1>2. \A r \in Session : "primary" \in DOMAIN r
  BY DEF Session
<1>. QED  BY <1>1, <1>2

\* An update of a row that was there.
Kept(s) ==
  /\ Exists(s) /\ Exists(s)'
  /\ session'[s].primary = session[s].primary
  /\ Live(s)' => Live(s)
  /\ \/ session'[s].current = session[s].current
     \/ moving[s] # None /\ session'[s].current = moving[s].to
  /\ session'[s].failovers = session[s].failovers \/ FailoverWrite(s)
  /\ \/ session'[s].bound = session[s].bound
     \/ \E p \in Providers :
          /\ session'[s].bound = KeyOf(p)
          /\ daemon'[p].key = daemon[p].key

Created(s) ==
  \E p \in Providers : \E k \in BOOLEAN :
    /\ ~Exists(s) /\ Named(p)
    /\ session'[s] = NewRow(p, k) /\ asked'[s] = None

LEMMA EndKeeps ==
  ASSUME TypeOK, NEW s \in Sessions, Live(s),
         session'[s] = [session[s] EXCEPT !.live = FALSE]
  PROVE  Kept(s)
<1>1. session[s] \in Session
  BY Rows
<1>2. session'[s] \in Session
  BY <1>1 DEF Session
<1>3. Exists(s) /\ Exists(s)'
  BY <1>1, <1>2, AbsentIsNoRow DEF Exists
<1>4. /\ session'[s].primary = session[s].primary
      /\ session'[s].current = session[s].current
      /\ session'[s].failovers = session[s].failovers
      /\ session'[s].bound = session[s].bound
      /\ ~Live(s)'
  BY <1>1 DEF Session, Live
<1>. QED  BY <1>3, <1>4 DEF Kept

LEMMA HealthyAreNamed ==
  ASSUME TypeOK, Ranked, NEW p \in Healthy
  PROVE  p \in Providers /\ Named(p)
BY DEF Healthy, Ranked

LEMMA CandidatesAreNamed ==
  ASSUME TypeOK, Ranked, NEW p \in Candidates
  PROVE  p \in Providers /\ Named(p)
<1>1. p \in Healthy
  BY DEF Candidates, LeastLoaded, Fresh
<1>. QED  BY <1>1, HealthyAreNamed

LEMMA RowMoves ==
  ASSUME TypeOK, Placed, Ranked, Listed, [Next]_vars, NEW s \in Sessions
  PROVE  session'[s] = session[s] \/ Created(s) \/ Kept(s)
<1>0. ASSUME session' = session PROVE session'[s] = session[s]
  BY <1>0
<1>1. ASSUME NEW t \in Sessions, RequestSession(t)
      PROVE  session'[s] = session[s] \/ Created(s)
  <2>1. PICK p \in Candidates :
          session' = [session EXCEPT ![t] = NewRow(p, FALSE)]
    BY <1>1 DEF RequestSession
  <2>2. p \in Providers /\ Named(p)
    BY <2>1, CandidatesAreNamed
  <2>. QED  BY <1>1, <2>1, <2>2 DEF RequestSession, Created, TypeOK
<1>2. ASSUME NEW t \in Sessions, CreateMobile(t)
      PROVE  session'[s] = session[s] \/ Created(s)
  <2>1. ~Exists(t) /\ asked[t].at \in Providers /\ Named(asked[t].at)
    BY <1>2 DEF CreateMobile, TypeOK, Asked, Placed
  <2>. QED  BY <1>2, <2>1 DEF CreateMobile, Created, TypeOK
<1>3. ASSUME NEW t \in Sessions, BindCustomerWgKey(t)
      PROVE  session'[s] = session[s] \/ Kept(s)
  <2>1. session[t] \in Session /\ Exists(t)
    BY <1>3, Rows DEF BindCustomerWgKey
  <2>2. session'[t] = [session[t] EXCEPT !.keyed = TRUE]
    BY <1>3 DEF BindCustomerWgKey, TypeOK
  <2>3. session'[t] \in Session
    BY <2>1, <2>2 DEF Session
  <2>4. /\ session'[t].primary = session[t].primary
        /\ session'[t].current = session[t].current
        /\ session'[t].failovers = session[t].failovers
        /\ session'[t].bound = session[t].bound
        /\ session'[t].live = session[t].live
    BY <2>1, <2>2 DEF Session
  <2>5. Kept(t)
    BY <2>1, <2>3, <2>4, AbsentIsNoRow DEF Kept, Exists, Live
  <2>. QED  BY <1>3, <2>5 DEF BindCustomerWgKey, TypeOK
<1>4. ASSUME NEW t \in Sessions, Age(t)
      PROVE  session'[s] = session[s] \/ Kept(s)
  <2>1. session[t] \in Session /\ Exists(t)
    BY <1>4, Rows DEF Age
  <2>2. session'[t] = [session[t] EXCEPT !.young = FALSE]
    BY <1>4 DEF Age, TypeOK
  <2>3. session'[t] \in Session
    BY <2>1, <2>2 DEF Session
  <2>4. /\ session'[t].primary = session[t].primary
        /\ session'[t].current = session[t].current
        /\ session'[t].failovers = session[t].failovers
        /\ session'[t].bound = session[t].bound
        /\ session'[t].live = session[t].live
    BY <2>1, <2>2 DEF Session
  <2>5. Kept(t)
    BY <2>1, <2>3, <2>4, AbsentIsNoRow DEF Kept, Exists, Live
  <2>. QED  BY <1>4, <2>5 DEF Age, TypeOK
<1>5. ASSUME NEW t \in Sessions, Terminate(t)
      PROVE  session'[s] = session[s] \/ Kept(s)
  <2>1. session'[t] = [session[t] EXCEPT !.live = FALSE] /\ Live(t)
    BY <1>5 DEF Terminate, TypeOK
  <2>2. Kept(t)
    BY <2>1, EndKeeps
  <2>. QED  BY <1>5, <2>2 DEF Terminate, TypeOK
<1>6. ASSUME NEW c \in Customers, TerminateAll(c)
      PROVE  session'[s] = session[s] \/ Kept(s)
  <2>1. session'[s] = IF Owner[s] = c /\ Live(s)
                        THEN [session[s] EXCEPT !.live = FALSE]
                        ELSE session[s]
    BY <1>6 DEF TerminateAll
  <2>. QED  BY <2>1, EndKeeps
<1>7. ASSUME NEW p \in Providers, Invalidate(p)
      PROVE  session'[s] = session[s] \/ Kept(s)
  <2>1. session'[s] = IF pool[p].key \notin {None, KeyOf(p)} /\ s \in Rotated(p)
                        THEN [session[s] EXCEPT !.live = FALSE]
                        ELSE session[s]
    BY <1>7 DEF Invalidate
  <2>2. s \in Rotated(p) => Live(s)
    BY DEF Rotated
  <2>. QED  BY <2>1, <2>2, EndKeeps
<1>8. ASSUME NEW t \in Sessions, FailoverWrite(t)
      PROVE  session'[s] = session[s] \/ Kept(s)
  <2>1. session[t] \in Session /\ Exists(t) /\ moving[t] # None
    BY <1>8, Rows DEF FailoverWrite, Placed
  <2>2. session'[t] = Moved(session[t], moving[t].to)
    BY <1>8 DEF FailoverWrite, TypeOK
  <2>3. /\ session'[t].primary = session[t].primary
        /\ session'[t].current = moving[t].to
        /\ session'[t].bound = session[t].bound
        /\ session'[t].live = session[t].live
    BY <2>2 DEF Moved
  <2>4. Exists(t)'
    <3>1. DOMAIN Absent = {"live"}
      BY DEF Absent
    <3>2. "primary" \in DOMAIN session'[t]
      BY <2>2 DEF Moved
    <3>. QED  BY <3>1, <3>2 DEF Exists, Absent
  <2>5. Kept(t)
    BY <1>8, <2>1, <2>3, <2>4 DEF Kept, Live
  <2>. QED  BY <1>8, <2>5 DEF FailoverWrite, TypeOK
<1>9. ASSUME NEW p \in Providers, NEW t \in daemon[p].list, BindSession(p, t)
      PROVE  session'[s] = session[s] \/ Kept(s)
  <2>1. t \in Sessions /\ session[t] \in Session /\ Exists(t)
    BY Rows DEF Listed, TypeOK, Daemon
  <2>2. session'[t] = [session[t] EXCEPT !.bound = KeyOf(p)]
    BY <1>9, <2>1 DEF BindSession, TypeOK
  <2>3. /\ session'[t].primary = session[t].primary
        /\ session'[t].current = session[t].current
        /\ session'[t].failovers = session[t].failovers
        /\ session'[t].bound = KeyOf(p)
        /\ session'[t].live = session[t].live
    BY <2>1, <2>2 DEF Session
  <2>4. Exists(t)'
    <3>1. DOMAIN Absent = {"live"}
      BY DEF Absent
    <3>2. "primary" \in DOMAIN session'[t]
      BY <2>1, <2>2 DEF Session
    <3>. QED  BY <3>1, <3>2 DEF Exists, Absent
  <2>5. daemon'[p].key = daemon[p].key
    BY <1>9 DEF BindSession, PeerOf, TypeOK
  <2>6. Kept(t)
    BY <2>1, <2>3, <2>4, <2>5 DEF Kept, Live
  <2>. QED  BY <1>9, <2>1, <2>6 DEF BindSession, TypeOK
<1>10. session' = session \/
       \/ \E t \in Sessions :
            \/ RequestSession(t) \/ CreateMobile(t) \/ BindCustomerWgKey(t)
            \/ Age(t) \/ Terminate(t) \/ FailoverWrite(t)
       \/ \E c \in Customers : TerminateAll(c)
       \/ \E p \in Providers :
            Invalidate(p) \/ \E t \in daemon[p].list : BindSession(p, t)
  BY DEF Next, vars, RequestMobile, LookupProvider, Failover, FailoverDegrade,
         Start, Crash, Stop, Register, RegisterFails, Health, Silence,
         Reconcile, Poll, BindFails
<1>. QED  BY <1>0, <1>1, <1>2, <1>3, <1>4, <1>5, <1>6, <1>7, <1>8, <1>9, <1>10

\* A registered key is replaced by a registration only, and a status is
\* reported of registered providers only.
LEMMA PoolMoves ==
  ASSUME TypeOK, Placed, Ranked, [Next]_vars, NEW q \in Providers
  PROVE  \/ /\ pool'[q].key = pool[q].key
            /\ pool'[q].status = pool[q].status \/ Named(q)
         \/ Register(q) /\ pool'[q].key = KeyOf(q)
<1>. DEFINE Same == /\ pool'[q].key = pool[q].key
                    /\ pool'[q].status = pool[q].status \/ Named(q)
<1>1. ASSUME pool' = pool PROVE Same
  BY <1>1
<1>2. ASSUME NEW p \in Providers, pool' = Picked(p) PROVE Same
  BY <1>2 DEF Picked, TypeOK
<1>3. ASSUME NEW p \in Providers, NEW t, Named(p), pool' = Reported(p, t)
      PROVE  Same
  BY <1>3 DEF Reported, TypeOK
<1>4. ASSUME NEW s \in Sessions, RequestSession(s) \/ RequestMobile(s)
                                 \/ Failover(s)
      PROVE  Same
  <2>1. \E p \in Providers : pool' = Picked(p)
    BY <1>4, CandidatesTyped
    DEF RequestSession, RequestMobile, Failover, LeastLoaded, Healthy
  <2>. QED  BY <2>1, <1>2
<1>5. ASSUME NEW s \in Sessions, FailoverDegrade(s) PROVE Same
  <2>1. moving[s].from \in Providers /\ Named(moving[s].from)
    BY <1>5 DEF FailoverDegrade, Placed, TypeOK, Moving
  <2>2. pool' = pool \/ pool' = Reported(moving[s].from, "degraded")
    BY <1>5 DEF FailoverDegrade
  <2>. QED  BY <2>1, <2>2, <1>1, <1>3
<1>6. ASSUME NEW p \in Providers, Stop(p) \/ Health(p) PROVE Same
  <2>1. pool' = pool \/ \E t \in {"healthy", "offline"} :
                          Named(p) /\ pool' = Reported(p, t)
    BY <1>6 DEF Stop, Health, Ranked
  <2>. QED  BY <2>1, <1>1, <1>3
<1>7. ASSUME NEW p \in Providers, Silence(p) PROVE Same
  BY <1>7 DEF Silence, TypeOK, Pool
<1>8. ASSUME NEW p \in Providers, Register(p)
      PROVE  Same \/ (Register(q) /\ pool'[q].key = KeyOf(q))
  BY <1>8 DEF Register, TypeOK
<1>9. \/ pool' = pool
      \/ \E s \in Sessions :
           \/ RequestSession(s) \/ RequestMobile(s) \/ Failover(s)
           \/ FailoverDegrade(s)
      \/ \E p \in Providers : Stop(p) \/ Health(p) \/ Silence(p) \/ Register(p)
  BY DEF Next, vars, BindCustomerWgKey, LookupProvider, CreateMobile,
         Terminate, Age, FailoverWrite, TerminateAll, Start, Crash,
         Invalidate, RegisterFails, Reconcile, Poll, BindSession, BindFails
<1>. HIDE DEF Same
<1>10. Same \/ (Register(q) /\ pool'[q].key = KeyOf(q))
  BY <1>1, <1>4, <1>5, <1>6, <1>7, <1>8, <1>9
<1>. QED  BY <1>10 DEF Same

\* A daemon's key changes when it starts; a change of it is looked for by
\* Invalidate, and noted until the registration ends.
LEMMA DaemonMoves ==
  ASSUME TypeOK, [Next]_vars, NEW q \in Providers
  PROVE  \/ /\ daemon'[q].key = daemon[q].key
            /\ \/ ~daemon'[q].purged
               \/ daemon[q].purged /\ daemon'[q].up = daemon[q].up
               \/ Invalidate(q) /\ daemon'[q].up = daemon[q].up
            /\ daemon'[q].list \subseteq daemon[q].list \cup Assigned(q)
         \/ /\ Start(q) /\ ~daemon'[q].purged /\ daemon'[q].list = {}
            /\ daemon'[q].key \in {daemon[q].key, daemon[q].key + 1}
<1>. DEFINE Same == /\ daemon'[q].key = daemon[q].key
                    /\ \/ ~daemon'[q].purged
                       \/ daemon[q].purged /\ daemon'[q].up = daemon[q].up
                       \/ Invalidate(q) /\ daemon'[q].up = daemon[q].up
                    /\ daemon'[q].list \subseteq daemon[q].list \cup Assigned(q)
            Begun == /\ Start(q) /\ ~daemon'[q].purged /\ daemon'[q].list = {}
                     /\ daemon'[q].key \in {daemon[q].key, daemon[q].key + 1}
<1>0. daemon[q] \in Daemon
  BY DEF TypeOK
<1>1. CASE daemon' = daemon
  BY <1>1, <1>0 DEF Daemon
<1>2. ASSUME NEW p \in Providers, daemon' = Down(p) PROVE Same
  BY <1>2, <1>0 DEF Down, TypeOK, Daemon
<1>3. ASSUME NEW p \in Providers, daemon' = CallMade(p) PROVE Same
  BY <1>3, <1>0 DEF CallMade, TypeOK, Daemon
<1>4. ASSUME NEW p \in Providers, NEW s, daemon' = PeerOf(p, s) PROVE Same
  BY <1>4, <1>0 DEF PeerOf, TypeOK, Daemon
<1>5. ASSUME NEW p \in Providers, Start(p) PROVE Same \/ Begun
  <2>1. CASE p = q
    <3>1. PICK k \in {daemon[q].key, daemon[q].key + 1} \cap (1 .. MaxKeys) :
            daemon' = [daemon EXCEPT ![q] =
                         [up |-> TRUE, key |-> k, calls |-> 2,
                          purged |-> FALSE, peers |-> {}, list |-> {}]]
      BY <1>5, <2>1 DEF Start
    <3>2. daemon'[q] = [up |-> TRUE, key |-> k, calls |-> 2,
                        purged |-> FALSE, peers |-> {}, list |-> {}]
      BY <3>1 DEF TypeOK
    <3>. QED  BY <1>5, <2>1, <3>2
  <2>2. CASE p # q
    <3>1. daemon'[q] = daemon[q]
      BY <1>5, <2>2 DEF Start, TypeOK
    <3>. QED  BY <3>1, <1>0 DEF Daemon
  <2>. QED  BY <2>1, <2>2
<1>6. ASSUME NEW p \in Providers, Invalidate(p) PROVE Same
  BY <1>6, <1>0 DEF Invalidate, TypeOK, Daemon
<1>7. ASSUME NEW p \in Providers, Reconcile(p) PROVE Same
  BY <1>7, <1>0 DEF Reconcile, TypeOK, Daemon
<1>8. ASSUME NEW p \in Providers, Poll(p) PROVE Same
  BY <1>8, <1>0 DEF Poll, TypeOK, Daemon
<1>9. \/ daemon' = daemon
      \/ \E p \in Providers :
           \/ Start(p) \/ Invalidate(p) \/ Reconcile(p) \/ Poll(p)
           \/ daemon' = Down(p) \/ daemon' = CallMade(p)
           \/ \E s \in daemon[p].list : daemon' = PeerOf(p, s)
  BY DEF Next, vars, RequestSession, BindCustomerWgKey, RequestMobile,
         LookupProvider, CreateMobile, Terminate, TerminateAll, Age, Failover,
         FailoverWrite, FailoverDegrade, Crash, Stop, Register, RegisterFails,
         Health, Silence, BindSession, BindFails
<1>. HIDE DEF Same, Begun
<1>10. ASSUME daemon' # daemon PROVE Same \/ Begun
  BY <1>2, <1>3, <1>4, <1>5, <1>6, <1>7, <1>8, <1>9, <1>10
<1>11. Same \/ Begun
  <2>1. daemon' = daemon => Same
    BY <1>0 DEF Same, Daemon
  <2>. QED  BY <2>1, <1>10
<1>. QED  BY <1>11 DEF Same, Begun

\* A provider that has a registered key keeps having one.
LEMMA NamedSticks ==
  ASSUME VpnInv, [Next]_vars, NEW q \in Providers, Named(q)
  PROVE  pool'[q].key # None
<1>1. CASE pool'[q].key = pool[q].key
  BY <1>1 DEF Named
<1>2. CASE Register(q) /\ pool'[q].key = KeyOf(q)
  <2>1. daemon[q].up
    BY <1>2 DEF Register, VpnInv, TypeOK, Idle, Daemon
  <2>. QED  BY <1>2, <2>1, KeyTyped DEF Named, VpnInv
<1>. QED  BY <1>1, <1>2, PoolMoves DEF VpnInv

LEMMA AskedMoves ==
  ASSUME TypeOK, Ranked, [Next]_vars, NEW s \in Sessions, asked'[s] # None
  PROVE  \/ asked[s] # None /\ asked'[s].at = asked[s].at
         \/ ~Exists(s) /\ session'[s] = session[s] /\ Named(asked'[s].at)
<1>. DEFINE Goal == \/ asked[s] # None /\ asked'[s].at = asked[s].at
                    \/ /\ ~Exists(s) /\ session'[s] = session[s]
                       /\ Named(asked'[s].at)
<1>1. ASSUME NEW t \in Sessions, RequestMobile(t) PROVE Goal
  <2>1. PICK p \in Candidates :
          asked' = [asked EXCEPT ![t] = [at |-> p, key |-> None]]
    BY <1>1 DEF RequestMobile
  <2>2. Named(p)
    BY <2>1, CandidatesAreNamed
  <2>. QED  BY <1>1, <2>1, <2>2 DEF RequestMobile, TypeOK
<1>2. ASSUME NEW t \in Sessions, LookupProvider(t) PROVE Goal
  <2>1. CASE t = s
    <3>1. asked[s] \in Asked
      BY <1>2, <2>1 DEF LookupProvider, TypeOK
    <3>2. asked'[s] = [asked[s] EXCEPT !.key = pool[asked[s].at].key]
      BY <1>2, <2>1 DEF LookupProvider, TypeOK
    <3>3. asked'[s].at = asked[s].at
      BY <3>1, <3>2 DEF Asked
    <3>. QED  BY <1>2, <2>1, <3>3 DEF LookupProvider
  <2>2. CASE t # s
    <3>1. asked'[s] = asked[s]
      BY <1>2, <2>2 DEF LookupProvider, TypeOK
    <3>. QED  BY <3>1
  <2>. QED  BY <2>1, <2>2
<1>3. ASSUME NEW t \in Sessions, CreateMobile(t) PROVE Goal
  BY <1>3 DEF CreateMobile, TypeOK
<1>4. ASSUME asked' = asked PROVE Goal
  BY <1>4
<1>. HIDE DEF Goal
<1>5. Goal
  BY <1>1, <1>2, <1>3, <1>4
  DEF Next, vars, RequestSession, BindCustomerWgKey, Terminate, TerminateAll,
      Age, Failover, FailoverWrite, FailoverDegrade, Start, Crash, Stop,
      Invalidate, Register, RegisterFails, Health, Silence, Reconcile, Poll,
      BindSession, BindFails
<1>. QED  BY <1>5 DEF Goal

LEMMA MovingMoves ==
  ASSUME TypeOK, Ranked, [Next]_vars, NEW s \in Sessions, moving'[s] # None
  PROVE  \/ moving[s] # None /\ moving'[s] = moving[s] /\ ~FailoverWrite(s)
         \/ /\ moving[s] # None /\ moving'[s].from = moving[s].from
            /\ moving'[s].to = moving[s].to /\ moving'[s].written
         \/ /\ Failover(s) /\ moving'[s].from = session[s].current
            /\ moving'[s].to \in Providers /\ Named(moving'[s].to)
<1>. DEFINE Goal ==
       \/ moving[s] # None /\ moving'[s] = moving[s] /\ ~FailoverWrite(s)
       \/ /\ moving[s] # None /\ moving'[s].from = moving[s].from
          /\ moving'[s].to = moving[s].to /\ moving'[s].written
       \/ /\ Failover(s) /\ moving'[s].from = session[s].current
          /\ moving'[s].to \in Providers /\ Named(moving'[s].to)
<1>0. FailoverWrite(s) => moving'[s].written
  BY DEF FailoverWrite, TypeOK, Moving
<1>1. ASSUME NEW t \in Sessions, Failover(t) PROVE Goal
  <2>1. PICK p \in Healthy :
          moving' = [moving EXCEPT ![t] = [from |-> session[t].current,
                                           to |-> p, written |-> FALSE]]
    BY <1>1 DEF Failover, LeastLoaded
  <2>2. p \in Providers /\ Named(p)
    BY <2>1, HealthyAreNamed
  <2>3. moving'[s] = moving[s] => ~FailoverWrite(s)
    BY <1>0 DEF FailoverWrite
  <2>. QED  BY <1>1, <2>1, <2>2, <2>3 DEF TypeOK
<1>2. ASSUME NEW t \in Sessions, FailoverWrite(t) PROVE Goal
  <2>1. CASE t = s
    <3>1. moving[s] \in Moving
      BY <1>2, <2>1 DEF FailoverWrite, TypeOK
    <3>2. moving'[s] = [moving[s] EXCEPT !.written = TRUE]
      BY <1>2, <2>1 DEF FailoverWrite, TypeOK
    <3>3. moving'[s].from = moving[s].from /\ moving'[s].to = moving[s].to
          /\ moving'[s].written
      BY <3>1, <3>2 DEF Moving
    <3>. QED  BY <1>2, <2>1, <3>3 DEF FailoverWrite
  <2>2. CASE t # s
    <3>1. moving'[s] = moving[s]
      BY <1>2, <2>2 DEF FailoverWrite, TypeOK
    <3>2. ~FailoverWrite(s)
      <4>1. ASSUME FailoverWrite(s) PROVE FALSE
        <5>1. moving[s] \in Moving /\ ~moving[s].written /\ moving'[s].written
          BY <4>1, <1>0 DEF FailoverWrite, TypeOK
        <5>. QED  BY <5>1, <3>1
      <4>. QED  BY <4>1
    <3>. QED  BY <3>1, <3>2
  <2>. QED  BY <2>1, <2>2
<1>3. ASSUME NEW t \in Sessions, FailoverDegrade(t) PROVE Goal
  <2>1. moving[s] # None /\ moving'[s] = moving[s]
    BY <1>3 DEF FailoverDegrade, TypeOK
  <2>2. ~FailoverWrite(s)
    BY <2>1, <1>0 DEF FailoverWrite
  <2>. QED  BY <2>1, <2>2
<1>4. ASSUME moving' = moving PROVE Goal
  <2>1. ~FailoverWrite(s)
    BY <1>4, <1>0 DEF FailoverWrite
  <2>. QED  BY <1>4, <2>1
<1>. HIDE DEF Goal
<1>5. Goal
  BY <1>1, <1>2, <1>3, <1>4
  DEF Next, vars, RequestSession, RequestMobile, LookupProvider, CreateMobile,
      BindCustomerWgKey, Terminate, TerminateAll, Age, Start, Crash, Stop,
      Invalidate, Register, RegisterFails, Health, Silence, Reconcile, Poll,
      BindSession, BindFails
<1>. QED  BY <1>5 DEF Goal

LEMMA PlacedStep ==
  ASSUME VpnInv, [Next]_vars
  PROVE  Placed'
<1>0. TypeOK /\ Placed /\ Ranked /\ Listed
  BY DEF VpnInv
<1>1. ASSUME NEW s \in Sessions, Exists(s)'
      PROVE  /\ pool'[session'[s].primary].key # None
             /\ pool'[session'[s].current].key # None
  <2>1. CASE session'[s] = session[s]
    <3>1. /\ Exists(s) /\ session[s] \in Session
          /\ Named(session[s].primary) /\ Named(session[s].current)
      BY <1>0, <1>1, <2>1, Rows DEF Exists, Placed
    <3>. QED  BY <2>1, <3>1, NamedSticks DEF Session
  <2>2. CASE Created(s)
    <3>1. PICK p \in Providers : \E k \in BOOLEAN :
            Named(p) /\ session'[s] = NewRow(p, k)
      BY <2>2 DEF Created
    <3>. QED  BY <3>1, NamedSticks DEF NewRow
  <2>3. CASE Kept(s)
    <3>1. /\ session[s] \in Session
          /\ Named(session[s].primary) /\ Named(session[s].current)
      BY <1>0, <2>3, Rows DEF Kept, Placed
    <3>2. moving[s] # None =>
            moving[s].to \in Providers /\ Named(moving[s].to)
      BY <1>0 DEF Placed, TypeOK, Moving
    <3>3. /\ pool'[session[s].primary].key # None
          /\ pool'[session[s].current].key # None
      BY <3>1, NamedSticks DEF Session
    <3>. QED  BY <2>3, <3>1, <3>2, <3>3, NamedSticks DEF Kept, Session
  <2>. QED  BY <1>0, <2>1, <2>2, <2>3, RowMoves
<1>2. ASSUME NEW s \in Sessions, asked'[s] # None
      PROVE  ~Exists(s)' /\ pool'[asked'[s].at].key # None
  <2>0. asked'[s].at \in Providers
    BY <1>0, <1>2, TypeStep DEF TypeOK, Asked
  <2>1. CASE asked[s] # None /\ asked'[s].at = asked[s].at
    <3>1. ~Exists(s) /\ Named(asked'[s].at)
      BY <1>0, <2>1 DEF Placed
    <3>2. ~Created(s) /\ ~Kept(s)
      BY <1>2, <3>1 DEF Created, Kept
    <3>3. session'[s] = session[s]
      BY <1>0, <3>2, RowMoves
    <3>. QED  BY <2>0, <3>1, <3>3, NamedSticks DEF Exists
  <2>2. CASE ~Exists(s) /\ session'[s] = session[s] /\ Named(asked'[s].at)
    BY <2>0, <2>2, NamedSticks DEF Exists
  <2>. QED  BY <1>0, <1>2, <2>1, <2>2, AskedMoves
<1>3. ASSUME NEW s \in Sessions, moving'[s] # None
      PROVE  /\ Exists(s)'
             /\ pool'[moving'[s].from].key # None
             /\ pool'[moving'[s].to].key # None
             /\ ~moving'[s].written => session'[s].failovers < MaxFailovers
  <2>0. moving'[s].from \in Providers /\ moving'[s].to \in Providers
    BY <1>0, <1>3, TypeStep DEF TypeOK, Moving
  <2>a. Exists(s) /\ Named(moving'[s].from) /\ Named(moving'[s].to)
    BY <1>0, <1>3, MovingMoves DEF Placed, Failover
  <2>b. session'[s] = session[s] \/ Kept(s)
    BY <1>0, <2>a, RowMoves DEF Created
  <2>1. Exists(s)'
    BY <2>a, <2>b DEF Kept, Exists
  <2>2. ASSUME ~moving'[s].written
        PROVE  session'[s].failovers < MaxFailovers
    <3>1. ~FailoverWrite(s) /\ session[s].failovers < MaxFailovers
      <4>1. CASE moving[s] # None /\ moving'[s] = moving[s]
                 /\ ~FailoverWrite(s)
        BY <1>0, <2>2, <4>1 DEF Placed
      <4>2. CASE Failover(s)
        BY <4>2 DEF Failover, FailoverWrite
      <4>. QED  BY <1>0, <1>3, <2>2, <4>1, <4>2, MovingMoves
    <3>. QED  BY <2>b, <3>1 DEF Kept
  <2>. QED  BY <2>0, <2>a, <2>1, <2>2, NamedSticks
<1>. QED  BY <1>1, <1>2, <1>3 DEF Placed, Named

LEMMA RankedStep ==
  ASSUME VpnInv, [Next]_vars
  PROVE  Ranked'
<1>0. TypeOK /\ Placed /\ Ranked
  BY DEF VpnInv
<1>1. SUFFICES ASSUME NEW p \in Providers
      PROVE  /\ pool'[p].status # "unknown" => pool'[p].key # None
             /\ pool'[p].key # None => /\ pool'[p].key[1] = p
                             /\ pool'[p].key[2] <= daemon'[p].key
  BY DEF Ranked, Named
<1>2. daemon[p].key \in Nat /\ (pool[p].key # None => pool[p].key[2] \in Nat)
  BY <1>0, VpnAssumption DEF TypeOK, Daemon, Pool, Key
<1>3. daemon'[p].key \in {daemon[p].key, daemon[p].key + 1}
  BY <1>0, DaemonMoves
<1>4. CASE pool'[p].key = pool[p].key
           /\ (pool'[p].status = pool[p].status \/ Named(p))
  BY <1>0, <1>2, <1>3, <1>4 DEF Ranked, Named
<1>5. CASE Register(p) /\ pool'[p].key = KeyOf(p)
  <2>1. daemon[p].up
    BY <1>0, <1>5 DEF Register, TypeOK, Idle, Daemon
  <2>2. KeyOf(p) # None
    BY <1>0, <2>1, KeyTyped
  <2>. QED  BY <1>2, <1>3, <1>5, <2>2 DEF Named, KeyOf
<1>. QED  BY <1>0, <1>4, <1>5, PoolMoves

LEMMA ListedStep ==
  ASSUME VpnInv, [Next]_vars
  PROVE  Listed'
<1>0. TypeOK /\ Placed /\ Ranked /\ Listed
  BY DEF VpnInv
<1>1. SUFFICES ASSUME NEW p \in Providers, NEW s \in daemon'[p].list
      PROVE  Exists(s)'
  BY DEF Listed
<1>2. s \in daemon[p].list \cup Assigned(p)
  BY <1>0, DaemonMoves
<1>3. s \in Sessions /\ Exists(s)
  BY <1>0, <1>2, Rows DEF Listed, Assigned, Bound, TypeOK, Daemon
<1>4. session'[s] = session[s] \/ Kept(s)
  BY <1>0, <1>3, RowMoves DEF Created
<1>. QED  BY <1>3, <1>4 DEF Kept, Exists

\* While a daemon keeps its key, no session comes to name an older one.
LEMMA NoNewOld ==
  ASSUME VpnInv, [Next]_vars, NEW p \in Providers, NEW s \in Sessions,
         daemon'[p].key = daemon[p].key, Old(p, s)'
  PROVE  Old(p, s)
<1>0. TypeOK /\ Placed /\ Ranked /\ Listed
  BY DEF VpnInv
<1>1. KeyOf(p)' = KeyOf(p)
  BY DEF KeyOf
<1>2. CASE session'[s] = session[s]
  BY <1>1, <1>2 DEF Old, Live
<1>3. CASE Created(s)
  BY <1>3 DEF Created, NewRow, Old
<1>4. CASE Kept(s)
  <2>1. ASSUME NEW q \in Providers, session'[s].bound = KeyOf(q)
        PROVE  FALSE
    <3>1. q = p
      BY <2>1 DEF Old, KeyOf
    <3>. QED  BY <1>1, <2>1, <3>1 DEF Old
  <2>. QED  BY <1>1, <1>4, <2>1 DEF Kept, Old
<1>. QED  BY <1>0, <1>2, <1>3, <1>4, RowMoves

LEMMA PurgedStep ==
  ASSUME VpnInv, [Next]_vars
  PROVE  Purged'
<1>0. TypeOK /\ Placed /\ Ranked /\ Listed /\ Purged /\ Rotation
  BY DEF VpnInv
<1>1. SUFFICES ASSUME NEW p \in Providers, daemon'[p].purged
      PROVE  daemon'[p].up /\ \A s \in Sessions : ~Old(p, s)'
  BY DEF Purged
<1>2. daemon'[p].key = daemon[p].key /\ daemon'[p].up = daemon[p].up
      /\ (daemon[p].purged \/ Invalidate(p))
  BY <1>0, <1>1, DaemonMoves
<1>3. CASE daemon[p].purged
  BY <1>0, <1>2, <1>3, NoNewOld DEF Purged
<1>4. CASE Invalidate(p)
  <2>1. daemon[p].up
    BY <1>0, <1>4 DEF Invalidate, TypeOK, Idle, Daemon
  <2>2. ASSUME NEW s \in Sessions, Old(p, s)'
        PROVE  FALSE
    <3>1. Old(p, s)
      BY <1>2, <2>2, NoNewOld
    <3>2. Named(p)
      BY <1>0, <3>1, Rows DEF Old, Placed
    <3>3. pool[p].key # KeyOf(p)
      BY <1>0, <3>1 DEF Rotation
    <3>4. s \in Rotated(p)
      BY <3>1 DEF Old, Rotated
    <3>5. session'[s] = [session[s] EXCEPT !.live = FALSE]
      BY <1>4, <3>2, <3>3, <3>4 DEF Invalidate, Named
    <3>6. session[s] \in Session
      BY <1>0, <3>1, Rows DEF Old
    <3>. QED  BY <2>2, <3>5, <3>6 DEF Session, Old, Live
  <2>. QED  BY <1>2, <2>1, <2>2
<1>. QED  BY <1>2, <1>3, <1>4

LEMMA RotationStep ==
  ASSUME VpnInv, [Next]_vars
  PROVE  Rotation'
<1>0. TypeOK /\ Placed /\ Ranked /\ Listed /\ Purged /\ Rotation
  BY DEF VpnInv
<1>1. SUFFICES ASSUME NEW p \in Providers, pool'[p].key = KeyOf(p)',
                      NEW s \in Sessions, Old(p, s)'
      PROVE  FALSE
  BY DEF Rotation
<1>2. CASE daemon'[p].key = daemon[p].key
  <2>1. KeyOf(p)' = KeyOf(p) /\ Old(p, s)
    BY <1>1, <1>2, NoNewOld DEF KeyOf
  <2>2. CASE pool'[p].key = pool[p].key
    BY <1>0, <1>1, <2>1, <2>2 DEF Rotation
  <2>3. CASE Register(p)
    BY <1>0, <2>1, <2>3 DEF Register, Purged
  <2>. QED  BY <1>0, <2>2, <2>3, PoolMoves
<1>3. CASE Start(p) /\ daemon'[p].key = daemon[p].key + 1
  <2>1. daemon[p].key \in Nat
    BY <1>0, VpnAssumption DEF TypeOK, Daemon
  <2>2. pool'[p].key = pool[p].key
    BY <1>3 DEF Start
  <2>3. pool[p].key[2] = daemon[p].key + 1
    BY <1>1, <1>3, <2>2 DEF KeyOf
  <2>4. session'[s] = session[s]
    BY <1>3 DEF Start
  <2>5. Named(p)
    <3>1. Live(s) /\ session[s].primary = p
      BY <1>1, <2>4 DEF Old, Live
    <3>. QED  BY <1>0, <3>1, Rows DEF Placed
  <2>6. pool[p].key[2] <= daemon[p].key
    BY <1>0, <2>5 DEF Ranked
  <2>. QED  BY <2>1, <2>3, <2>6
<1>. QED  BY <1>0, <1>2, <1>3, DaemonMoves

LEMMA InitInv == Init => VpnInv
<1> SUFFICES ASSUME Init PROVE VpnInv
  OBVIOUS
<1>1. TypeOK
  <2>1. pool \in [Providers -> Pool]
    BY VpnAssumption DEF Init, Pool
  <2>2. daemon \in [Providers -> Daemon]
    BY VpnAssumption DEF Init, Daemon
  <2>3. \A p \in Providers : ~daemon[p].up /\ Idle(p)
    BY DEF Init, Idle
  <2>4. /\ session \in [Sessions -> Session \cup {Absent}]
        /\ asked \in [Sessions -> Asked \cup {None}]
        /\ moving \in [Sessions -> Moving \cup {None}]
    BY DEF Init
  <2>5. starts \in 0 .. MaxStarts /\ losses \in 0 .. MaxLosses
    BY VpnAssumption DEF Init
  <2>. QED  BY <2>1, <2>2, <2>3, <2>4, <2>5 DEF TypeOK
<1>2. \A s \in Sessions : ~Exists(s) /\ ~Live(s)
  BY DEF Init, Exists, Live, Absent
<1>. QED  BY <1>1, <1>2 DEF Init, VpnInv, Placed, Ranked, Listed, Purged,
                            Rotation, Old, Named

-----------------------------------------------------------------------------
LEMMA SpecInv == Spec => []VpnInv
<1>1. VpnInv /\ [Next]_vars => VpnInv'
  BY TypeStep, PlacedStep, RankedStep, ListedStep, PurgedStep, RotationStep
  DEF VpnInv
<1>. QED  BY <1>1, InitInv, PTL DEF Spec

\* The types of vpn-svc's rows and of the daemons, for any number of sessions,
\* providers, restarts and failovers.
THEOREM VpnTypes == Spec => []TypeOK
<1>1. VpnInv => TypeOK
  BY DEF VpnInv
<1>. QED  BY <1>1, SpecInv, PTL

\* A registration that stores a provider's new key leaves no live session that
\* started on the provider and names an older key of it.
THEOREM RotationEnds == Spec => []RotationEndsSessions
<1>1. VpnInv => RotationEndsSessions
  <2> SUFFICES ASSUME VpnInv, NEW s \in Sessions, Live(s),
                      session[s].bound # None,
                      session[s].bound[1] = session[s].primary,
                      pool[session[s].primary].key = KeyOf(session[s].primary)
               PROVE  session[s].bound = KeyOf(session[s].primary)
    BY DEF RotationEndsSessions
  <2>1. session[s].primary \in Providers
    BY Rows DEF VpnInv, Session
  <2>. QED  BY <2>1 DEF VpnInv, Rotation, Old
<1>. QED  BY <1>1, SpecInv, PTL
=============================================================================
