----------------------------- MODULE VpnSessions ----------------------------
(***************************************************************************)
(* vpn-svc: the sessions of VPN customers, the providers they are placed   *)
(* on, and the two loops of a provider's daemon that make a session work:  *)
(* the registration with its WireGuard key and the peer binder             *)
(* (vpn-svc/internal/server/handlers.go over internal/store, and           *)
(* daemon/crates/routing, core/vpn_wiring.rs).                             *)
(*                                                                         *)
(* A customer reaches a provider when the daemon has the customer's key in *)
(* its peer map and the customer has the daemon's key.  The map is in      *)
(* memory only; the daemon's key is on its disk, and a daemon set up anew  *)
(* makes another one.                                                      *)
(*                                                                         *)
(* One statement of the store is a step.  A handler that runs several, and *)
(* the daemon between a list it fetched and what it does with it, are      *)
(* split there.  A WireGuard key is a pair of its provider and a number;   *)
(* a customer's key is the session itself.  The state column of a session  *)
(* is written by most handlers and read by none, and has no counterpart.   *)
(*                                                                         *)
(* MaxKeys, MaxStarts, MaxFailovers, MaxLosses and MaxPicks bound the      *)
(* model only.                                                             *)
(***************************************************************************)
EXTENDS Naturals

CONSTANTS
  Sessions,      \* session ids
  Customers,
  Owner,         \* Owner[s]: the customer of s
  Providers,
  None,          \* no provider, no key, no call
  MaxKeys,       \* bound: keys a provider ever has
  MaxStarts,     \* bound: starts of daemons
  MaxFailovers,  \* bound: failovers of one session
  MaxLosses,     \* bound: calls of daemons that fail
  MaxPicks       \* bound: times a provider is selected

ASSUME VpnAssumption ==
  /\ Owner \in [Sessions -> Customers]
  /\ None \notin Providers \cup (Providers \X Nat)
  /\ MaxKeys \in Nat \ {0}
  /\ MaxStarts \in Nat /\ MaxFailovers \in Nat
  /\ MaxLosses \in Nat /\ MaxPicks \in Nat

VARIABLES
  session,  \* session[s]: the row of s, or Absent
  asked,    \* asked[s]: a mobile request before its row is written, or None
  moving,   \* moving[s]: a failover request between its statements, or None
  pool,     \* pool[p]: the row of p in vpn_providers
  daemon,   \* daemon[p]: the process of p and its key file
  starts,   \* starts of daemons so far
  losses    \* calls of daemons that failed so far

vars == <<session, asked, moving, pool, daemon, starts, losses>>

-----------------------------------------------------------------------------
Key == Providers \X (1 .. MaxKeys)

Session == [primary   : Providers,
            current   : Providers,
            live      : BOOLEAN,           \* terminated_at IS NULL
            young     : BOOLEAN,           \* not older than 15 minutes
            keyed     : BOOLEAN,           \* customer_wg_public_key is set
            bound     : Key \cup {None},   \* provider_wg_public_key
            failovers : 0 .. MaxFailovers]

Absent == [live |-> FALSE]

Exists(s) == session[s] # Absent
Live(s)   == session[s].live

\* A mobile request: the provider it picked, then the key it read for it.
Asked == [at : Providers, key : Key \cup {None}]

\* A failover request: the provider it found, then the one it chose.
Moving == [from : Providers, to : Providers, written : BOOLEAN]

Pool == [key    : Key \cup {None},
         status : {"unknown", "healthy", "degraded", "offline"},
         recent : BOOLEAN,                 \* seen in the last 5 minutes
         picks  : 0 .. MaxPicks]           \* session_count

Daemon == [up     : BOOLEAN,
           key    : 0 .. MaxKeys,          \* of its key file; 0: none yet
           calls  : 0 .. 2,                \* registrations still to make
           purged : BOOLEAN,               \* its key change was looked for
           peers  : SUBSET Sessions,       \* boringtun's peer map
           list   : SUBSET Sessions]       \* assigned sessions being bound

KeyOf(p) == <<p, daemon[p].key>>

\* A daemon that does not run binds nobody and has no peers.
Idle(p) == daemon[p].calls = 0 /\ daemon[p].list = {} /\ daemon[p].peers = {}

\* Mutated: the binder outlives the daemon's shutdown.
Binding_Outlives(p) == daemon[p].calls < 2

\* The binder runs once the first registration was tried, the health loop
\* once the second was.
Binding(p)   == daemon[p].up /\ daemon[p].calls < 2
Reporting(p) == daemon[p].up /\ daemon[p].calls = 0

Init ==
  /\ session = [s \in Sessions |-> Absent]
  /\ asked = [s \in Sessions |-> None]
  /\ moving = [s \in Sessions |-> None]
  /\ pool = [p \in Providers |->
               [key |-> None, status |-> "unknown", recent |-> FALSE,
                picks |-> 0]]
  /\ daemon = [p \in Providers |->
                 [up |-> FALSE, key |-> 0, calls |-> 0, purged |-> FALSE,
                  peers |-> {}, list |-> {}]]
  /\ starts = 0 /\ losses = 0

-----------------------------------------------------------------------------
(* Choosing a provider.                                                    *)

LeastLoaded(S) == {p \in S : \A q \in S : pool[p].picks <= pool[q].picks}

Healthy == {p \in Providers : pool[p].status = "healthy"}
Fresh   == {p \in Healthy : pool[p].recent}

\* SelectProviderForSession asks for the status only,
\* SelectProviderAcrossRegions for a recent sign of life as well.
Candidates == LeastLoaded(Healthy) \cup LeastLoaded(Fresh)

\* Whoever is selected counts one session more, and counts as seen.
Picked(p) ==
  [pool EXCEPT ![p] = [key |-> pool[p].key, status |-> pool[p].status,
                       recent |-> TRUE, picks |-> pool[p].picks + 1]]

\* UpdateProviderHealth.
Reported(p, status) ==
  [pool EXCEPT ![p] = [key |-> pool[p].key, status |-> status,
                       recent |-> TRUE, picks |-> pool[p].picks]]

CanPick(p) == pool[p].picks < MaxPicks

-----------------------------------------------------------------------------
(* Requests of customers.                                                  *)

NewRow(p, keyed) ==
  [primary |-> p, current |-> p, live |-> TRUE, young |-> TRUE,
   keyed |-> keyed, bound |-> None, failovers |-> 0]

\* RequestSession: the SDK's session starts without the customer's key.
RequestSession(s) ==
  /\ ~Exists(s) /\ asked[s] = None
  /\ \E p \in Candidates :
       /\ CanPick(p)
       /\ pool' = Picked(p)
       /\ session' = [session EXCEPT ![s] = NewRow(p, FALSE)]
  /\ UNCHANGED <<asked, moving, daemon, starts, losses>>

\* BindCustomerWgKey: the SDK publishes its key, once.
BindCustomerWgKey(s) ==
  /\ Exists(s) /\ ~session[s].keyed
  /\ session' = [session EXCEPT ![s].keyed = TRUE]
  /\ UNCHANGED <<asked, moving, pool, daemon, starts, losses>>

\* RequestMobileSession, up to Pick.
RequestMobile(s) ==
  /\ ~Exists(s) /\ asked[s] = None
  /\ \E p \in Candidates :
       /\ CanPick(p)
       /\ pool' = Picked(p)
       /\ asked' = [asked EXCEPT ![s] = [at |-> p, key |-> None]]
  /\ UNCHANGED <<session, moving, daemon, starts, losses>>

\* lookupProvider: the key the answer will carry is read; a provider that is
\* not healthy, recent and keyed any more is answered with 503.
LookupProvider(s) ==
  /\ asked[s] # None /\ asked[s].key = None
  /\ LET p == asked[s].at
     IN  IF p \in Fresh /\ pool[p].key # None
         THEN asked' = [asked EXCEPT ![s].key = pool[p].key]
         ELSE asked' = [asked EXCEPT ![s] = None]
  /\ UNCHANGED <<session, moving, pool, daemon, starts, losses>>

\* CreateSession of the mobile flow: the customer's key is in the row, the
\* provider's is left for the binder.
CreateMobile(s) ==
  /\ asked[s] # None /\ asked[s].key # None
  /\ session' = [session EXCEPT ![s] = NewRow(asked[s].at, TRUE)]
  /\ asked' = [asked EXCEPT ![s] = None]
  /\ UNCHANGED <<moving, pool, daemon, starts, losses>>

\* TerminateSession.
Terminate(s) ==
  /\ Exists(s) /\ Live(s)
  /\ session' = [session EXCEPT ![s].live = FALSE]
  /\ UNCHANGED <<asked, moving, pool, daemon, starts, losses>>

\* TerminateAllForCustomer, of the logout.
TerminateAll(c) ==
  /\ \E s \in Sessions : Owner[s] = c /\ Live(s)
  /\ session' = [s \in Sessions |->
                   IF Owner[s] = c /\ Live(s)
                   THEN [session[s] EXCEPT !.live = FALSE] ELSE session[s]]
  /\ UNCHANGED <<asked, moving, pool, daemon, starts, losses>>

\* TriggerFailover, up to the choice of another provider.  A session that
\* ended is moved like any other.
Failover(s) ==
  /\ Exists(s) /\ moving[s] = None
  /\ session[s].failovers < MaxFailovers
  /\ \E p \in LeastLoaded(Healthy \ {session[s].current}) :
       /\ CanPick(p)
       /\ pool' = Picked(p)
       /\ moving' = [moving EXCEPT ![s] = [from |-> session[s].current,
                                           to |-> p, written |-> FALSE]]
  /\ UNCHANGED <<session, asked, daemon, starts, losses>>

Moved(r, p) ==
  [primary |-> r.primary, current |-> p, live |-> r.live, young |-> r.young,
   keyed |-> r.keyed, bound |-> r.bound, failovers |-> r.failovers + 1]

\* Store.TriggerFailover: the session has a new current provider and keeps
\* the key of the old one.
FailoverWrite(s) ==
  /\ moving[s] # None /\ ~moving[s].written
  /\ session' = [session EXCEPT ![s] = Moved(@, moving[s].to)]
  /\ moving' = [moving EXCEPT ![s].written = TRUE]
  /\ UNCHANGED <<asked, pool, daemon, starts, losses>>

\* The provider that was left is degraded, whatever it said meanwhile, unless
\* the request gave no reason.
FailoverDegrade(s) ==
  /\ moving[s] # None /\ moving[s].written
  /\ LET p == moving[s].from
     IN  \/ pool' = Reported(p, "degraded")
         \/ UNCHANGED pool
  /\ moving' = [moving EXCEPT ![s] = None]
  /\ UNCHANGED <<session, asked, daemon, starts, losses>>

-----------------------------------------------------------------------------
(* The daemon's registration and health reports.                           *)

\* The daemon starts, with its key file or without one; then it makes a key.
Start(p) ==
  /\ ~daemon[p].up
  /\ starts < MaxStarts
  /\ starts' = starts + 1
  /\ \E k \in {daemon[p].key, daemon[p].key + 1} \cap (1 .. MaxKeys) :
       daemon' = [daemon EXCEPT ![p] =
                    [up |-> TRUE, key |-> k, calls |-> 2, purged |-> FALSE,
                     peers |-> {}, list |-> {}]]
  /\ UNCHANGED <<session, asked, moving, pool, losses>>

\* The daemon ends: its peers are gone, its key file stays.
Down(p) ==
  [daemon EXCEPT ![p] = [up |-> FALSE, key |-> daemon[p].key, calls |-> 0,
                         purged |-> FALSE, peers |-> {}, list |-> {}]]

Crash(p) ==
  /\ daemon[p].up
  /\ daemon' = Down(p)
  /\ UNCHANGED <<session, asked, moving, pool, starts, losses>>

\* A graceful stop reports the provider offline, if it has a row.
Stop(p) ==
  /\ Reporting(p)
  /\ daemon' = Down(p)
  /\ IF pool[p].status = "unknown" THEN UNCHANGED pool
                                   ELSE pool' = Reported(p, "offline")
  /\ UNCHANGED <<session, asked, moving, starts, losses>>

\* Mutated: the sessions that moved away from p are left out.
Rotated_Current(p) ==
  {s \in Sessions : Live(s) /\ session[s].current = p}

\* The sessions the rotation of p's key ends: p is their current provider or
\* was their first.
Rotated(p) ==
  {s \in Sessions : Live(s) /\ p \in {session[s].primary, session[s].current}}

\* InvalidateSessionsOnProviderKeyChange, of a registration.
Invalidate(p) ==
  /\ daemon[p].calls > 0 /\ ~daemon[p].purged
  /\ session' = [s \in Sessions |->
                   IF pool[p].key \notin {None, KeyOf(p)} /\ s \in Rotated(p)
                   THEN [session[s] EXCEPT !.live = FALSE] ELSE session[s]]
  /\ daemon' = [daemon EXCEPT ![p].purged = TRUE]
  /\ UNCHANGED <<asked, moving, pool, starts, losses>>

CallMade(p) ==
  [daemon EXCEPT ![p] = [up |-> daemon[p].up, key |-> daemon[p].key,
                         calls |-> daemon[p].calls - 1, purged |-> FALSE,
                         peers |-> daemon[p].peers, list |-> daemon[p].list]]

\* Store.RegisterProvider.
Register(p) ==
  /\ daemon[p].calls > 0 /\ daemon[p].purged
  /\ pool' = [pool EXCEPT ![p] =
                 [key |-> KeyOf(p), status |-> "healthy", recent |-> TRUE,
                  picks |-> pool[p].picks]]
  /\ daemon' = CallMade(p)
  /\ UNCHANGED <<session, asked, moving, starts, losses>>

\* A registration fails before or between its two statements.  The daemon
\* makes two, one before its loops start and one in the health loop.
RegisterFails(p) ==
  /\ daemon[p].calls > 0
  /\ losses < MaxLosses
  /\ losses' = losses + 1
  /\ daemon' = CallMade(p)
  /\ UNCHANGED <<session, asked, moving, pool, starts>>

\* Mutated: a report does not take back what a customer reported.
Health_KeepsDegraded(p) ==
  /\ Reporting(p)
  /\ pool[p].status \notin {"unknown", "degraded"}
  /\ pool' = Reported(p, "healthy")
  /\ UNCHANGED <<session, asked, moving, daemon, starts, losses>>

\* The health report of a running daemon, for a provider that has a row.
Health(p) ==
  /\ Reporting(p)
  /\ pool[p].status # "unknown"
  /\ pool' = Reported(p, "healthy")
  /\ UNCHANGED <<session, asked, moving, daemon, starts, losses>>

\* Five minutes pass without a report, or fifteen in the life of a session.
Silence(p) ==
  /\ ~daemon[p].up /\ pool[p].recent
  /\ pool' = [pool EXCEPT ![p].recent = FALSE]
  /\ UNCHANGED <<session, asked, moving, daemon, starts, losses>>

Age(s) ==
  /\ Exists(s) /\ session[s].young
  /\ session' = [session EXCEPT ![s].young = FALSE]
  /\ UNCHANGED <<asked, moving, pool, daemon, starts, losses>>

-----------------------------------------------------------------------------
(* The peer binder.                                                        *)

\* ListBoundSessions.
Bound(p) == {s \in Sessions : Live(s) /\ session[s].current = p
                                      /\ session[s].keyed}

\* ListAssignedSessions, without the rows the binder skips.
Assigned(p) == {s \in Bound(p) : session[s].bound = None /\ session[s].young}

\* Mutated: the peer map is rebuilt from the assigned sessions only, which the
\* sessions bound before a restart are no longer among.
Reconcile_Assigned(p) ==
  /\ Binding(p) /\ daemon[p].list = {}
  /\ daemon' = [daemon EXCEPT ![p].peers = @ \cup Assigned(p)]
  /\ UNCHANGED <<session, asked, moving, pool, starts, losses>>

\* The reconcile tick puts every live customer of p into the peer map.
Reconcile(p) ==
  /\ Binding(p) /\ daemon[p].list = {}
  /\ daemon' = [daemon EXCEPT ![p].peers = @ \cup Bound(p)]
  /\ UNCHANGED <<session, asked, moving, pool, starts, losses>>

\* The poll tick fetches the sessions no provider is bound to yet.
Poll(p) ==
  /\ Binding(p) /\ daemon[p].list = {}
  /\ daemon' = [daemon EXCEPT ![p].list = Assigned(p)]
  /\ UNCHANGED <<session, asked, moving, pool, starts, losses>>

\* The customer of s, taken from the list, becomes a peer of p.
PeerOf(p, s) ==
  [daemon EXCEPT ![p] = [up |-> daemon[p].up, key |-> daemon[p].key,
                         calls |-> daemon[p].calls, purged |-> daemon[p].purged,
                         peers |-> daemon[p].peers \cup {s},
                         list |-> daemon[p].list \ {s}]]

\* Mutated: a session whose customer is a peer already is not bound.
BindSession_Once(p, s) ==
  /\ s \in daemon[p].list
  /\ daemon' = PeerOf(p, s)
  /\ session' = IF s \in daemon[p].peers THEN session
                ELSE [session EXCEPT ![s].bound = KeyOf(p)]
  /\ UNCHANGED <<asked, moving, pool, starts, losses>>

\* bind_session: the customer becomes a peer, then bind-provider stores the
\* daemon's key in the row, which may have ended or moved since it was listed.
BindSession(p, s) ==
  /\ s \in daemon[p].list
  /\ daemon' = PeerOf(p, s)
  /\ session' = [session EXCEPT ![s].bound = KeyOf(p)]
  /\ UNCHANGED <<asked, moving, pool, starts, losses>>

\* The post of bind-provider fails; the next poll lists the session again.
BindFails(p, s) ==
  /\ s \in daemon[p].list
  /\ losses < MaxLosses
  /\ losses' = losses + 1
  /\ daemon' = PeerOf(p, s)
  /\ UNCHANGED <<session, asked, moving, pool, starts>>

-----------------------------------------------------------------------------
Next ==
  \/ \E s \in Sessions :
       \/ RequestSession(s) \/ BindCustomerWgKey(s)
       \/ RequestMobile(s) \/ LookupProvider(s) \/ CreateMobile(s)
       \/ Terminate(s) \/ Age(s)
       \/ Failover(s) \/ FailoverWrite(s) \/ FailoverDegrade(s)
  \/ \E c \in Customers : TerminateAll(c)
  \/ \E p \in Providers :
       \/ Start(p) \/ Crash(p) \/ Stop(p)
       \/ Invalidate(p) \/ Register(p) \/ RegisterFails(p)
       \/ Health(p) \/ Silence(p)
       \/ Reconcile(p) \/ Poll(p)
       \/ \E s \in daemon[p].list : BindSession(p, s) \/ BindFails(p, s)

Spec == Init /\ [][Next]_vars

\* A running daemon makes its registrations and its tickers keep firing; each
\* of its calls has a timeout.  Nothing is assumed of the customers, of the
\* ends of daemons or of their restarts.
Fairness ==
  \A p \in Providers :
    /\ WF_vars(Invalidate(p)) /\ WF_vars(Register(p))
    /\ WF_vars(Health(p))
    /\ WF_vars(Reconcile(p)) /\ WF_vars(Poll(p))
    /\ \A s \in Sessions : WF_vars(s \in daemon[p].list /\ BindSession(p, s))

FairSpec == Spec /\ Fairness

-----------------------------------------------------------------------------
\* Type invariant.
TypeOK ==
  /\ session \in [Sessions -> Session \cup {Absent}]
  /\ asked \in [Sessions -> Asked \cup {None}]
  /\ moving \in [Sessions -> Moving \cup {None}]
  /\ pool \in [Providers -> Pool]
  /\ daemon \in [Providers -> Daemon]
  /\ \A p \in Providers :
       IF daemon[p].up THEN daemon[p].key > 0 ELSE Idle(p)
  /\ starts \in 0 .. MaxStarts
  /\ losses \in 0 .. MaxLosses

\* Once a daemon's key is the registered one, no live session that started on
\* it still names an older key of it (issue 762): the rotation ends them all,
\* although it is looked for in one statement and stored in another, while
\* sessions are created, bound and moved away and registrations fail.
RotationEndsSessions ==
  \A s \in Sessions : Live(s) /\ session[s].bound # None =>
    LET p == session[s].primary
    IN  session[s].bound[1] = p /\ pool[p].key = KeyOf(p)
          => session[s].bound = KeyOf(p)

\* A running daemon gets each live customer of its provider into its peer map,
\* however old or bound the session is and however often the daemon restarts
\* (issue 788).
CustomersBecomePeers ==
  \A p \in Providers, s \in Sessions :
    daemon[p].up /\ s \in Bound(p)
      ~> \/ s \in daemon[p].peers
         \/ ~daemon[p].up \/ s \notin Bound(p)

\* A session assigned to a running daemon gets a provider key in its row, or
\* stops being assigned to it.
AssignedGetsKey ==
  \A p \in Providers, s \in Sessions :
    daemon[p].up /\ s \in Assigned(p) ~> ~daemon[p].up \/ s \notin Assigned(p)

\* A provider a customer reported unreachable is offered again while its
\* daemon runs: no failover takes it out of the pool for good.
DegradedRecovers ==
  \A p \in Providers :
    daemon[p].up /\ pool[p].status = "degraded"
      ~> ~daemon[p].up \/ pool[p].status = "healthy"
=============================================================================
