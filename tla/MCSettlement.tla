---------------------------- MODULE MCSettlement ----------------------------
(* Model-checking instance of Settlement.  With a minimum of 1, a session   *)
(* of 1 unit leaves a share of 0 (dust), 2 units a share of 1, 12 units a   *)
(* share of 10.                                                             *)
EXTENDS Settlement, TLC
CONSTANTS s1, s2, a1, alice, bob, carol, cron, admin
OneSession == {s1}
TwoSessions == {s1, s2}
OneAttempt == {a1}
NoAttempt == {}
Everyone == {alice, bob, carol}
CronOnly == {cron}
CronAndAdmin == {cron, admin}

In(c, p, e, u) == [customer |-> c, provider |-> p, escrowed |-> e,
                   consumed |-> u]

\* bob earns 1 or 10, carol earns 1; bob is his own customer once.
Mixed == {In(alice, bob, 12, 12), In(alice, bob, 2, 2),
          In(alice, carol, 2, 2), In(bob, bob, 2, 2)}
\* All for bob, who is his own customer once.
SelfPaid == {In(alice, bob, 12, 12), In(alice, bob, 2, 2), In(bob, bob, 2, 2)}
\* A wallet the treasury cannot cover beside one it can.
Oversized == {In(alice, bob, 12, 12), In(alice, carol, 2, 2)}
=============================================================================
