---------------------------- MODULE BuildContract ---------------------------
(***************************************************************************)
(* What build-gateway promises the customer of a build, whatever happens   *)
(* behind it: an accepted build is answered once with a final status, and  *)
(* what it is charged for is one receipt, which names that status.         *)
(*                                                                         *)
(* The promise starts when Submit returns.  Until then the answer is       *)
(* pending, and what the build is charged for is not part of the promise.  *)
(* BuildGateway is shown to implement this module.                         *)
(***************************************************************************)
CONSTANTS
  Jobs,      \* the builds
  Answers,   \* the final statuses
  Receipts   \* what a charge may say: a record with a field status

VARIABLES
  answer,    \* answer[b]: "none", "pending", "open" or a final status
  charged    \* charged[b]: the different receipts billing was sent for b

cvars == <<answer, charged>>

Init ==
  /\ answer = [b \in Jobs |-> "none"]
  /\ charged = [b \in Jobs |-> {}]

\* The request is stored; its caller still waits.
Accept(b) ==
  /\ answer[b] = "none"
  /\ answer' = [answer EXCEPT ![b] = "pending"]
  /\ UNCHANGED charged

\* The caller is told that the build is under way, or how it ended already.
Return(b) ==
  /\ answer[b] = "pending"
  /\ \E a \in {"open"} \cup Answers : answer' = [answer EXCEPT ![b] = a]
  /\ UNCHANGED charged

\* The process dies and comes back: callers that waited are told nothing, and
\* find the build under way or ended when they ask.
ReturnAll ==
  /\ answer' \in [Jobs -> {"none", "pending", "open"} \cup Answers]
  /\ \A b \in Jobs : IF answer[b] = "pending"
                     THEN answer'[b] \in {"open"} \cup Answers
                     ELSE answer'[b] = answer[b]
  /\ UNCHANGED charged

\* The build ends, once.
End(b) ==
  /\ answer[b] = "open"
  /\ \E a \in Answers : answer' = [answer EXCEPT ![b] = a]
  /\ UNCHANGED charged

\* Billing is sent the receipt of an ended build.  It may be sent again; it
\* never is another one.
Charge(b) ==
  /\ answer[b] \in Answers
  /\ charged[b] = {}
  /\ \E r \in charged'[b] :
       /\ r \in Receipts
       /\ r.status = answer[b]
       /\ charged' = [charged EXCEPT ![b] = {r}]
  /\ UNCHANGED answer

Next ==
  \/ \E b \in Jobs : Accept(b) \/ Return(b) \/ End(b) \/ Charge(b)
  \/ ReturnAll

Spec == Init /\ [][Next]_cvars
=============================================================================
