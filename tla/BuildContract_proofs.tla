------------------------ MODULE BuildContract_proofs ------------------------
(***************************************************************************)
(* Proof that build-gateway implements BuildContract: its initial states   *)
(* map to initial states, and each of its steps maps to a step of the      *)
(* contract or changes nothing a customer or billing-svc can see.          *)
(*                                                                         *)
(* LinkInv ties the handler of a build to its record; BillsInv, of         *)
(* BuildGateway_proofs, is what makes the bills of a build one receipt.    *)
(***************************************************************************)
EXTENDS BuildGateway_proofs

\* A build has a record once its Submit started, and the reaper's list is of
\* builds that have one.
LinkInv ==
  /\ \A b \in Builds : submit[b] = "none" <=> build[b].status = "none"
  /\ \A x \in sweep : build[x.build].status # "none"

\* A step of the gateway on a record leaves it a record.
LEMMA StaysSubmitted ==
  ASSUME TypeOK, LinkInv, [Next]_vars, NEW b \in Builds,
         build[b].status # "none"
  PROVE  build'[b].status # "none"
<1>0. build[b] \in Build /\ "none" \notin Status
  BY DEF TypeOK, Status, Terminals
<1>1. CASE Quiet
  BY <1>1, QuietKeepsBuilds
<1>2. ASSUME NEW c \in Builds, Submit(c) PROVE build'[b].status # "none"
  BY <1>2 DEF Submit, Absent, TypeOK
<1>3. ASSUME NEW c \in Builds, SubmitDispatched(c)
      PROVE  build'[b].status # "none"
  <2>1. Persisted(DispatchedRecord(build[b])).status = "dispatched"
    BY <1>0 DEF Persisted, DispatchedRecord, Build
  <2>. QED  BY <1>3, <2>1 DEF SubmitDispatched, TypeOK
<1>4. ASSUME NEW c \in Builds, SubmitRejected(c)
      PROVE  build'[b].status # "none"
  <2>1. Persisted(RejectedRecord(build[b])).status = "rejected"
    BY <1>0 DEF Persisted, RejectedRecord, Build
  <2>. QED  BY <1>4, <2>1 DEF SubmitRejected, TypeOK
<1>5. ASSUME NEW c \in Builds, CancelReturns(c)
      PROVE  build'[b].status # "none"
  <2>1. CancelRecord(build[b]).status = build[b].status
    BY <1>0 DEF CancelRecord, Build
  <2>. QED  BY <1>5, <2>1 DEF CancelReturns, TypeOK
<1>6. ASSUME NEW c \in Builds, NEW next \in Reported \cup {"failed"},
             NEW note \in {"reported", PausedNote, "reaped"},
             NEW prov \in Providers \cup {NoProvider},
             CommitStatus(c, next, note, prov)
      PROVE  build'[b].status # "none"
  <2>1. next \in Status /\ note \in Notes
    BY ConstantsAssumption DEF Status, Terminals, Notes
  <2>. QED  BY <1>0, <1>6, <2>1, CommitStatusRecord
<1>7. CASE UNCHANGED <<build, submit, due, billed, now, calls, ranBy>>
  BY <1>7
<1>. QED  BY <1>1, <1>2, <1>3, <1>4, <1>5, <1>6, <1>7, StepCases

\* How each step moves the handlers.
LEMMA SubmitMoves ==
  ASSUME TypeOK, [Next]_vars, NEW b \in Builds
  PROVE  \/ submit'[b] = submit[b]
         \/ Submit(b)
         \/ SubmitDispatched(b)
         \/ SubmitRejected(b)
         \/ Restart /\ submit[b] = "calling" /\ submit'[b] = "returned"
<1>1. CASE Quiet
  BY <1>1 DEF Quiet, IssueBill, Cancel, ReapList, Restart, Tick, vars, TypeOK
<1>2. ASSUME NEW c \in Builds, c # b,
             Submit(c) \/ SubmitDispatched(c) \/ SubmitRejected(c)
      PROVE  submit'[b] = submit[b]
  BY <1>2 DEF Submit, SubmitDispatched, SubmitRejected, TypeOK
<1>3. ASSUME NEW c \in Builds, CancelReturns(c)
      PROVE  submit'[b] = submit[b]
  BY <1>3 DEF CancelReturns
<1>. QED  BY <1>1, <1>2, <1>3, StepCases

LEMMA LinkInit == Init => LinkInv
<1>1. Absent.status = "none"
  BY DEF Absent
<1>. QED  BY <1>1 DEF Init, LinkInv

LEMMA LinkStep == TypeOK /\ LinkInv /\ [Next]_vars => LinkInv'
<1> SUFFICES ASSUME TypeOK, LinkInv, [Next]_vars PROVE LinkInv'
  OBVIOUS
<1>1. ASSUME NEW b \in Builds
      PROVE  submit'[b] = "none" <=> build'[b].status = "none"
  <2>1. CASE build[b].status # "none"
    <3>1. build'[b].status # "none" /\ submit[b] # "none"
      BY <2>1, StaysSubmitted DEF LinkInv
    <3>2. submit'[b] # "none"
      BY <3>1, SubmitMoves DEF Submit, SubmitDispatched, SubmitRejected, TypeOK
    <3>. QED  BY <3>1, <3>2
  <2>2. CASE build[b].status = "none"
    <3>0. submit[b] = "none" /\ build[b] \in Build
      BY <2>2 DEF LinkInv, TypeOK
    <3>1. CASE Submit(b)
      <4>1. build'[b].status = "queued" /\ submit'[b] = "calling"
        BY <3>1 DEF Submit, Absent, TypeOK
      <4>. QED  BY <4>1
    <3>2. CASE ~Submit(b)
      <4>1. submit'[b] = "none"
        BY <3>0, <3>2, SubmitMoves DEF SubmitDispatched, SubmitRejected
      <4>2. build'[b].status = "none"
        <5>1. CASE Quiet
          BY <2>2, <5>1, QuietKeepsBuilds
        <5>2. ASSUME NEW c \in Builds, c # b,
                     Submit(c) \/ SubmitDispatched(c) \/ SubmitRejected(c)
              PROVE  build'[b] = build[b]
          BY <5>2 DEF Submit, SubmitDispatched, SubmitRejected, TypeOK
        <5>3. ~SubmitDispatched(b) /\ ~SubmitRejected(b)
          BY <3>0 DEF SubmitDispatched, SubmitRejected
        <5>4. ASSUME NEW c \in Builds, CancelReturns(c)
              PROVE  build'[b].status = build[b].status
          <6>1. CancelRecord(build[b]).status = build[b].status
            BY <3>0 DEF CancelRecord, Build
          <6>. QED  BY <5>4, <6>1 DEF CancelReturns, TypeOK
        <5>5. CASE UNCHANGED build
          BY <2>2, <5>5
        <5>6. ASSUME NEW c \in Builds, NEW next \in Reported,
                     NEW note \in {"reported", PausedNote},
                     NEW prov \in ReportedBy, UpdateStatus(c, next, note, prov)
              PROVE  build'[b] = build[b]
          <6>1. c # b
            BY <2>2, <5>6 DEF UpdateStatus, Exists
          <6>. QED  BY <5>6, <6>1 DEF UpdateStatus, CommitStatus, TypeOK
        <5>7. ASSUME NEW x \in sweep, ReapOne(x)
              PROVE  build'[b] = build[b]
          <6>1. x.build # b
            BY <2>2, <5>7 DEF LinkInv
          <6>. QED  BY <5>7, <6>1 DEF ReapOne, CommitStatus, TypeOK
        <5>. QED
          BY <2>2, <3>2, <5>1, <5>2, <5>3, <5>4, <5>5, <5>6, <5>7
             DEF Next, Quiet, vars
      <4>. QED  BY <4>1, <4>2
    <3>. QED  BY <3>1, <3>2
  <2>. QED  BY <2>1, <2>2
<1>2. ASSUME NEW x \in sweep'
      PROVE  build'[x.build].status # "none"
  <2>1. CASE x \in sweep
    BY <2>1, StaysSubmitted DEF LinkInv, TypeOK
  <2>2. CASE x \notin sweep
    <3>1. ReapList
      BY <2>2 DEF Next, Submit, SubmitDispatched, SubmitRejected, Cancel,
                  CancelReturns, UpdateStatus, IssueBill, ReapOne, Restart,
                  Tick, vars
    <3>2. PICK b \in Builds : x = Listed(b) /\ Exists(b)
      BY <2>2, <3>1 DEF ReapList
    <3>3. x.build = b
      BY <3>2 DEF Listed
    <3>. QED  BY <3>1, <3>2, <3>3 DEF ReapList, Exists
  <2>. QED  BY <2>1, <2>2
<1>. QED  BY <1>1, <1>2 DEF LinkInv

-----------------------------------------------------------------------------
\* A step that moves the status of one build touches no other build.
LEMMA OneRecord ==
  ASSUME TypeOK, [Next]_vars, NEW b \in Builds,
         build'[b].status # build[b].status,
         NEW c \in Builds, c # b
  PROVE  build'[c] = build[c] /\ submit'[c] = submit[c]
<1>0. ~Quiet /\ ~UNCHANGED build
  BY QuietKeepsBuilds
<1>1. ASSUME NEW d \in Builds,
             Submit(d) \/ SubmitDispatched(d) \/ SubmitRejected(d)
      PROVE  build'[c] = build[c] /\ submit'[c] = submit[c]
  BY <1>1 DEF Submit, SubmitDispatched, SubmitRejected, TypeOK
<1>2. ASSUME NEW d \in Builds, CancelReturns(d)
      PROVE  build'[c] = build[c] /\ submit'[c] = submit[c]
  <2>1. d = b
    BY <1>2 DEF CancelReturns, TypeOK
  <2>. QED  BY <1>2, <2>1 DEF CancelReturns, TypeOK
<1>3. ASSUME NEW d \in Builds, NEW next \in Reported \cup {"failed"},
             NEW note \in {"reported", PausedNote, "reaped"},
             NEW prov \in Providers \cup {NoProvider},
             CommitStatus(d, next, note, prov), UNCHANGED submit
      PROVE  build'[c] = build[c] /\ submit'[c] = submit[c]
  BY <1>3 DEF CommitStatus, TypeOK
<1>. QED  BY <1>0, <1>1, <1>2, <1>3, StepCases

-----------------------------------------------------------------------------
Answer == [b \in Builds |-> AnswerTo(b)]
Charged == [b \in Builds |-> ChargedTo(b)]

\* The answer of one build in one step: what the contract allows.
LEMMA AnswerStep ==
  ASSUME TypeOK, LinkInv, [Next]_vars, NEW b \in Builds
  PROVE  \/ AnswerTo(b)' = AnswerTo(b)
         \/ Submit(b) /\ AnswerTo(b) = "none" /\ AnswerTo(b)' = "pending"
         \/ /\ SubmitDispatched(b) \/ SubmitRejected(b) \/ Restart
            /\ AnswerTo(b) = "pending"
            /\ AnswerTo(b)' \in {"open"} \cup Terminals
         \/ /\ AnswerTo(b) = "open"
            /\ AnswerTo(b)' \in Terminals
            /\ \A c \in Builds : c # b => AnswerTo(c)' = AnswerTo(c)
<1>0. /\ build[b] \in Build /\ submit[b] \in {"none", "calling", "returned"}
      /\ build'[b] \in Build
  BY NextTypeOK DEF TypeOK
<1>1. CASE Submit(b)
  BY <1>0, <1>1 DEF Submit, AnswerTo, LinkInv, Exists, TypeOK
<1>2. CASE SubmitDispatched(b) \/ SubmitRejected(b)
  BY <1>0, <1>2 DEF SubmitDispatched, SubmitRejected, AnswerTo, Ended, TypeOK
<1>3. CASE submit'[b] # submit[b] /\ Restart
  BY <1>0, <1>3 DEF Restart, AnswerTo, Ended, TypeOK
<1>4. CASE submit'[b] = submit[b] /\ submit[b] # "returned"
  BY <1>0, <1>4 DEF AnswerTo
<1>5. CASE submit'[b] = submit[b] /\ submit[b] = "returned"
  <2>1. CASE build'[b].status = build[b].status
    BY <1>5, <2>1 DEF AnswerTo, Ended
  <2>2. CASE build'[b].status # build[b].status
    <3>1. build[b].status \notin Terminals
      BY <1>5, <2>2, SticksStep DEF Ended
    <3>2. CASE build'[b].status \notin Terminals
      BY <1>5, <3>1, <3>2 DEF AnswerTo, Ended
    <3>3. CASE build'[b].status \in Terminals
      <4>1. AnswerTo(b) = "open" /\ AnswerTo(b)' \in Terminals
        BY <1>5, <3>1, <3>3 DEF AnswerTo, Ended
      <4>2. \A c \in Builds : c # b => build'[c] = build[c] /\ submit'[c] = submit[c]
        BY <1>5, <2>2, OneRecord DEF TypeOK
      <4>3. \A c \in Builds : c # b => AnswerTo(c)' = AnswerTo(c)
        BY <4>2 DEF AnswerTo, Ended
      <4>. QED  BY <4>1, <4>3
    <3>. QED  BY <3>2, <3>3
  <2>. QED  BY <2>1, <2>2
<1>. QED  BY <1>1, <1>2, <1>3, <1>4, <1>5, SubmitMoves

\* Two bills that came after the return of Submit are one receipt.
LEMMA OneReceipt ==
  ASSUME TypeOK, BillsInv, NEW b \in Builds,
         NEW e \in billed \cup due, e.build = b, e.settled,
         NEW r \in ChargedTo(b)
  PROVE  r = Receipt(e)
<1>1. PICK x \in billed : r = Receipt(x) /\ x.build = b /\ x.settled
  BY DEF ChargedTo
<1>2. BillOf(x, build[b]) /\ BillOf(e, build[b])
  BY <1>1 DEF BillsInv
<1>. QED  BY <1>1, <1>2 DEF BillOf, Receipt

\* What a step adds to the receipts of a build.
LEMMA ChargeStep ==
  ASSUME TypeOK, BillsInv, [Next]_vars
  PROVE  \/ Charged' = Charged
         \/ \E b \in Builds, e \in due :
              /\ UNCHANGED <<build, submit>>
              /\ e.build = b
              /\ Receipt(e) \in [status : Terminals, attempt : BOOLEAN,
                                 minutes : Nat]
              /\ e.status = AnswerTo(b) /\ AnswerTo(b) \in Terminals
              /\ Charged[b] = {}
              /\ Charged' = [Charged EXCEPT ![b] = {Receipt(e)}]
<1>1. CASE UNCHANGED billed
  BY <1>1 DEF Charged, ChargedTo
<1>2. ASSUME NEW e \in due, IssueBill(e), ~e.settled
      PROVE  Charged' = Charged
  BY <1>2 DEF IssueBill, Charged, ChargedTo
<1>3. ASSUME NEW e \in due, IssueBill(e), e.settled
      PROVE  \/ Charged' = Charged
             \/ \E b \in Builds :
                  /\ UNCHANGED <<build, submit>>
                  /\ e.build = b
                  /\ Receipt(e) \in [status : Terminals, attempt : BOOLEAN,
                                     minutes : Nat]
                  /\ e.status = AnswerTo(b) /\ AnswerTo(b) \in Terminals
                  /\ Charged[b] = {}
                  /\ Charged' = [Charged EXCEPT ![b] = {Receipt(e)}]
  <2>0. e \in Bill /\ e.build \in Builds
    BY DEF TypeOK, Bill
  <2>1. UNCHANGED <<build, submit>> /\ billed' = billed \cup {e}
    BY <1>3 DEF IssueBill
  <2>2. Receipt(e) \in [status : Terminals, attempt : BOOLEAN, minutes : Nat]
    BY <2>0 DEF Receipt, Bill
  <2>3. e.status = AnswerTo(e.build) /\ AnswerTo(e.build) \in Terminals
    <3>1. submit[e.build] = "returned" /\ BillOf(e, build[e.build])
      BY <1>3 DEF BillsInv
    <3>. QED  BY <3>1 DEF BillOf, AnswerTo, Ended
  <2>4. ChargedTo(e.build)' = ChargedTo(e.build) \cup {Receipt(e)}
    BY <1>3, <2>1 DEF ChargedTo
  <2>5. \A b \in Builds : b # e.build => ChargedTo(b)' = ChargedTo(b)
    BY <2>1 DEF ChargedTo
  <2>6. CASE ChargedTo(e.build) = {}
    <3>1. Charged' = [Charged EXCEPT ![e.build] = {Receipt(e)}]
      BY <2>0, <2>4, <2>5, <2>6 DEF Charged
    <3>. QED  BY <2>0, <2>1, <2>2, <2>3, <2>6, <3>1 DEF Charged
  <2>7. CASE ChargedTo(e.build) # {}
    <3>1. ChargedTo(e.build)' = ChargedTo(e.build)
      BY <1>3, <2>0, <2>4, <2>7, OneReceipt
    <3>. QED  BY <2>5, <3>1 DEF Charged
  <2>. QED  BY <2>6, <2>7
<1>4. UNCHANGED billed \/ \E e \in due : IssueBill(e)
  BY DEF Next, Submit, SubmitDispatched, SubmitRejected, Cancel, CancelReturns,
         UpdateStatus, ReapList, ReapOne, Restart, Tick, vars
<1>. QED  BY <1>1, <1>2, <1>3, <1>4

LEMMA ContractInit == Init => Contract!Init
<1>1. Init => \A b \in Builds : AnswerTo(b) = "none" /\ ChargedTo(b) = {}
  BY DEF Init, AnswerTo, ChargedTo
<1>. QED  BY <1>1 DEF Contract!Init

LEMMA ContractStep ==
  ASSUME TypeOK, LinkInv, BillsInv, [Next]_vars
  PROVE  [Contract!Next]_(Contract!cvars)
<1> USE DEF Answer, Charged
<1>1. CASE Charged' # Charged
  <2>1. PICK b \in Builds, e \in due :
              /\ UNCHANGED <<build, submit>>
              /\ e.build = b
              /\ Receipt(e) \in [status : Terminals, attempt : BOOLEAN,
                                 minutes : Nat]
              /\ e.status = AnswerTo(b) /\ AnswerTo(b) \in Terminals
              /\ Charged[b] = {}
              /\ Charged' = [Charged EXCEPT ![b] = {Receipt(e)}]
    BY <1>1, ChargeStep
  <2>2. Answer' = Answer
    BY <2>1 DEF AnswerTo, Ended
  <2>3. Receipt(e).status = Answer[b] /\ Charged'[b] = {Receipt(e)}
    BY <2>1 DEF Receipt
  <2>4. Contract!Charge(b)
    BY <2>1, <2>2, <2>3 DEF Contract!Charge
  <2>. QED  BY <2>4 DEF Contract!Next
<1>2. CASE Charged' = Charged
  <2>1. CASE Answer' = Answer
    BY <1>2, <2>1 DEF Contract!cvars
  <2>2. CASE Answer' # Answer
    <3>1. PICK b \in Builds : AnswerTo(b)' # AnswerTo(b)
      BY <2>2
    <3>2. CASE Submit(b) /\ AnswerTo(b) = "none" /\ AnswerTo(b)' = "pending"
      <4>1. \A c \in Builds : c # b => AnswerTo(c)' = AnswerTo(c)
        BY <3>2 DEF Submit, AnswerTo, Ended, TypeOK
      <4>2. Answer' = [Answer EXCEPT ![b] = "pending"]
        BY <3>2, <4>1
      <4>3. Contract!Accept(b)
        BY <1>2, <3>2, <4>2 DEF Contract!Accept
      <4>. QED  BY <4>3 DEF Contract!Next
    <3>3. CASE /\ SubmitDispatched(b) \/ SubmitRejected(b)
               /\ AnswerTo(b) = "pending"
               /\ AnswerTo(b)' \in {"open"} \cup Terminals
      <4>1. \A c \in Builds : c # b => AnswerTo(c)' = AnswerTo(c)
        BY <3>3 DEF SubmitDispatched, SubmitRejected, AnswerTo, Ended, TypeOK
      <4>2. Answer' = [Answer EXCEPT ![b] = AnswerTo(b)']
        BY <3>3, <4>1
      <4>3. Contract!Return(b)
        BY <1>2, <3>3, <4>2 DEF Contract!Return
      <4>. QED  BY <4>3 DEF Contract!Next
    <3>4. CASE Restart
      <4>1. ASSUME NEW c \in Builds
            PROVE  IF AnswerTo(c) = "pending"
                   THEN AnswerTo(c)' \in {"open"} \cup Terminals
                   ELSE AnswerTo(c)' = AnswerTo(c)
        BY <3>4 DEF Restart, AnswerTo, Ended, TypeOK, Terminals
      <4>2. \A c \in Builds : AnswerTo(c)' \in {"none", "pending", "open"} \cup Terminals
        BY NextTypeOK DEF AnswerTo, Ended, TypeOK
      <4>3. Contract!ReturnAll
        BY <1>2, <4>1, <4>2 DEF Contract!ReturnAll
      <4>. QED  BY <4>3 DEF Contract!Next
    <3>5. CASE /\ AnswerTo(b) = "open"
               /\ AnswerTo(b)' \in Terminals
               /\ \A c \in Builds : c # b => AnswerTo(c)' = AnswerTo(c)
      <4>1. Answer' = [Answer EXCEPT ![b] = AnswerTo(b)']
        BY <3>5
      <4>2. Contract!End(b)
        BY <1>2, <3>5, <4>1 DEF Contract!End
      <4>. QED  BY <4>2 DEF Contract!Next
    <3>. QED  BY <3>1, <3>2, <3>3, <3>4, <3>5, AnswerStep
  <2>. QED  BY <2>1, <2>2
<1>. QED  BY <1>1, <1>2

\* The safety half of the refinement: for every number of builds, reports,
\* restarts and for both stores, a build is answered once with a final status
\* and charged with one receipt, which names it.
THEOREM ImplementsContract == Spec => KeepsContract
<1>1. Init => LinkInv /\ BillsInv /\ Contract!Init
  BY LinkInit, ContractInit DEF Init, BillsInv
<1>2. TypeOK /\ LinkInv /\ BillsInv /\ [Next]_vars => LinkInv' /\ BillsInv'
  BY LinkStep, BillsStep
<1>3. TypeOK /\ LinkInv /\ BillsInv /\ [Next]_vars
        => [Contract!Next]_(Contract!cvars)
  BY ContractStep
<1>. QED  BY <1>1, <1>2, <1>3, TypeCorrect, PTL
     DEF Spec, KeepsContract, Contract!Spec
=============================================================================
