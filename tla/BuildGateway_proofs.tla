----------------------- MODULE BuildGateway_proofs -------------------------
(***************************************************************************)
(* Theorems about build-gateway, for every set of builds and providers,    *)
(* every TTL and every bound.                                              *)
(***************************************************************************)
EXTENDS BuildGateway, TLAPS

\* Billed minutes are a natural number: a finish before the start (reports
\* arrive in any order) is cut off at zero.
LEMMA MinutesNat ==
  ASSUME NEW r \in Build
  PROVE  BillableMinutes(r) \in Nat
<1>1. CASE r.started = NoTime \/ r.finished = NoTime
  BY <1>1 DEF BillableMinutes
<1>2. CASE r.started # NoTime /\ r.finished # NoTime
  <2>1. r.started \in Nat /\ r.finished \in Nat
    BY <1>2, ConstantsAssumption DEF Build, Time
  <2>2. CASE r.finished <= r.started
    BY <1>2, <2>2 DEF BillableMinutes
  <2>3. CASE ~(r.finished <= r.started)
    <3>1. r.finished - r.started + TicksPerMinute - 1 \in Nat
      BY <2>1, <2>3, ConstantsAssumption
    <3>2. TicksPerMinute \in Nat \ {0}
      BY ConstantsAssumption
    <3>3. \A n \in Nat, d \in Nat \ {0} : n \div d \in Nat
      BY SMT
    <3>. QED  BY <1>2, <2>3, <3>1, <3>2, <3>3 DEF BillableMinutes
  <2>. QED  BY <2>2, <2>3
<1>. QED  BY <1>1, <1>2

\* Writing a record back keeps it a record of the store.
LEMMA PersistedBuild ==
  ASSUME NEW r \in Build
  PROVE  Persisted(r) \in Build
BY DEF Persisted, Build

\* The record of an accepted report is a record.
LEMMA StatusRecordBuild ==
  ASSUME NEW r \in Build, NEW next \in Status, NEW note \in Notes,
         NEW prov \in Providers \cup {NoProvider}, now \in Time
  PROVE  StatusRecord(r, next, note, prov) \in Build
BY DEF StatusRecord, Build

\* The guarded write of a report keeps the types of everything it touches.
LEMMA CommitStatusType ==
  ASSUME TypeOK, NEW b \in Builds, NEW next \in Status, NEW note \in Notes,
         NEW prov \in Providers \cup {NoProvider},
         CommitStatus(b, next, note, prov)
  PROVE  /\ build' \in [Builds -> Build]
         /\ due' \subseteq Bill
         /\ calls' \in [Builds -> Nat]
         /\ ranBy' \in [Builds -> SUBSET Providers]
<1> DEFINE r == StatusRecord(build[b], next, note, prov)
           named == ranBy[b] \cup ({prov} \cap Providers)
<1>1. build[b] \in Build /\ now \in Time
  BY DEF TypeOK
<1>2. r \in Build /\ r.status = next
  <2>1. r \in Build
    BY <1>1, StatusRecordBuild
  <2>2. r.status = next
    BY <1>1 DEF StatusRecord, Build
  <2>. QED  BY <2>1, <2>2
<1>3. build' \in [Builds -> Build]
  <2>1. Persisted(r) \in Build
    BY <1>2, PersistedBuild
  <2>. QED  BY <2>1 DEF CommitStatus, TypeOK
<1>4. ranBy' \in [Builds -> SUBSET Providers]
  BY DEF CommitStatus, TypeOK
<1>5. calls' \in [Builds -> Nat]
  BY DEF CommitStatus, TypeOK
<1>6. ASSUME next \in Terminals
      PROVE  BillFor(b, r, named # {}) \subseteq Bill
  <2>1. BillableMinutes(r) \in Nat
    BY <1>2, MinutesNat
  <2>2. r.attempt \in BOOLEAN /\ r.provider \in Providers \cup {NoProvider}
    BY <1>2 DEF Build
  <2>3. calls[b] + 1 \in Nat
    BY DEF TypeOK
  <2>4. r.status \in Terminals
    BY <1>2, <1>6
  <2> DEFINE s == submit[b] = "returned"
             n == named # {}
             m == BillableMinutes(r)
  <2>5. s \in BOOLEAN /\ n \in BOOLEAN
    OBVIOUS
  <2> HIDE DEF r, s, n, m
  <2>6. [build |-> b, call |-> calls[b] + 1, status |-> r.status,
         attempt |-> r.attempt, provider |-> r.provider, minutes |-> m,
         settled |-> s, named |-> n] \in Bill
    <3>1. m \in Nat
      BY <2>1 DEF m
    <3>. QED  BY <2>2, <2>3, <2>4, <2>5, <3>1 DEF Bill
  <2>. QED  BY <2>6 DEF BillFor, s, n, m
<1>7. due' \subseteq Bill
  BY <1>6 DEF CommitStatus, TypeOK
<1>. QED  BY <1>3, <1>4, <1>5, <1>7

LEMMA InitTypeOK == Init => TypeOK
<1> SUFFICES ASSUME Init PROVE TypeOK
  OBVIOUS
<1>1. 0 \in Time /\ 0 \in 0 .. MaxRestarts
  BY ConstantsAssumption DEF Time
<1>2. Absent \in Build
  BY <1>1 DEF Absent, Build, Notes
<1>. QED  BY <1>1, <1>2 DEF Init, TypeOK

LEMMA NextTypeOK == TypeOK /\ [Next]_vars => TypeOK'
<1> SUFFICES ASSUME TypeOK, [Next]_vars PROVE TypeOK'
  OBVIOUS
<1> USE ConstantsAssumption
<1>1. ASSUME NEW b \in Builds, Submit(b) PROVE TypeOK'
  BY <1>1 DEF Submit, TypeOK, Absent, Build, Notes, Status, Time, Horizon
<1>2. ASSUME NEW b \in Builds, SubmitDispatched(b) PROVE TypeOK'
  <2>1. DispatchedRecord(build[b]) \in Build
    BY DEF TypeOK, DispatchedRecord, Build, Status
  <2>2. Persisted(DispatchedRecord(build[b])) \in Build
    BY <2>1, PersistedBuild
  <2>. QED  BY <1>2, <2>2 DEF SubmitDispatched, TypeOK
<1>3. ASSUME NEW b \in Builds, SubmitRejected(b) PROVE TypeOK'
  <2>1. /\ build[b] \in Build /\ now \in Time
        /\ "rejected" \in Status /\ "dispatcher rejected" \in Notes
    BY DEF TypeOK, Status, Terminals, Notes
  <2> RejectedRecord(build[b]) \in Build
    BY <2>1 DEF RejectedRecord, Build
  <2>2. Persisted(RejectedRecord(build[b])) \in Build
    BY PersistedBuild
  <2>. QED  BY <1>3, <2>2 DEF SubmitRejected, TypeOK
<1>4. ASSUME NEW b \in Builds, NEW next \in Reported,
             NEW note \in {"reported", PausedNote},
             NEW prov \in Providers \cup {NoProvider},
             UpdateStatus(b, next, note, prov)
      PROVE  TypeOK'
  <2>1. next \in Status /\ note \in Notes
    BY DEF Notes
  <2>2. CommitStatus(b, next, note, prov)
    BY <1>4 DEF UpdateStatus
  <2>3. /\ build' \in [Builds -> Build]
        /\ due' \subseteq Bill
        /\ calls' \in [Builds -> Nat]
        /\ ranBy' \in [Builds -> SUBSET Providers]
    BY <2>1, <2>2, CommitStatusType
  <2>. QED  BY <1>4, <2>3 DEF UpdateStatus, TypeOK
<1>5. ASSUME NEW e \in due, IssueBill(e) PROVE TypeOK'
  BY <1>5 DEF IssueBill, TypeOK
<1>7. CASE ReapList
  <2>1. \A b \in Builds :
          Listed(b) \in [build : Builds, provider : Providers \cup {NoProvider}]
    BY DEF TypeOK, Listed, Build
  <2>. QED  BY <1>7, <2>1 DEF ReapList, TypeOK
<1>8. ASSUME NEW x \in sweep, ReapOne(x) PROVE TypeOK'
  <2>1. /\ x.build \in Builds
        /\ x.provider \in Providers \cup {NoProvider}
        /\ "failed" \in Status /\ "reaped" \in Notes
    BY DEF TypeOK, Status, Terminals, Notes
  <2>2. CASE CommitStatus(x.build, "failed", "reaped", x.provider)
    <3>1. /\ build' \in [Builds -> Build]
          /\ due' \subseteq Bill
          /\ calls' \in [Builds -> Nat]
          /\ ranBy' \in [Builds -> SUBSET Providers]
      BY <2>1, <2>2, CommitStatusType
    <3>. QED  BY <1>8, <3>1 DEF ReapOne, TypeOK
  <2>3. CASE UNCHANGED <<build, due, calls, ranBy>>
    BY <1>8, <2>3 DEF ReapOne, TypeOK
  <2>. QED  BY <1>8, <2>2, <2>3 DEF ReapOne
<1>9. ASSUME NEW b \in Builds, Cancel(b) PROVE TypeOK'
  BY <1>9 DEF Cancel, TypeOK
<1>10. ASSUME NEW b \in Builds, CancelReturns(b) PROVE TypeOK'
  <2>1. build[b] \in Build /\ "cancel requested" \in Notes
    BY DEF TypeOK, Notes
  <2> CancelRecord(build[b]) \in Build
    BY <2>1 DEF CancelRecord, Build
  <2>. QED  BY <1>10 DEF CancelReturns, TypeOK
<1>11. CASE Restart
  BY <1>11 DEF Restart, TypeOK
<1>12. CASE Tick
  BY <1>12 DEF Tick, TypeOK, Time
<1>13. CASE UNCHANGED vars
  BY <1>13 DEF vars, TypeOK
<1>. QED
  BY <1>1, <1>2, <1>3, <1>4, <1>5, <1>7, <1>8, <1>9, <1>10, <1>11,
     <1>12, <1>13 DEF Next

\* Type correctness of the gateway in every reachable state.
THEOREM TypeCorrect == Spec => []TypeOK
<1>1. Init => TypeOK
  BY InitTypeOK
<1>2. TypeOK /\ [Next]_vars => TypeOK'
  BY NextTypeOK
<1>. QED  BY <1>1, <1>2, PTL DEF Spec

-----------------------------------------------------------------------------
\* The actions that leave the record of every build alone.
Quiet == \/ \E e \in due : IssueBill(e)
         \/ \E b \in Builds : Cancel(b)
         \/ ReapList \/ Restart \/ Tick \/ UNCHANGED vars

LEMMA QuietKeepsBuilds == Quiet => build' = build
BY DEF Quiet, IssueBill, Cancel, ReapList, Restart, Tick, vars

\* Every step is quiet, or an outcome of Submit, or an accepted report, or the
\* write of a cancel: the case split the proofs below share.
LEMMA StepCases ==
  ASSUME TypeOK, [Next]_vars
  PROVE  \/ Quiet
         \/ \E b \in Builds : Submit(b)
         \/ \E b \in Builds : SubmitDispatched(b)
         \/ \E b \in Builds : SubmitRejected(b)
         \/ \E b \in Builds : CancelReturns(b)
         \/ \E b \in Builds, next \in Reported \cup {"failed"},
               note \in {"reported", PausedNote, "reaped"},
               prov \in Providers \cup {NoProvider} :
              /\ CommitStatus(b, next, note, prov)
              /\ note = "reaped" => next = "failed"
              /\ UNCHANGED <<submit, billed, now>>
         \/ UNCHANGED <<build, submit, due, billed, now, calls, ranBy>>
<1>1. ASSUME NEW b \in Builds, NEW next \in Reported,
             NEW note \in {"reported", PausedNote}, NEW prov \in ReportedBy,
             UpdateStatus(b, next, note, prov)
      PROVE  /\ CommitStatus(b, next, note, prov)
             /\ UNCHANGED <<submit, billed, now>>
  BY <1>1 DEF UpdateStatus
<1>2. ASSUME NEW x \in sweep, ReapOne(x)
      PROVE  \/ /\ CommitStatus(x.build, "failed", "reaped", x.provider)
                /\ UNCHANGED <<submit, billed, now>>
             \/ UNCHANGED <<build, submit, due, billed, now, calls, ranBy>>
  BY <1>2 DEF ReapOne
<1>3. \A x \in sweep : x.build \in Builds
                       /\ x.provider \in Providers \cup {NoProvider}
  BY DEF TypeOK
<1>4. ReportedBy \subseteq Providers \cup {NoProvider}
  BY ConstantsAssumption
<1>5. "reported" # "reaped" /\ PausedNote # "reaped"
  BY DEF PausedNote
<1>. QED
  BY <1>1, <1>2, <1>3, <1>4, <1>5 DEF Next, Quiet

\* What an accepted report leaves of the record.
LEMMA CommitStatusRecord ==
  ASSUME TypeOK, NEW b \in Builds, NEW next \in Status, NEW note \in Notes,
         NEW prov \in Providers \cup {NoProvider},
         CommitStatus(b, next, note, prov)
  PROVE  /\ build'[b].status = next
         /\ build'[b].note = note
         /\ build'[b].attempt = build[b].attempt
         /\ next # "running" => build'[b].started = build[b].started
         /\ build[b].started # NoTime => build'[b].started = build[b].started
         /\ build[b].finished # NoTime
              => build'[b].finished = build[b].finished
         /\ \A c \in Builds \ {b} : build'[c] = build[c]
         /\ AllowStatusUpdate(build[b].status, next, note)
<1> DEFINE r == StatusRecord(build[b], next, note, prov)
<1>1. build[b] \in Build
  BY DEF TypeOK
<1>2. /\ r.status = next
      /\ r.note = note
      /\ r.attempt = build[b].attempt
      /\ next # "running" => r.started = build[b].started
      /\ build[b].started # NoTime => r.started = build[b].started
      /\ build[b].finished # NoTime => r.finished = build[b].finished
  BY <1>1 DEF StatusRecord, Build
<1>3. /\ Persisted(r).status = r.status
      /\ Persisted(r).note = r.note
      /\ Persisted(r).attempt = r.attempt
      /\ Persisted(r).started = r.started
      /\ Persisted(r).finished = r.finished
  <2>1. r \in Build
    BY <1>1, StatusRecordBuild DEF TypeOK
  <2> HIDE DEF r
  <2>. QED  BY <2>1 DEF Persisted, Build
<1>4. /\ build' = [build EXCEPT ![b] = Persisted(r)]
      /\ AllowStatusUpdate(build[b].status, next, note)
  BY DEF CommitStatus
<1> HIDE DEF r
<1>. QED  BY <1>2, <1>3, <1>4 DEF TypeOK

-----------------------------------------------------------------------------
\* The status of an ended build whose Submit has returned does not move.
LEMMA SticksStep ==
  ASSUME TypeOK, [Next]_vars,
         NEW b \in Builds, submit[b] = "returned", Ended(b)
  PROVE  build'[b].status = build[b].status
<1>0. build[b].status \in Terminals
  BY DEF Ended
<1>1. CASE Quiet
  BY <1>1, QuietKeepsBuilds
<1>2. ASSUME NEW c \in Builds, Submit(c)
      PROVE  build'[b].status = build[b].status
  <2>1. c # b
    BY <1>0, <1>2 DEF Submit, Exists, Terminals
  <2>. QED  BY <1>2, <2>1 DEF Submit, TypeOK
<1>3. ASSUME NEW c \in Builds, SubmitDispatched(c)
      PROVE  build'[b].status = build[b].status
  BY <1>3 DEF SubmitDispatched, TypeOK
<1>4. ASSUME NEW c \in Builds, SubmitRejected(c)
      PROVE  build'[b].status = build[b].status
  BY <1>4 DEF SubmitRejected, TypeOK
<1>5. ASSUME NEW c \in Builds, CancelReturns(c)
      PROVE  build'[b].status = build[b].status
  <2>1. build[b] \in Build
    BY DEF TypeOK
  <2>2. CancelRecord(build[b]).status = build[b].status
    BY <2>1 DEF CancelRecord, Build
  <2>. QED  BY <1>5, <2>2 DEF CancelReturns, TypeOK
<1>6. ASSUME NEW c \in Builds, NEW next \in Reported \cup {"failed"},
             NEW note \in {"reported", PausedNote, "reaped"},
             NEW prov \in Providers \cup {NoProvider},
             CommitStatus(c, next, note, prov)
      PROVE  build'[b].status = build[b].status
  <2>1. next \in Status /\ note \in Notes
    BY ConstantsAssumption DEF Status, Terminals, Notes
  <2>2. CASE c # b
    BY <1>6, <2>1, <2>2, CommitStatusRecord
  <2>3. CASE c = b
    <3>1. AllowStatusUpdate(build[b].status, next, note)
          /\ build'[b].status = next
      BY <1>6, <2>1, <2>3, CommitStatusRecord
    <3>. QED  BY <1>0, <3>1 DEF AllowStatusUpdate, AllowedTransition
  <2>. QED  BY <2>2, <2>3
<1>7. CASE UNCHANGED <<build, submit, due, billed, now, calls, ranBy>>
  BY <1>7
<1>. QED  BY <1>1, <1>2, <1>3, <1>4, <1>5, <1>6, <1>7, StepCases

\* Once Submit has returned, a terminal status is sticky: the guard of
\* UpdateStatus is the only thing that stands between a late report, the
\* reaper's stale list or a cancel in flight and the record of the build.
THEOREM TerminalSticks == Spec => StickyAfterSubmit
<1> DEFINE Sticks == \A b \in Builds : submit[b] = "returned" /\ Ended(b)
                         => build'[b].status = build[b].status
<1>1. TypeOK /\ [Next]_vars => [Sticks]_vars
  BY SticksStep
<1>. QED  BY <1>1, TypeCorrect, PTL DEF Spec, StickyAfterSubmit

-----------------------------------------------------------------------------
LEMMA CancelNoteStep ==
  CancelNeverRelabelsEnded /\ TypeOK /\ [Next]_vars
    => CancelNeverRelabelsEnded'
<1> SUFFICES ASSUME CancelNeverRelabelsEnded, TypeOK, [Next]_vars,
                    NEW b \in Builds, Ended(b)'
             PROVE  build'[b].note # "cancel requested"
  BY DEF CancelNeverRelabelsEnded
<1>0. /\ build[b] \in Build
      /\ build'[b].status \in Terminals
      /\ build[b].status \in Terminals => build[b].note # "cancel requested"
  BY DEF TypeOK, Ended, CancelNeverRelabelsEnded
<1>a. CASE build'[b] = build[b]
  BY <1>0, <1>a
<1>1. CASE Quiet
  BY <1>1, <1>a, QuietKeepsBuilds
<1>2. ASSUME NEW c \in Builds, Submit(c)
      PROVE  build'[b] = build[b]
  BY <1>0, <1>2 DEF Submit, Absent, TypeOK, Terminals
<1>3. ASSUME NEW c \in Builds, SubmitDispatched(c)
      PROVE  build'[b] = build[b]
  <2>1. Persisted(DispatchedRecord(build[b])).status = "dispatched"
    BY <1>0 DEF Persisted, DispatchedRecord, Build
  <2>. QED  BY <1>0, <1>3, <2>1 DEF SubmitDispatched, TypeOK, Terminals
<1>4. ASSUME NEW c \in Builds, SubmitRejected(c)
      PROVE  \/ build'[b] = build[b]
             \/ build'[b].note = "dispatcher rejected"
  <2>1. Persisted(RejectedRecord(build[b])).note = "dispatcher rejected"
    BY <1>0 DEF Persisted, RejectedRecord, Build
  <2>. QED  BY <1>4, <2>1 DEF SubmitRejected, TypeOK
<1>5. ASSUME NEW c \in Builds, CancelReturns(c)
      PROVE  build'[b] = build[b]
  <2>1. CASE build' = build
    BY <2>1
  <2>2. CASE build' = [build EXCEPT ![c] = CancelRecord(@)]
    <3>1. \/ CancelRecord(build[b]) = build[b]
          \/ CancelRecord(build[b]).status \notin Terminals
      BY <1>0 DEF CancelRecord, Build
    <3>. QED  BY <1>0, <2>2, <3>1 DEF TypeOK
  <2>. QED  BY <1>5, <2>1, <2>2 DEF CancelReturns
<1>6. ASSUME NEW c \in Builds, NEW next \in Reported \cup {"failed"},
             NEW note \in {"reported", PausedNote, "reaped"},
             NEW prov \in Providers \cup {NoProvider},
             CommitStatus(c, next, note, prov)
      PROVE  build'[b] = build[b] \/ build'[b].note = note
  <2>1. next \in Status /\ note \in Notes
    BY ConstantsAssumption DEF Status, Terminals, Notes
  <2>. QED  BY <1>6, <2>1, CommitStatusRecord
<1>7. CASE UNCHANGED <<build, submit, due, billed, now, calls, ranBy>>
  BY <1>7, <1>a
<1>8. /\ "cancel requested" \notin {"reported", PausedNote, "reaped"}
      /\ "cancel requested" # "dispatcher rejected"
  BY DEF PausedNote
<1>. QED
  BY <1>a, <1>1, <1>2, <1>3, <1>4, <1>5, <1>6, <1>7, <1>8, StepCases

\* A cancel whose call to workloads-svc is still out when the build finishes
\* never replaces the note of the result.
THEOREM CancelKeepsResult == Spec => []CancelNeverRelabelsEnded
<1>1. Init => CancelNeverRelabelsEnded
  <2>1. Absent.status \notin Terminals
    BY DEF Absent, Terminals
  <2>. QED  BY <2>1 DEF Init, CancelNeverRelabelsEnded, Ended
<1>2. CancelNeverRelabelsEnded /\ TypeOK /\ [Next]_vars
        => CancelNeverRelabelsEnded'
  BY CancelNoteStep
<1>. QED  BY <1>1, <1>2, TypeCorrect, PTL DEF Spec

-----------------------------------------------------------------------------
(***************************************************************************)
(* Proofs about what build-gateway bills and what may end a build.         *)
(*                                                                         *)
(* BillsInv is the inductive invariant of the bills: one that was issued   *)
(* after Submit returned is the bill of the record as it still is.  The    *)
(* record of such a build is frozen in all a bill is computed from, so     *)
(* two bills of it agree although either delivery path, the reaper or a    *)
(* repeated report may have caused them.                                   *)
(***************************************************************************)

\* What a bill is computed from.
SameRun(r, q) ==
  /\ r.status = q.status
  /\ r.attempt = q.attempt
  /\ r.started = q.started
  /\ r.finished = q.finished

BillOf(e, r) ==
  /\ r.status \in Terminals
  /\ r.started # NoTime /\ r.finished # NoTime
  /\ e.status = r.status
  /\ e.attempt = r.attempt
  /\ e.minutes = BillableMinutes(r)

BillsInv ==
  \A e \in due \cup billed :
    e.settled => submit[e.build] = "returned" /\ BillOf(e, build[e.build])

LEMMA SameRunSameBill ==
  ASSUME NEW e, NEW r, NEW q, BillOf(e, r), SameRun(r, q)
  PROVE  BillOf(e, q)
BY DEF BillOf, SameRun, BillableMinutes

LEMMA PersistedSameRun ==
  ASSUME NEW r \in Build
  PROVE  SameRun(r, Persisted(r))
BY DEF Persisted, SameRun, Build

-----------------------------------------------------------------------------
\* A record with both timestamps and a terminal status is frozen once Submit
\* has returned.
LEMMA FrozenRun ==
  ASSUME TypeOK, [Next]_vars, NEW b \in Builds, submit[b] = "returned",
         build[b].status \in Terminals,
         build[b].started # NoTime, build[b].finished # NoTime
  PROVE  submit'[b] = "returned" /\ SameRun(build[b], build'[b])
<1>0. build[b] \in Build /\ SameRun(build[b], build[b])
  BY DEF TypeOK, SameRun
<1>1. CASE Quiet
  <2>1. build' = build
    BY <1>1, QuietKeepsBuilds
  <2>2. submit'[b] = "returned"
    BY <1>1 DEF Quiet, IssueBill, Cancel, ReapList, Restart, Tick, vars, TypeOK
  <2>. QED  BY <1>0, <2>1, <2>2
<1>2. ASSUME NEW c \in Builds, Submit(c)
      PROVE  submit'[b] = "returned" /\ SameRun(build[b], build'[b])
  <2>1. c # b
    BY <1>2 DEF Submit, Exists, Terminals
  <2>. QED  BY <1>0, <1>2, <2>1 DEF Submit, TypeOK
<1>3. ASSUME NEW c \in Builds, SubmitDispatched(c)
      PROVE  submit'[b] = "returned" /\ SameRun(build[b], build'[b])
  BY <1>0, <1>3 DEF SubmitDispatched, TypeOK
<1>4. ASSUME NEW c \in Builds, SubmitRejected(c)
      PROVE  submit'[b] = "returned" /\ SameRun(build[b], build'[b])
  BY <1>0, <1>4 DEF SubmitRejected, TypeOK
<1>5. ASSUME NEW c \in Builds, CancelReturns(c)
      PROVE  submit'[b] = "returned" /\ SameRun(build[b], build'[b])
  <2>1. CancelRecord(build[b]) = build[b]
    BY DEF CancelRecord
  <2>. QED  BY <1>0, <1>5, <2>1 DEF CancelReturns, TypeOK
<1>6. ASSUME NEW c \in Builds, NEW next \in Reported \cup {"failed"},
             NEW note \in {"reported", PausedNote, "reaped"},
             NEW prov \in Providers \cup {NoProvider},
             CommitStatus(c, next, note, prov), UNCHANGED submit
      PROVE  submit'[b] = "returned" /\ SameRun(build[b], build'[b])
  <2>1. next \in Status /\ note \in Notes
    BY ConstantsAssumption DEF Status, Terminals, Notes
  <2>2. CASE c # b
    <3>1. build'[b] = build[b]
      BY <1>6, <2>1, <2>2, CommitStatusRecord
    <3>. QED  BY <1>0, <1>6, <3>1
  <2>3. CASE c = b
    <3>1. /\ build'[b].status = next
          /\ build'[b].attempt = build[b].attempt
          /\ build'[b].started = build[b].started
          /\ build'[b].finished = build[b].finished
          /\ AllowStatusUpdate(build[b].status, next, note)
      BY <1>6, <2>1, <2>3, CommitStatusRecord
    <3>2. next = build[b].status
      BY <3>1 DEF AllowStatusUpdate, AllowedTransition
    <3>. QED  BY <1>6, <3>1, <3>2 DEF SameRun
  <2>. QED  BY <2>2, <2>3
<1>7. CASE UNCHANGED <<build, submit, due, billed, now, calls, ranBy>>
  BY <1>0, <1>7
<1>. QED  BY <1>1, <1>2, <1>3, <1>4, <1>5, <1>6, <1>7, StepCases

\* The bills an accepted report obliges to are bills of the record it wrote.
LEMMA NewBill ==
  ASSUME TypeOK, NEW b \in Builds, NEW next \in Status, NEW note \in Notes,
         NEW prov \in Providers \cup {NoProvider},
         CommitStatus(b, next, note, prov), NEW e \in due' \ due
  PROVE  /\ e.build = b
         /\ e.settled => submit[b] = "returned"
         /\ BillOf(e, build'[b])
<1> DEFINE r == StatusRecord(build[b], next, note, prov)
           named == ranBy[b] \cup ({prov} \cap Providers)
<1>1. r \in Build /\ r.status = next
  <2>1. build[b] \in Build /\ now \in Time
    BY DEF TypeOK
  <2>2. r \in Build
    BY <2>1, StatusRecordBuild
  <2>3. r.status = next
    BY <2>1 DEF StatusRecord, Build
  <2>. QED  BY <2>2, <2>3
<1>2. next \in Terminals /\ e \in BillFor(b, r, named # {})
  BY DEF CommitStatus
<1>3. build'[b] = Persisted(r)
  BY DEF CommitStatus, TypeOK
<1> HIDE DEF r, named
<1>4. /\ r.started # NoTime /\ r.finished # NoTime
      /\ e.build = b /\ e.status = r.status /\ e.attempt = r.attempt
      /\ e.minutes = BillableMinutes(r)
      /\ e.settled = (submit[b] = "returned")
  <2>1. r.started # NoTime /\ r.finished # NoTime
    BY <1>2 DEF BillFor
  <2>2. e = [build    |-> b,
             call     |-> calls[b] + 1,
             status   |-> r.status,
             attempt  |-> r.attempt,
             provider |-> r.provider,
             minutes  |-> BillableMinutes(r),
             settled  |-> submit[b] = "returned",
             named    |-> named # {}]
    BY <1>2, <2>1 DEF BillFor
  <2>. QED  BY <2>1, <2>2
<1>5. BillOf(e, r)
  BY <1>1, <1>2, <1>4 DEF BillOf
<1>. QED  BY <1>1, <1>3, <1>4, <1>5, PersistedSameRun, SameRunSameBill

\* A step adds a bill only by accepting a report.
LEMMA BillsOfStep ==
  ASSUME TypeOK, [Next]_vars, NEW e \in (due \cup billed)'
  PROVE  \/ e \in due \cup billed
         \/ /\ e.settled => submit'[e.build] = "returned"
            /\ BillOf(e, build'[e.build])
<1>1. CASE Quiet
  BY <1>1 DEF Quiet, IssueBill, Cancel, ReapList, Restart, Tick, vars
<1>2. ASSUME NEW c \in Builds, \/ Submit(c) \/ SubmitDispatched(c)
                               \/ SubmitRejected(c) \/ CancelReturns(c)
      PROVE  e \in due \cup billed
  BY <1>2 DEF Submit, SubmitDispatched, SubmitRejected, CancelReturns
<1>3. ASSUME NEW c \in Builds, NEW next \in Reported \cup {"failed"},
             NEW note \in {"reported", PausedNote, "reaped"},
             NEW prov \in Providers \cup {NoProvider},
             CommitStatus(c, next, note, prov), UNCHANGED <<submit, billed>>
      PROVE  \/ e \in due \cup billed
             \/ /\ e.settled => submit'[e.build] = "returned"
                /\ BillOf(e, build'[e.build])
  <2>1. next \in Status /\ note \in Notes
    BY ConstantsAssumption DEF Status, Terminals, Notes
  <2>2. CASE e \in due' \ due
    BY <1>3, <2>1, <2>2, NewBill
  <2>. QED  BY <1>3, <2>2
<1>4. CASE UNCHANGED <<build, submit, due, billed, now, calls, ranBy>>
  BY <1>4
<1>. QED  BY <1>1, <1>2, <1>3, <1>4, StepCases

LEMMA BillsStep == TypeOK /\ BillsInv /\ [Next]_vars => BillsInv'
<1> SUFFICES ASSUME TypeOK, BillsInv, [Next]_vars,
                    NEW e \in (due \cup billed)', e.settled
             PROVE  submit'[e.build] = "returned" /\ BillOf(e, build'[e.build])
  BY DEF BillsInv
<1>1. CASE e \in due \cup billed
  <2>1. e.build \in Builds
    BY <1>1 DEF TypeOK, Bill
  <2>2. submit[e.build] = "returned" /\ BillOf(e, build[e.build])
    BY <1>1 DEF BillsInv
  <2>3. submit'[e.build] = "returned"
        /\ SameRun(build[e.build], build'[e.build])
    BY <2>1, <2>2, FrozenRun DEF BillOf
  <2>. QED  BY <2>2, <2>3, SameRunSameBill
<1>. QED  BY <1>1, BillsOfStep

\* All bills a build causes after Submit returned name the same status,
\* attempt and minutes: whichever one billing-svc keeps, it is the right one.
THEOREM BillsAgree == Spec => []FinalBillsAgree
<1>1. Init => BillsInv
  BY DEF Init, BillsInv
<1>2. TypeOK /\ BillsInv /\ [Next]_vars => BillsInv'
  BY BillsStep
<1>3. BillsInv => FinalBillsAgree
  BY DEF BillsInv, FinalBillsAgree, BillOf
<1>. QED  BY <1>1, <1>2, <1>3, TypeCorrect, PTL DEF Spec

-----------------------------------------------------------------------------
\* A build no report and no answer of workloads-svc has reached has not run.
FreshInv ==
  \A b \in Builds :
    build[b].status \in {"none", "queued"}
      => build[b].started = NoTime /\ ~build[b].attempt

LEMMA FreshInit == Init => FreshInv
<1>1. Absent.started = NoTime /\ ~Absent.attempt
  BY Zenon DEF Absent
<1>2. Init => \A b \in Builds : build[b] = Absent
  BY DEF Init
<1>. QED  BY <1>1, <1>2 DEF FreshInv

LEMMA FreshStep ==
  ASSUME "queued" \notin Reported, TypeOK, FreshInv, [Next]_vars
  PROVE  FreshInv'
<1> SUFFICES ASSUME NEW b \in Builds, build'[b].status \in {"none", "queued"}
             PROVE  build'[b].started = NoTime /\ ~build'[b].attempt
  BY DEF FreshInv
<1>0. build[b] \in Build
  BY DEF TypeOK
<1>a. CASE build'[b] = build[b]
  BY <1>a DEF FreshInv
<1>1. CASE Quiet
  BY <1>1, <1>a, QuietKeepsBuilds
<1>2. ASSUME NEW c \in Builds, Submit(c)
      PROVE  build'[b] = build[b] \/ (build'[b].started = NoTime /\ ~build'[b].attempt)
  BY <1>2 DEF Submit, Absent, TypeOK
<1>3. ASSUME NEW c \in Builds, SubmitDispatched(c)
      PROVE  build'[b] = build[b]
  <2>1. Persisted(DispatchedRecord(build[b])).status = "dispatched"
    BY <1>0 DEF Persisted, DispatchedRecord, Build
  <2>. QED  BY <1>3, <2>1 DEF SubmitDispatched, TypeOK
<1>4. ASSUME NEW c \in Builds, SubmitRejected(c)
      PROVE  build'[b] = build[b]
  <2>1. Persisted(RejectedRecord(build[b])).status = "rejected"
    BY <1>0 DEF Persisted, RejectedRecord, Build
  <2>. QED  BY <1>4, <2>1 DEF SubmitRejected, TypeOK
<1>5. ASSUME NEW c \in Builds, CancelReturns(c)
      PROVE  SameRun(build[b], build'[b])
  <2>1. SameRun(build[b], CancelRecord(build[b])) /\ SameRun(build[b], build[b])
    BY <1>0 DEF CancelRecord, SameRun, Build
  <2>. QED  BY <1>5, <2>1 DEF CancelReturns, TypeOK
<1>6. ASSUME NEW c \in Builds, NEW next \in Reported \cup {"failed"},
             NEW note \in {"reported", PausedNote, "reaped"},
             NEW prov \in Providers \cup {NoProvider},
             CommitStatus(c, next, note, prov)
      PROVE  build'[b] = build[b]
  <2>1. next \in Status /\ note \in Notes /\ next # "queued" /\ next # "none"
    BY ConstantsAssumption DEF Status, Terminals, Notes
  <2>. QED  BY <1>6, <2>1, CommitStatusRecord
<1>7. CASE UNCHANGED <<build, submit, due, billed, now, calls, ranBy>>
  BY <1>7, <1>a
<1>. QED
  BY <1>a, <1>1, <1>2, <1>3, <1>4, <1>5, <1>6, <1>7, StepCases
     DEF FreshInv, SameRun

\* The stream's scheduler_paused rejection never ends a build that a report
\* started or that workloads-svc returned an attempt for (issue 811), as long
\* as no daemon reports a build back to queued.
THEOREM PausedEndsNoRun ==
  ASSUME "queued" \notin Reported
  PROVE  Spec => PausedRejectionOnlyBeforeDispatch
<1> DEFINE Ends == \A b \in Builds :
             ( /\ ~Ended(b)
               /\ build'[b].status = "rejected"
               /\ build'[b].note = PausedNote )
             => build[b].started = NoTime /\ ~build[b].attempt
<1>1. FreshInv /\ TypeOK /\ [Next]_vars => FreshInv'
  BY FreshStep
<1>2. TypeOK /\ FreshInv /\ [Next]_vars => [Ends]_vars
  <2> SUFFICES ASSUME TypeOK, FreshInv, [Next]_vars, NEW b \in Builds,
                      build[b].status \notin Terminals,
                      build'[b].status = "rejected", build'[b].note = PausedNote
               PROVE  build[b].started = NoTime /\ ~build[b].attempt
    BY DEF Ended
  <2>0. build[b] \in Build /\ "rejected" \in Terminals
    BY DEF TypeOK, Terminals
  <2>1. build'[b].status # build[b].status
    BY <2>0
  <2>2. ~Quiet /\ ~UNCHANGED <<build, submit, due, billed, now, calls, ranBy>>
    BY <2>1, QuietKeepsBuilds
  <2>3. ASSUME NEW c \in Builds, Submit(c)
        PROVE  FALSE
    BY <2>1, <2>3 DEF Submit, Absent, TypeOK
  <2>4. ASSUME NEW c \in Builds, SubmitDispatched(c)
        PROVE  FALSE
    <3>1. Persisted(DispatchedRecord(build[b])).status = "dispatched"
      BY <2>0 DEF Persisted, DispatchedRecord, Build
    <3>. QED  BY <2>1, <2>4, <3>1 DEF SubmitDispatched, TypeOK
  <2>5. ASSUME NEW c \in Builds, SubmitRejected(c)
        PROVE  FALSE
    <3>1. Persisted(RejectedRecord(build[b])).note = "dispatcher rejected"
      BY <2>0 DEF Persisted, RejectedRecord, Build
    <3>. QED  BY <2>1, <2>5, <3>1 DEF SubmitRejected, TypeOK, PausedNote
  <2>6. ASSUME NEW c \in Builds, CancelReturns(c)
        PROVE  FALSE
    <3>1. CancelRecord(build[b]).status = build[b].status
      BY <2>0 DEF CancelRecord, Build
    <3>. QED  BY <2>1, <2>6, <3>1 DEF CancelReturns, TypeOK
  <2>7. ASSUME NEW c \in Builds, NEW next \in Reported \cup {"failed"},
               NEW note \in {"reported", PausedNote, "reaped"},
               NEW prov \in Providers \cup {NoProvider},
               CommitStatus(c, next, note, prov)
        PROVE  build[b].status \in {"none", "queued"}
    <3>1. next \in Status /\ note \in Notes
      BY ConstantsAssumption DEF Status, Terminals, Notes
    <3>2. c = b
      BY <2>1, <2>7, <3>1, CommitStatusRecord
    <3>3. next = "rejected" /\ note = PausedNote
          /\ AllowStatusUpdate(build[b].status, next, note)
      BY <2>7, <3>1, <3>2, CommitStatusRecord
    <3>4. build[b].status \notin {"running", "dispatched"}
      BY <3>3 DEF AllowStatusUpdate, Downgrade, IsStreamSchedulerRejection
    <3>. QED  BY <2>0, <3>4 DEF Build, Status
  <2>. QED
    BY <2>2, <2>3, <2>4, <2>5, <2>6, <2>7, StepCases DEF FreshInv
<1>. QED
  BY <1>1, <1>2, FreshInit, TypeCorrect, PTL
     DEF Spec, PausedRejectionOnlyBeforeDispatch

-----------------------------------------------------------------------------
(***************************************************************************)
(* Attribution.  The in-memory store keeps the provider of a record, so a  *)
(* record names a provider from the first report that did.                 *)
(***************************************************************************)

NamedInv ==
  /\ \A b \in Builds : ranBy[b] # {} => Exists(b) /\ build[b].provider # NoProvider
  /\ BillsAreAttributed

LEMMA NamedInit == Init => NamedInv
BY DEF Init, NamedInv, BillsAreAttributed

\* An accepted report keeps a known provider or replaces it by another, and
\* bills with the provider the record has then.
LEMMA NamedReport ==
  ASSUME ~Durable, TypeOK, NamedInv, NEW b \in Builds, NEW next \in Status,
         NEW note \in Notes, NEW prov \in Providers \cup {NoProvider},
         CommitStatus(b, next, note, prov), UNCHANGED billed
  PROVE  NamedInv'
<1> DEFINE r == StatusRecord(build[b], next, note, prov)
           named == ranBy[b] \cup ({prov} \cap Providers)
<1>1. build[b] \in Build /\ r \in Build
  BY StatusRecordBuild DEF TypeOK
<1>2. /\ r.status = next
      /\ r.provider = IF prov = NoProvider THEN build[b].provider ELSE prov
  BY <1>1 DEF StatusRecord, Build
<1>3. named # {} => r.provider # NoProvider
  BY <1>2, ConstantsAssumption DEF NamedInv
<1>4. Persisted(r) = r
  BY DEF Persisted
<1>5. /\ build' = [build EXCEPT ![b] = r]
      /\ ranBy' = [ranBy EXCEPT ![b] = named]
      /\ due' = due \/ due' = due \cup BillFor(b, r, named # {})
  BY <1>4 DEF CommitStatus
<1> HIDE DEF r, named
<1>6. \A e \in BillFor(b, r, named # {}) : e.named => e.provider # NoProvider
  <2>1. \A e \in BillFor(b, r, named # {}) :
          e.provider = r.provider /\ e.named = (named # {})
    BY DEF BillFor
  <2>. QED  BY <1>3, <2>1
<1>7. BillsAreAttributed'
  BY <1>5, <1>6 DEF NamedInv, BillsAreAttributed
<1>8. \A c \in Builds :
        ranBy'[c] # {} => build'[c].status # "none" /\ build'[c].provider # NoProvider
  BY <1>2, <1>3, <1>5 DEF TypeOK, NamedInv, Exists, Status, Terminals
<1>. QED  BY <1>7, <1>8 DEF NamedInv, Exists

\* The other writes of a record keep its provider.
LEMMA NamedWrite ==
  ASSUME TypeOK, NamedInv, NEW b \in Builds, NEW r \in Build,
         r.provider = build[b].provider, Exists(b) => r.status # "none",
         build' = [build EXCEPT ![b] = r], UNCHANGED <<ranBy, due, billed>>
  PROVE  NamedInv'
BY DEF TypeOK, NamedInv, Exists, BillsAreAttributed

LEMMA NamedStep ==
  ASSUME ~Durable, TypeOK, NamedInv, [Next]_vars
  PROVE  NamedInv'
<1>1. CASE Quiet
  <2>1. UNCHANGED <<build, ranBy>> /\ (due \cup billed)' \subseteq due \cup billed
    BY <1>1 DEF Quiet, IssueBill, Cancel, ReapList, Restart, Tick, vars
  <2>. QED  BY <2>1 DEF NamedInv, Exists, BillsAreAttributed
<1>2. ASSUME NEW b \in Builds, Submit(b) PROVE NamedInv'
  <2>1. /\ ranBy[b] = {} /\ UNCHANGED <<ranBy, due, billed>>
        /\ \A c \in Builds : c # b => build'[c] = build[c]
    BY <1>2 DEF Submit, NamedInv, TypeOK
  <2>. QED  BY <2>1 DEF NamedInv, Exists, BillsAreAttributed
<1>3. ASSUME NEW b \in Builds, SubmitDispatched(b) PROVE NamedInv'
  <2>1. /\ DispatchedRecord(build[b]) \in Build
        /\ DispatchedRecord(build[b]).provider = build[b].provider
        /\ DispatchedRecord(build[b]).status # "none"
    BY DEF TypeOK, DispatchedRecord, Build, Status
  <2>. QED  BY <1>3, <2>1, NamedWrite DEF SubmitDispatched, Persisted
<1>4. ASSUME NEW b \in Builds, SubmitRejected(b) PROVE NamedInv'
  <2>1. /\ build[b] \in Build /\ now \in Time
        /\ "rejected" \in Status /\ "dispatcher rejected" \in Notes
    BY DEF TypeOK, Status, Terminals, Notes
  <2>2. /\ RejectedRecord(build[b]) \in Build
        /\ RejectedRecord(build[b]).provider = build[b].provider
        /\ RejectedRecord(build[b]).status # "none"
    BY <2>1 DEF RejectedRecord, Build
  <2>. QED  BY <1>4, <2>2, NamedWrite DEF SubmitRejected, Persisted
<1>5. ASSUME NEW b \in Builds, CancelReturns(b) PROVE NamedInv'
  <2>1. build[b] \in Build /\ "cancel requested" \in Notes
    BY DEF TypeOK, Notes
  <2>2. /\ CancelRecord(build[b]) \in Build
        /\ CancelRecord(build[b]).provider = build[b].provider
        /\ CancelRecord(build[b]).status = build[b].status
    BY <2>1 DEF CancelRecord, Build
  <2>3. CASE UNCHANGED build
    BY <1>5, <2>3 DEF CancelReturns, NamedInv, Exists, BillsAreAttributed
  <2>4. CASE ~UNCHANGED build
    BY <1>5, <2>2, <2>4, NamedWrite DEF CancelReturns, Exists
  <2>. QED  BY <2>3, <2>4
<1>6. ASSUME NEW b \in Builds, NEW next \in Reported \cup {"failed"},
             NEW note \in {"reported", PausedNote, "reaped"},
             NEW prov \in Providers \cup {NoProvider},
             CommitStatus(b, next, note, prov), UNCHANGED billed
      PROVE  NamedInv'
  <2>1. next \in Status /\ note \in Notes
    BY ConstantsAssumption DEF Status, Terminals, Notes
  <2>. QED  BY <1>6, <2>1, NamedReport
<1>7. CASE UNCHANGED <<build, submit, due, billed, now, calls, ranBy>>
  BY <1>7 DEF NamedInv, Exists, BillsAreAttributed
<1>. QED  BY <1>1, <1>2, <1>3, <1>4, <1>5, <1>6, <1>7, StepCases

\* Over the in-memory store, once a report has named the provider of a build
\* each bill of the build names one: no later report without a provider, no
\* outcome of Submit, no cancel and no reaper takes it from the record.  (The
\* Postgres record has no such field, so there it does not hold.)
THEOREM BillsNameProvider ==
  ASSUME ~Durable
  PROVE  Spec => []BillsAreAttributed
<1>1. TypeOK /\ NamedInv /\ [Next]_vars => NamedInv'
  BY NamedStep
<1>2. NamedInv => BillsAreAttributed
  BY DEF NamedInv
<1>. QED  BY <1>1, <1>2, NamedInit, TypeCorrect, PTL DEF Spec
=============================================================================
