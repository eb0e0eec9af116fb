------------------------ MODULE CheckpointLeaseProofs ------------------------
(***************************************************************************)
(* Proofs about CheckpointLease, for any set of processes, hosts, pids and *)
(* lease nonces.                                                           *)
(***************************************************************************)
EXTENDS CheckpointLease, TLAPS

USE DEF Up, Live, Owns

\* Every step keeps the types; a recovery pass lists an owner, not a NULL,
\* because a RUNNING row has one.
LEMMA TypeStep == TypeOK /\ LeaseHeld /\ [Next]_vars => TypeOK'
<1> SUFFICES ASSUME TypeOK, LeaseHeld, [Next]_vars PROVE TypeOK'
  OBVIOUS
<1> USE DEF TypeOK
<1>1. CASE Expire
  BY <1>1 DEF Expire, RowTyped, ProcsTyped, WorkersTyped, worker
<1>2. ASSUME NEW p \in Procs, ProcStep(p) PROVE TypeOK'
  <2>1. CASE Start(p)
    BY <2>1 DEF Start, Repaired, RowTyped, ProcsTyped, WorkersTyped, row, worker, Statuses
  <2>2. CASE Crash(p)
    <3>1. RowTyped' /\ ProcsTyped'
      BY <2>2 DEF Crash, RowTyped, ProcsTyped, row
    <3>2. WorkersTyped'
      BY <2>2 DEF Crash, WorkersTyped, Phases
    <3> QED BY <3>1, <3>2
  <2>3. CASE Scan(p)
    <3>1. owner \in Workers
      BY <2>3 DEF Scan, LeaseHeld
    <3> QED BY <2>3, <3>1 DEF Scan, RowTyped, ProcsTyped, WorkersTyped, row, worker, Candidates
  <2>4. CASE Defer(p)
    BY <2>4 DEF Defer, RowTyped, ProcsTyped, WorkersTyped, row, worker
  <2> QED BY <1>2, <2>1, <2>2, <2>3, <2>4 DEF ProcStep
<1>3. ASSUME NEW w \in Workers, WorkStep(w) PROVE TypeOK'
  <2>1. CASE CreateCheckpoint(w)
    <3>1. RowTyped'
      BY <2>1 DEF CreateCheckpoint, RowTyped, States, Actions
    <3>2. ProcsTyped'
      BY <2>1 DEF CreateCheckpoint, ProcsTyped
    <3>3. WorkersTyped'
      BY <2>1 DEF CreateCheckpoint, WorkersTyped, Phases, Release, Goto, Engage
    <3> QED BY <3>1, <3>2, <3>3
  <2>2. CASE CreateFails(w)
    <3>1. RowTyped'
      BY <2>2 DEF CreateFails, RowTyped, row, Statuses
    <3>2. ProcsTyped'
      BY <2>2 DEF CreateFails, ProcsTyped
    <3>3. WorkersTyped'
      BY <2>2 DEF CreateFails, WorkersTyped, Phases, Release, Goto, Engage
    <3> QED BY <3>1, <3>2, <3>3
  <2>3. CASE Heartbeat(w)
    <3>1. RowTyped'
      BY <2>3 DEF Heartbeat, RowTyped, row
    <3>2. ProcsTyped'
      BY <2>3 DEF Heartbeat, ProcsTyped
    <3>3. WorkersTyped'
      BY <2>3 DEF Heartbeat, WorkersTyped, Phases, Release, Goto, Engage
    <3> QED BY <3>1, <3>2, <3>3
  <2>4. CASE Cancel(w)
    <3>1. RowTyped'
      BY <2>4 DEF Cancel, RowTyped, row
    <3>2. ProcsTyped'
      BY <2>4 DEF Cancel, ProcsTyped
    <3>3. WorkersTyped'
      BY <2>4 DEF Cancel, WorkersTyped, Phases, Release, Goto, Engage
    <3> QED BY <3>1, <3>2, <3>3
  <2>5. ASSUME NEW a \in Actions, Publish(w, a) PROVE TypeOK'
    <3>1. RowTyped'
      BY <2>5 DEF Publish, RowTyped, RenewAs, States
    <3>2. ProcsTyped'
      BY <2>5 DEF Publish, ProcsTyped
    <3>3. WorkersTyped'
      BY <2>5 DEF Publish, WorkersTyped, RowTyped
    <3> QED BY <3>1, <3>2, <3>3
  <2>6. ASSUME NEW s \in FinishStates, Finish(w, s) PROVE TypeOK'
    <3>1. RowTyped'
      BY <2>6 DEF Finish, RowTyped, FinishRow, StatusFor, Statuses, FinishStates, States, Final
    <3>2. ProcsTyped'
      BY <2>6 DEF Finish, ProcsTyped
    <3>3. WorkersTyped'
      BY <2>6 DEF Finish, WorkersTyped, Phases, Release, Goto, Engage
    <3> QED BY <3>1, <3>2, <3>3
  <2>7. CASE WorkFails(w)
    <3>1. RowTyped'
      BY <2>7 DEF WorkFails, RowTyped, row
    <3>2. ProcsTyped'
      BY <2>7 DEF WorkFails, ProcsTyped
    <3>3. WorkersTyped'
      BY <2>7 DEF WorkFails, WorkersTyped, Phases, Release, Goto, Engage
    <3> QED BY <3>1, <3>2, <3>3
  <2>8. CASE FailFinish(w)
    <3>1. RowTyped'
      BY <2>8 DEF FailFinish, RowTyped, row, FinishRow, Statuses, States, Final
    <3>2. ProcsTyped'
      BY <2>8 DEF FailFinish, ProcsTyped
    <3>3. WorkersTyped'
      BY <2>8 DEF FailFinish, WorkersTyped, Phases, Release, Goto, Engage
    <3> QED BY <3>1, <3>2, <3>3
  <2>9. ASSUME NEW s \in {"SUCCEEDED", "DELIVERY_PENDING"}, DeliverFinish(w, s) PROVE TypeOK'
    <3>1. RowTyped'
      BY <2>9 DEF DeliverFinish, RowTyped, FinishRow, Statuses, States, Final
    <3>2. ProcsTyped'
      BY <2>9 DEF DeliverFinish, ProcsTyped
    <3>3. WorkersTyped'
      BY <2>9 DEF DeliverFinish, WorkersTyped, Phases, Release, Goto, Engage
    <3> QED BY <3>1, <3>2, <3>3
  <2>10. CASE DeliverLost(w)
    <3>1. RowTyped'
      BY <2>10 DEF DeliverLost, RowTyped, row
    <3>2. ProcsTyped'
      BY <2>10 DEF DeliverLost, ProcsTyped
    <3>3. WorkersTyped'
      BY <2>10 DEF DeliverLost, WorkersTyped, Phases, Release, Goto, Engage
    <3> QED BY <3>1, <3>2, <3>3
  <2>11. CASE RecoverManual(w)
    <3>1. RowTyped'
      BY <2>11 DEF RecoverManual, RowTyped, row, FinishRow, Statuses, States, Final
    <3>2. ProcsTyped'
      BY <2>11 DEF RecoverManual, ProcsTyped
    <3>3. WorkersTyped'
      BY <2>11 DEF RecoverManual, WorkersTyped, Phases, Release, Goto, Engage
    <3> QED BY <3>1, <3>2, <3>3
  <2>12. CASE RecoverResume(w)
    <3>1. RowTyped'
      BY <2>12 DEF RecoverResume, RowTyped, row
    <3>2. ProcsTyped'
      BY <2>12 DEF RecoverResume, ProcsTyped
    <3>3. WorkersTyped'
      BY <2>12 DEF RecoverResume, WorkersTyped, Phases, Release, Goto, Engage
    <3> QED BY <3>1, <3>2, <3>3
  <2> QED BY <1>3, <2>1, <2>2, <2>3, <2>4, <2>5, <2>6,
           <2>7, <2>8, <2>9, <2>10, <2>11, <2>12 DEF WorkStep
<1>4. ASSUME NEW p \in Procs, NEW w \in Workers, AcquireStep(p, w) PROVE TypeOK'
  <2>1. CASE LaunchInsert(p, w)
    <3>1. RowTyped'
      BY <2>1 DEF LaunchInsert, RowTyped, row, Statuses
    <3>2. ProcsTyped'
      BY <2>1 DEF LaunchInsert, ProcsTyped
    <3>3. WorkersTyped'
      BY <2>1 DEF LaunchInsert, WorkersTyped, Phases, Release, Goto, Engage
    <3> QED BY <3>1, <3>2, <3>3
  <2>2. CASE Retry(p, w)
    <3>1. RowTyped'
      BY <2>2 DEF Retry, RowTyped, RenewAs, States
    <3>2. ProcsTyped'
      BY <2>2 DEF Retry, ProcsTyped
    <3>3. WorkersTyped'
      BY <2>2 DEF Retry, WorkersTyped, RowTyped, Phases, Engage
    <3> QED BY <3>1, <3>2, <3>3
  <2>3. CASE Claim(p, w)
    <3>1. RowTyped'
      BY <2>3 DEF Claim, RowTyped, RenewAs, States
    <3>2. ProcsTyped'
      BY <2>3 DEF Claim, ProcsTyped
    <3>3. WorkersTyped'
      BY <2>3 DEF Claim, WorkersTyped, RowTyped, Phases, Engage
    <3> QED BY <3>1, <3>2, <3>3
  <2> QED BY <1>4, <2>1, <2>2, <2>3 DEF AcquireStep
<1>5. CASE UNCHANGED vars
  BY <1>5 DEF vars, row, worker, RowTyped, ProcsTyped, WorkersTyped
<1> QED BY <1>1, <1>2, <1>3, <1>4, <1>5 DEF Next

\* A row gets an owner when it becomes RUNNING and loses it when it ends.
LEMMA LeaseHeldStep == TypeOK /\ LeaseHeld /\ [Next]_vars => LeaseHeld'
<1> SUFFICES ASSUME TypeOK, LeaseHeld, [Next]_vars PROVE LeaseHeld'
  OBVIOUS
<1> USE NoWorkerAssumption DEF LeaseHeld, row, worker, FinishRow, RenewAs
<1>1. CASE Expire
  BY <1>1 DEF Expire
<1>2. ASSUME NEW p \in Procs, ProcStep(p) PROVE LeaseHeld'
  <2>1. CASE Start(p)
    BY <2>1 DEF Start
  <2>2. CASE Crash(p)
    BY <2>2 DEF Crash
  <2>3. CASE Scan(p)
    BY <2>3 DEF Scan
  <2>4. CASE Defer(p)
    BY <2>4 DEF Defer
  <2> QED BY <1>2, <2>1, <2>2, <2>3, <2>4 DEF ProcStep
<1>3. ASSUME NEW w \in Workers, WorkStep(w) PROVE LeaseHeld'
  <2>1. CASE CreateCheckpoint(w)
    BY <2>1 DEF CreateCheckpoint
  <2>2. CASE CreateFails(w)
    BY <2>2 DEF CreateFails
  <2>3. CASE Heartbeat(w)
    BY <2>3 DEF Heartbeat
  <2>4. CASE Cancel(w)
    BY <2>4 DEF Cancel
  <2>5. ASSUME NEW a \in Actions, Publish(w, a) PROVE LeaseHeld'
    BY <2>5 DEF Publish
  <2>6. ASSUME NEW s \in FinishStates, Finish(w, s) PROVE LeaseHeld'
    BY <2>6 DEF Finish, FinishStates
  <2>7. CASE WorkFails(w)
    BY <2>7 DEF WorkFails
  <2>8. CASE FailFinish(w)
    BY <2>8 DEF FailFinish
  <2>9. ASSUME NEW s \in {"SUCCEEDED", "DELIVERY_PENDING"}, DeliverFinish(w, s) PROVE LeaseHeld'
    BY <2>9 DEF DeliverFinish
  <2>10. CASE DeliverLost(w)
    BY <2>10 DEF DeliverLost
  <2>11. CASE RecoverManual(w)
    BY <2>11 DEF RecoverManual
  <2>12. CASE RecoverResume(w)
    BY <2>12 DEF RecoverResume
  <2> QED BY <1>3, <2>1, <2>2, <2>3, <2>4, <2>5, <2>6,
           <2>7, <2>8, <2>9, <2>10, <2>11, <2>12 DEF WorkStep
<1>4. ASSUME NEW p \in Procs, NEW w \in Workers, AcquireStep(p, w) PROVE LeaseHeld'
  <2>1. CASE LaunchInsert(p, w)
    BY <2>1 DEF LaunchInsert
  <2>2. CASE Retry(p, w)
    BY <2>2 DEF Retry
  <2>3. CASE Claim(p, w)
    BY <2>3 DEF Claim
  <2> QED BY <1>4, <2>1, <2>2, <2>3 DEF AcquireStep
<1>5. CASE UNCHANGED vars
  BY <1>5 DEF vars, row, worker
<1> QED BY <1>1, <1>2, <1>3, <1>4, <1>5 DEF Next

\* A final state and its run status are written together, and the launch's and
\* the repair's writes of the status come when there is no final state.
LEMMA VerdictStep == LeaseInvariant /\ [Next]_vars => VerdictAgreement'
<1> SUFFICES ASSUME LeaseInvariant, [Next]_vars PROVE VerdictAgreement'
  OBVIOUS
<1> USE DEF LeaseInvariant, VerdictAgreement, row, worker, FinishRow, RenewAs
<1>1. CASE Expire
  BY <1>1 DEF Expire
<1>2. ASSUME NEW p \in Procs, ProcStep(p) PROVE VerdictAgreement'
  <2>1. CASE Start(p)
    BY <2>1 DEF Start, Repaired
  <2>2. CASE Crash(p)
    BY <2>2 DEF Crash
  <2>3. CASE Scan(p)
    BY <2>3 DEF Scan
  <2>4. CASE Defer(p)
    BY <2>4 DEF Defer
  <2> QED BY <1>2, <2>1, <2>2, <2>3, <2>4 DEF ProcStep
<1>3. ASSUME NEW w \in Workers, WorkStep(w) PROVE VerdictAgreement'
  <2>1. CASE CreateCheckpoint(w)
    BY <2>1 DEF CreateCheckpoint
  <2>2. CASE CreateFails(w)
    BY <2>2 DEF CreateFails, LaunchOrder
  <2>3. CASE Heartbeat(w)
    BY <2>3 DEF Heartbeat
  <2>4. CASE Cancel(w)
    BY <2>4 DEF Cancel
  <2>5. ASSUME NEW a \in Actions, Publish(w, a) PROVE VerdictAgreement'
    BY <2>5 DEF Publish
  <2>6. ASSUME NEW s \in FinishStates, Finish(w, s) PROVE VerdictAgreement'
    BY <2>6 DEF Finish, FinishStates, StatusFor
  <2>7. CASE WorkFails(w)
    BY <2>7 DEF WorkFails
  <2>8. CASE FailFinish(w)
    BY <2>8 DEF FailFinish
  <2>9. ASSUME NEW s \in {"SUCCEEDED", "DELIVERY_PENDING"}, DeliverFinish(w, s) PROVE VerdictAgreement'
    BY <2>9 DEF DeliverFinish
  <2>10. CASE DeliverLost(w)
    BY <2>10 DEF DeliverLost
  <2>11. CASE RecoverManual(w)
    BY <2>11 DEF RecoverManual
  <2>12. CASE RecoverResume(w)
    BY <2>12 DEF RecoverResume
  <2> QED BY <1>3, <2>1, <2>2, <2>3, <2>4, <2>5, <2>6,
           <2>7, <2>8, <2>9, <2>10, <2>11, <2>12 DEF WorkStep
<1>4. ASSUME NEW p \in Procs, NEW w \in Workers, AcquireStep(p, w) PROVE VerdictAgreement'
  <2>1. CASE LaunchInsert(p, w)
    BY <2>1 DEF LaunchInsert, LaunchOrder
  <2>2. CASE Retry(p, w)
    BY <2>2 DEF Retry
  <2>3. CASE Claim(p, w)
    BY <2>3 DEF Claim
  <2> QED BY <1>4, <2>1, <2>2, <2>3 DEF AcquireStep
<1>5. CASE UNCHANGED vars
  BY <1>5 DEF vars, row, worker
<1> QED BY <1>1, <1>2, <1>3, <1>4, <1>5 DEF Next

\* A worker that passes the compare-and-swap finds the row RUNNING.
LEMMA OwnerRuns ==
  ASSUME LeaseHeld, NEW w \in Workers, Owns(w)
  PROVE  state = "RUNNING"
BY NoWorkerAssumption DEF LeaseHeld

\* The next lemma's argument for a step of a worker that is past its launch.
LEMMA PastLaunch ==
  ASSUME TypeOK, LaunchOrder, NEW w \in Workers, phase[w] # "launching",
         NEW ph \in Phases \ {"launching"}, phase' = [phase EXCEPT ![w] = ph],
         runStatus' # "none" \/ runStatus' = runStatus,
         \/ state' = state /\ revision' = revision
         \/ state # "absent" /\ state' # "absent"
  PROVE  LaunchOrder'
BY DEF TypeOK, WorkersTyped, LaunchOrder

LEMMA LaunchStep == LeaseInvariant /\ [Next]_vars => LaunchOrder'
<1> SUFFICES ASSUME LeaseInvariant, [Next]_vars PROVE LaunchOrder'
  OBVIOUS
<1> USE DEF LeaseInvariant, row, worker, FinishRow, RenewAs
<1>1. CASE Expire
  BY <1>1 DEF Expire, LaunchOrder
<1>2. ASSUME NEW p \in Procs, ProcStep(p) PROVE LaunchOrder'
  <2>1. CASE Start(p)
    BY <2>1 DEF Start, Repaired, LaunchOrder
  <2>2. CASE Crash(p)
    BY <2>2 DEF Crash, LaunchOrder, TypeOK, WorkersTyped
  <2>3. CASE Scan(p)
    BY <2>3 DEF Scan, LaunchOrder
  <2>4. CASE Defer(p)
    BY <2>4 DEF Defer, LaunchOrder
  <2> QED BY <1>2, <2>1, <2>2, <2>3, <2>4 DEF ProcStep
<1>3. ASSUME NEW w \in Workers, WorkStep(w) PROVE LaunchOrder'
  <2>1. CASE CreateCheckpoint(w)
    BY <2>1 DEF CreateCheckpoint, LaunchOrder, TypeOK, WorkersTyped, Engage
  <2>2. CASE CreateFails(w)
    BY <2>2 DEF CreateFails, LaunchOrder, TypeOK, WorkersTyped, Release
  <2>3. CASE Heartbeat(w)
    BY <2>3 DEF Heartbeat, LaunchOrder
  <2>4. CASE Cancel(w)
    BY <2>4 DEF Cancel, LaunchOrder
  <2>5. ASSUME NEW a \in Actions, Publish(w, a) PROVE LaunchOrder'
    BY <2>5, OwnerRuns DEF Publish, LaunchOrder
  <2>6. ASSUME NEW s \in FinishStates, Finish(w, s) PROVE LaunchOrder'
    BY <2>6, OwnerRuns, PastLaunch, "free" \in Phases \ {"launching"} DEF Finish, FinishStates, StatusFor, Release, Phases
  <2>7. CASE WorkFails(w)
    BY <2>7 DEF WorkFails, LaunchOrder, TypeOK, WorkersTyped, Goto
  <2>8. CASE FailFinish(w)
    <3>1. CASE Owns(w)
      <4> HIDE DEF Owns
      <4> QED BY <2>8, <3>1, OwnerRuns, PastLaunch, "free" \in Phases \ {"launching"} DEF FailFinish, Release, Phases
    <3>2. CASE ~Owns(w)
      BY <2>8, <3>2, PastLaunch, "free" \in Phases \ {"launching"} DEF FailFinish, Release, Phases
    <3> QED BY <3>1, <3>2
  <2>9. ASSUME NEW s \in {"SUCCEEDED", "DELIVERY_PENDING"}, DeliverFinish(w, s) PROVE LaunchOrder'
    BY <2>9, OwnerRuns, PastLaunch, "free" \in Phases \ {"launching"} DEF DeliverFinish, Release, Phases
  <2>10. CASE DeliverLost(w)
    BY <2>10 DEF DeliverLost, LaunchOrder, TypeOK, WorkersTyped, Release
  <2>11. CASE RecoverManual(w)
    <3>1. CASE Owns(w)
      <4> HIDE DEF Owns
      <4> QED BY <2>11, <3>1, OwnerRuns, PastLaunch, "free" \in Phases \ {"launching"} DEF RecoverManual, Release, Phases
    <3>2. CASE ~Owns(w)
      BY <2>11, <3>2, PastLaunch, "free" \in Phases \ {"launching"} DEF RecoverManual, Release, Phases
    <3> QED BY <3>1, <3>2
  <2>12. CASE RecoverResume(w)
    BY <2>12 DEF RecoverResume, LaunchOrder, TypeOK, WorkersTyped, Goto
  <2> QED BY <1>3, <2>1, <2>2, <2>3, <2>4, <2>5, <2>6,
           <2>7, <2>8, <2>9, <2>10, <2>11, <2>12 DEF WorkStep
<1>4. ASSUME NEW p \in Procs, NEW w \in Workers, AcquireStep(p, w) PROVE LaunchOrder'
  <2>1. CASE LaunchInsert(p, w)
    BY <2>1 DEF LaunchInsert, LaunchOrder, TypeOK, WorkersTyped, Engage
  <2>2. CASE Retry(p, w)
    BY <2>2 DEF Retry, LaunchOrder, TypeOK, WorkersTyped, Engage, Fresh
  <2>3. CASE Claim(p, w)
    BY <2>3 DEF Claim, LaunchOrder, TypeOK, WorkersTyped, Engage, Fresh, Claimable
  <2> QED BY <1>4, <2>1, <2>2, <2>3 DEF AcquireStep
<1>5. CASE UNCHANGED vars
  BY <1>5 DEF vars, row, worker, LaunchOrder
<1> QED BY <1>1, <1>2, <1>3, <1>4, <1>5 DEF Next

\* Workers start on processes that are up, and a crash takes them with it.
LEMMA HomesStep == LeaseInvariant /\ [Next]_vars => HomesUp'
<1> SUFFICES ASSUME LeaseInvariant, [Next]_vars PROVE HomesUp'
  OBVIOUS
<1> USE DEF LeaseInvariant, HomesUp, TypeOK, WorkersTyped, ProcsTyped, row, worker, Release, Goto, Engage
<1>1. CASE Expire
  BY <1>1 DEF Expire
<1>2. ASSUME NEW p \in Procs, ProcStep(p) PROVE HomesUp'
  <2>1. CASE Start(p)
    BY <2>1 DEF Start
  <2>2. CASE Crash(p)
    BY <2>2 DEF Crash
  <2>3. CASE Scan(p)
    BY <2>3 DEF Scan
  <2>4. CASE Defer(p)
    BY <2>4 DEF Defer
  <2> QED BY <1>2, <2>1, <2>2, <2>3, <2>4 DEF ProcStep
<1>3. ASSUME NEW w \in Workers, WorkStep(w) PROVE HomesUp'
  <2>1. CASE CreateCheckpoint(w)
    BY <2>1 DEF CreateCheckpoint
  <2>2. CASE CreateFails(w)
    BY <2>2 DEF CreateFails
  <2>3. CASE Heartbeat(w)
    BY <2>3 DEF Heartbeat
  <2>4. CASE Cancel(w)
    BY <2>4 DEF Cancel
  <2>5. ASSUME NEW a \in Actions, Publish(w, a) PROVE HomesUp'
    BY <2>5 DEF Publish
  <2>6. ASSUME NEW s \in FinishStates, Finish(w, s) PROVE HomesUp'
    BY <2>6 DEF Finish
  <2>7. CASE WorkFails(w)
    BY <2>7 DEF WorkFails
  <2>8. CASE FailFinish(w)
    BY <2>8 DEF FailFinish
  <2>9. ASSUME NEW s \in {"SUCCEEDED", "DELIVERY_PENDING"}, DeliverFinish(w, s) PROVE HomesUp'
    BY <2>9 DEF DeliverFinish
  <2>10. CASE DeliverLost(w)
    BY <2>10 DEF DeliverLost
  <2>11. CASE RecoverManual(w)
    BY <2>11 DEF RecoverManual
  <2>12. CASE RecoverResume(w)
    BY <2>12 DEF RecoverResume
  <2> QED BY <1>3, <2>1, <2>2, <2>3, <2>4, <2>5, <2>6,
           <2>7, <2>8, <2>9, <2>10, <2>11, <2>12 DEF WorkStep
<1>4. ASSUME NEW p \in Procs, NEW w \in Workers, AcquireStep(p, w) PROVE HomesUp'
  <2>1. CASE LaunchInsert(p, w)
    BY <2>1 DEF LaunchInsert
  <2>2. CASE Retry(p, w)
    BY <2>2 DEF Retry
  <2>3. CASE Claim(p, w)
    BY <2>3 DEF Claim
  <2> QED BY <1>4, <2>1, <2>2, <2>3 DEF AcquireStep
<1>5. CASE UNCHANGED vars
  BY <1>5 DEF vars, row, worker
<1> QED BY <1>1, <1>2, <1>3, <1>4, <1>5 DEF Next

\* Every listed candidate is overtaken by a write that raises the revision.
LEMMA NewRevision ==
  ASSUME TypeOK, CandidatesKnown, revision' = revision + 1,
         \A p \in Procs : candidate'[p] \in {candidate[p], NoCandidate}
  PROVE  CandidatesKnown'
<1> SUFFICES ASSUME NEW p \in Procs, candidate'[p] # NoCandidate
             PROVE  candidate'[p].revision <= revision' /\ candidate'[p].revision # revision'
  BY DEF CandidatesKnown
<1>1. candidate'[p] = candidate[p] /\ candidate[p] \in Candidates
  BY DEF TypeOK, ProcsTyped
<1>2. candidate[p].revision \in Nat /\ revision \in Nat
  BY <1>1 DEF Candidates, TypeOK, RowTyped
<1>3. candidate[p].revision <= revision
  BY <1>1 DEF CandidatesKnown
<1> QED BY <1>1, <1>2, <1>3

LEMMA CandidatesStep == LeaseInvariant /\ [Next]_vars => CandidatesKnown'
<1> SUFFICES ASSUME LeaseInvariant, [Next]_vars PROVE CandidatesKnown'
  OBVIOUS
<1> USE DEF LeaseInvariant, row, worker, FinishRow, RenewAs
<1>1. CASE Expire
  BY <1>1 DEF Expire, CandidatesKnown
<1>2. ASSUME NEW p \in Procs, ProcStep(p) PROVE CandidatesKnown'
  <2>1. CASE Start(p)
    BY <2>1 DEF Start, CandidatesKnown
  <2>2. CASE Crash(p)
    BY <2>2 DEF Crash, CandidatesKnown, TypeOK, ProcsTyped
  <2>3. CASE Scan(p)
    <3>1. revision \in Nat
      BY DEF TypeOK, RowTyped
    <3> QED BY <2>3, <3>1 DEF Scan, CandidatesKnown, TypeOK, ProcsTyped
  <2>4. CASE Defer(p)
    BY <2>4 DEF Defer, CandidatesKnown, TypeOK, ProcsTyped
  <2> QED BY <1>2, <2>1, <2>2, <2>3, <2>4 DEF ProcStep
<1>3. ASSUME NEW w \in Workers, WorkStep(w) PROVE CandidatesKnown'
  <2>1. CASE CreateCheckpoint(w)
    <3>1. revision = 0
      BY <2>1 DEF CreateCheckpoint, LaunchOrder
    <3> QED BY <2>1, <3>1, NewRevision DEF CreateCheckpoint
  <2>2. CASE CreateFails(w)
    BY <2>2 DEF CreateFails, CandidatesKnown
  <2>3. CASE Heartbeat(w)
    BY <2>3 DEF Heartbeat, CandidatesKnown
  <2>4. CASE Cancel(w)
    BY <2>4 DEF Cancel, CandidatesKnown
  <2>5. ASSUME NEW a \in Actions, Publish(w, a) PROVE CandidatesKnown'
    BY <2>5, NewRevision DEF Publish
  <2>6. ASSUME NEW s \in FinishStates, Finish(w, s) PROVE CandidatesKnown'
    BY <2>6, NewRevision DEF Finish
  <2>7. CASE WorkFails(w)
    BY <2>7 DEF WorkFails, CandidatesKnown
  <2>8. CASE FailFinish(w)
    <3>1. CASE Owns(w)
      BY <2>8, <3>1, NewRevision DEF FailFinish
    <3>2. CASE ~Owns(w)
      BY <2>8, <3>2 DEF FailFinish, CandidatesKnown
    <3> QED BY <3>1, <3>2
  <2>9. ASSUME NEW s \in {"SUCCEEDED", "DELIVERY_PENDING"}, DeliverFinish(w, s) PROVE CandidatesKnown'
    BY <2>9, NewRevision DEF DeliverFinish
  <2>10. CASE DeliverLost(w)
    BY <2>10 DEF DeliverLost, CandidatesKnown
  <2>11. CASE RecoverManual(w)
    <3>1. CASE Owns(w)
      BY <2>11, <3>1, NewRevision DEF RecoverManual
    <3>2. CASE ~Owns(w)
      BY <2>11, <3>2 DEF RecoverManual, CandidatesKnown
    <3> QED BY <3>1, <3>2
  <2>12. CASE RecoverResume(w)
    BY <2>12 DEF RecoverResume, CandidatesKnown
  <2> QED BY <1>3, <2>1, <2>2, <2>3, <2>4, <2>5, <2>6,
           <2>7, <2>8, <2>9, <2>10, <2>11, <2>12 DEF WorkStep
<1>4. ASSUME NEW p \in Procs, NEW w \in Workers, AcquireStep(p, w) PROVE CandidatesKnown'
  <2>1. CASE LaunchInsert(p, w)
    BY <2>1 DEF LaunchInsert, CandidatesKnown
  <2>2. CASE Retry(p, w)
    BY <2>2, NewRevision DEF Retry
  <2>3. CASE Claim(p, w)
    <3>1. \A q \in Procs : candidate'[q] \in {candidate[q], NoCandidate}
      BY <2>3 DEF Claim, TypeOK, ProcsTyped
    <3> QED BY <2>3, <3>1, NewRevision DEF Claim
  <2> QED BY <1>4, <2>1, <2>2, <2>3 DEF AcquireStep
<1>5. CASE UNCHANGED vars
  BY <1>5 DEF vars, row, worker, CandidatesKnown
<1> QED BY <1>1, <1>2, <1>3, <1>4, <1>5 DEF Next

LEMMA InitStep == Init => LeaseInvariant
<1> SUFFICES ASSUME Init PROVE LeaseInvariant
  OBVIOUS
<1>1. RowTyped /\ LeaseHeld /\ VerdictAgreement
  BY DEF Init, RowTyped, States, Statuses, Actions, LeaseHeld, VerdictAgreement
<1>2. ProcsTyped
  BY DEF Init, ProcsTyped
<1>3. WorkersTyped
  <2>1. (CHOOSE p \in Procs : TRUE) \in Procs
    BY ServersAssumption, Zenon
  <2>2. home \in [Workers -> Procs]
    BY <2>1 DEF Init
  <2> QED BY <2>2 DEF Init, WorkersTyped, Phases
<1>4. LaunchOrder /\ HomesUp /\ CandidatesKnown
  BY DEF Init, LaunchOrder, HomesUp, CandidatesKnown
<1> QED BY <1>1, <1>2, <1>3, <1>4 DEF LeaseInvariant, TypeOK

\* The inductive invariant: types, who holds the lease, the order of a launch,
\* processes of live code, candidates against the row, and the run's verdict.
THEOREM Safety == Spec => []LeaseInvariant
<1>1. LeaseInvariant /\ [Next]_vars => LeaseInvariant'
  BY TypeStep, LeaseHeldStep, LaunchStep, HomesStep, CandidatesStep, VerdictStep
     DEF LeaseInvariant
<1> QED BY InitStep, <1>1, PTL DEF Spec

\* Every variable of the checkpoint model keeps its type.
THEOREM TypeCorrect == Spec => []TypeOK
<1>1. LeaseInvariant => TypeOK
  BY DEF LeaseInvariant
<1> QED BY <1>1, Safety, PTL

\* A checkpoint that has ended always comes with its run status, whatever
\* processes start, crash or recover meanwhile.
THEOREM VerdictsAgree == Spec => []VerdictAgreement
<1>1. LeaseInvariant => VerdictAgreement
  BY DEF LeaseInvariant
<1> QED BY <1>1, Safety, PTL

\* No step writes a row whose state is final, or its run status.
LEMMA FinalStep == LeaseInvariant /\ [Next]_vars => (state \in Final => UNCHANGED <<row, runStatus>>)
<1> SUFFICES ASSUME LeaseInvariant, [Next]_vars, state \in Final
             PROVE  UNCHANGED <<row, runStatus>>
  OBVIOUS
<1>1. owner = NoWorker /\ state # "RUNNING" /\ state # "absent" /\ state # "DELIVERY_PENDING"
  BY DEF LeaseInvariant, LeaseHeld, Final
<1>2. runStatus \in {"DONE", "FAILED"}
  BY DEF LeaseInvariant, VerdictAgreement, Final
<1> USE NoWorkerAssumption, <1>1, <1>2
<1>3. CASE Expire
  BY <1>3 DEF Expire
<1>4. ASSUME NEW p \in Procs, ProcStep(p) PROVE UNCHANGED <<row, runStatus>>
  <2>1. CASE Start(p)
    BY <2>1 DEF Start, Repaired, row
  <2>2. CASE Crash(p)
    BY <2>2 DEF Crash
  <2>3. CASE Scan(p)
    BY <2>3 DEF Scan
  <2>4. CASE Defer(p)
    BY <2>4 DEF Defer
  <2> QED BY <1>4, <2>1, <2>2, <2>3, <2>4 DEF ProcStep
<1>5. ASSUME NEW w \in Workers, WorkStep(w) PROVE UNCHANGED <<row, runStatus>>
  <2>1. CASE CreateCheckpoint(w)
    BY <2>1 DEF CreateCheckpoint, LeaseInvariant, LaunchOrder, row
  <2>2. CASE CreateFails(w)
    BY <2>2 DEF CreateFails, LeaseInvariant, LaunchOrder, row
  <2>3. CASE Heartbeat(w)
    BY <2>3 DEF Heartbeat, row
  <2>4. CASE Cancel(w)
    BY <2>4 DEF Cancel
  <2>5. ASSUME NEW a \in Actions, Publish(w, a) PROVE UNCHANGED <<row, runStatus>>
    BY <2>5 DEF Publish
  <2>6. ASSUME NEW s \in FinishStates, Finish(w, s) PROVE UNCHANGED <<row, runStatus>>
    BY <2>6 DEF Finish
  <2>7. CASE WorkFails(w)
    BY <2>7 DEF WorkFails
  <2>8. CASE FailFinish(w)
    BY <2>8 DEF FailFinish
  <2>9. ASSUME NEW s \in {"SUCCEEDED", "DELIVERY_PENDING"}, DeliverFinish(w, s) PROVE UNCHANGED <<row, runStatus>>
    BY <2>9 DEF DeliverFinish
  <2>10. CASE DeliverLost(w)
    BY <2>10 DEF DeliverLost
  <2>11. CASE RecoverManual(w)
    BY <2>11 DEF RecoverManual
  <2>12. CASE RecoverResume(w)
    BY <2>12 DEF RecoverResume
  <2> QED BY <1>5, <2>1, <2>2, <2>3, <2>4, <2>5, <2>6,
           <2>7, <2>8, <2>9, <2>10, <2>11, <2>12 DEF WorkStep
<1>6. ASSUME NEW p \in Procs, NEW w \in Workers, AcquireStep(p, w) PROVE UNCHANGED <<row, runStatus>>
  <2>1. CASE LaunchInsert(p, w)
    BY <2>1 DEF LaunchInsert, row
  <2>2. CASE Retry(p, w)
    BY <2>2 DEF Retry
  <2>3. CASE Claim(p, w)
    BY <2>3 DEF Claim, Claimable
  <2> QED BY <1>6, <2>1, <2>2, <2>3 DEF AcquireStep
<1>7. CASE UNCHANGED vars
  BY <1>7 DEF vars, row, worker
<1> QED BY <1>3, <1>4, <1>5, <1>6, <1>7 DEF Next

\* Late heartbeats, publications, finishes, claims and startup repairs leave an
\* ended run as it is.
THEOREM FinalStates == Spec => FinalIsFinal
<1>1. LeaseInvariant /\ [Next]_vars => [(state \in Final) => UNCHANGED <<row, runStatus>>]_vars
  BY FinalStep
<1> QED BY <1>1, Safety, PTL DEF Spec, FinalIsFinal

\* The pid check answers yes for a worker that is still running.
LEMMA LivePid ==
  ASSUME TypeOK, HomesUp, NEW w \in Workers, Live(w)
  PROVE  PidAlive(w)
BY DEF TypeOK, WorkersTyped, HomesUp, PidAlive

\* A claim finds the row's own owner on its list, and that owner is either dead
\* or on another host.
LEMMA ClaimedOwner ==
  ASSUME LeaseInvariant, NEW p \in Procs, NEW w \in Workers, Claim(p, w)
  PROVE  /\ owner \in Workers /\ candidate[p].owner = owner
         /\ Live(owner) => HostOf[home[owner]] # HostOf[p]
<1>1. owner \in Workers /\ candidate[p].owner = owner
  BY DEF LeaseInvariant, LeaseHeld, CandidatesKnown, Claim, Claimable
<1>2. Live(owner) => PidAlive(owner)
  BY <1>1, LivePid DEF LeaseInvariant
<1> QED BY <1>1, <1>2 DEF Claim, MustDefer, SameHost

LEMMA HandoverStep == LeaseInvariant /\ [Next]_vars => (TakenOver => LeftBehind)
<1> SUFFICES ASSUME LeaseInvariant, [Next]_vars, TakenOver
             PROVE  LeftBehind
  OBVIOUS
<1>1. owner # NoWorker /\ owner' # owner /\ owner' # NoWorker /\ state = "RUNNING"
  BY DEF TakenOver, LeaseInvariant, LeaseHeld
<1> USE <1>1
<1>2. CASE Expire
  BY <1>2 DEF Expire, row, FinishRow, RenewAs
<1>3. ASSUME NEW p \in Procs, ProcStep(p) PROVE LeftBehind
  <2>1. CASE Start(p)
    BY <2>1 DEF Start, row, FinishRow, RenewAs
  <2>2. CASE Crash(p)
    BY <2>2 DEF Crash, row, FinishRow, RenewAs
  <2>3. CASE Scan(p)
    BY <2>3 DEF Scan, row, FinishRow, RenewAs
  <2>4. CASE Defer(p)
    BY <2>4 DEF Defer, row, FinishRow, RenewAs
  <2> QED BY <1>3, <2>1, <2>2, <2>3, <2>4 DEF ProcStep
<1>4. ASSUME NEW w \in Workers, WorkStep(w) PROVE LeftBehind
  <2>1. CASE CreateCheckpoint(w)
    BY <2>1 DEF CreateCheckpoint, LeaseInvariant, LaunchOrder
  <2>2. CASE CreateFails(w)
    BY <2>2 DEF CreateFails, row, FinishRow, RenewAs
  <2>3. CASE Heartbeat(w)
    BY <2>3 DEF Heartbeat, row, FinishRow, RenewAs
  <2>4. CASE Cancel(w)
    BY <2>4 DEF Cancel, row, FinishRow, RenewAs
  <2>5. ASSUME NEW a \in Actions, Publish(w, a) PROVE LeftBehind
    BY <2>5 DEF Publish, row, FinishRow, RenewAs
  <2>6. ASSUME NEW s \in FinishStates, Finish(w, s) PROVE LeftBehind
    BY <2>6 DEF Finish, row, FinishRow, RenewAs
  <2>7. CASE WorkFails(w)
    BY <2>7 DEF WorkFails, row, FinishRow, RenewAs
  <2>8. CASE FailFinish(w)
    BY <2>8 DEF FailFinish, row, FinishRow, RenewAs
  <2>9. ASSUME NEW s \in {"SUCCEEDED", "DELIVERY_PENDING"}, DeliverFinish(w, s) PROVE LeftBehind
    BY <2>9 DEF DeliverFinish, row, FinishRow, RenewAs
  <2>10. CASE DeliverLost(w)
    BY <2>10 DEF DeliverLost, row, FinishRow, RenewAs
  <2>11. CASE RecoverManual(w)
    BY <2>11 DEF RecoverManual, row, FinishRow, RenewAs
  <2>12. CASE RecoverResume(w)
    BY <2>12 DEF RecoverResume, row, FinishRow, RenewAs
  <2> QED BY <1>4, <2>1, <2>2, <2>3, <2>4, <2>5, <2>6,
           <2>7, <2>8, <2>9, <2>10, <2>11, <2>12 DEF WorkStep
<1>5. ASSUME NEW p \in Procs, NEW w \in Workers, AcquireStep(p, w) PROVE LeftBehind
  <2>1. CASE LaunchInsert(p, w)
    BY <2>1 DEF LaunchInsert, row, FinishRow, RenewAs
  <2>2. CASE Retry(p, w)
    BY <2>2 DEF Retry, row, FinishRow, RenewAs
  <2>3. CASE Claim(p, w)
    <3>1. Live(owner) => HostOf[home[owner]] # HostOf[p]
      BY <2>3, ClaimedOwner
    <3>2. owner' = w /\ home' = [home EXCEPT ![w] = p] /\ lease = "expired"
      BY <2>3 DEF Claim, RenewAs, Engage, Claimable
    <3>3. home'[w] = p
      BY <3>2 DEF LeaseInvariant, TypeOK, WorkersTyped
    <3> QED BY <3>1, <3>2, <3>3 DEF LeftBehind
  <2> QED BY <1>5, <2>1, <2>2, <2>3 DEF AcquireStep
<1>6. CASE UNCHANGED vars
  BY <1>6 DEF vars, row, worker
<1> QED BY <1>2, <1>3, <1>4, <1>5, <1>6 DEF Next

\* A lease changes hands only after it ran out, and on one host only when the
\* code of its holder has stopped.
THEOREM Handovers == Spec => OrderlyHandover
<1>1. LeaseInvariant /\ [Next]_vars => [TakenOver => LeftBehind]_vars
  BY HandoverStep
<1> QED BY <1>1, Safety, PTL DEF Spec, OrderlyHandover

\* On one host the last holder of a claimable row is dead, so nobody else is
\* past its launch.
LEMMA ClaimAlone ==
  ASSUME OneHost, LeaseInvariant, WorkersHoldLease, NEW p \in Procs, NEW w \in Workers, Claim(p, w)
  PROVE  \A v \in Workers : phase[v] \in {"free", "launching"}
<1>1. ~Live(owner)
  <2>1. owner \in Workers => home[owner] \in Procs
    BY DEF LeaseInvariant, TypeOK, WorkersTyped
  <2> QED BY <2>1, ClaimedOwner DEF OneHost
<1> QED BY <1>1 DEF WorkersHoldLease

LEMMA HoldStep ==
  OneHost /\ LeaseInvariant /\ WorkersHoldLease /\ [Next]_vars => WorkersHoldLease'
<1> SUFFICES ASSUME OneHost, LeaseInvariant, WorkersHoldLease, [Next]_vars PROVE WorkersHoldLease'
  OBVIOUS
<1>1. phase \in [Workers -> Phases] /\ rev \in [Workers -> Nat] /\ revision \in Nat
  BY DEF LeaseInvariant, TypeOK, WorkersTyped, RowTyped
<1> USE <1>1, NoWorkerAssumption DEF WorkersHoldLease, row, worker
<1>2. CASE Expire
  BY <1>2 DEF Expire, FinishRow, RenewAs, Release, Goto, Engage
<1>3. ASSUME NEW p \in Procs, ProcStep(p) PROVE WorkersHoldLease'
  <2>1. CASE Start(p)
    BY <2>1 DEF Start, FinishRow, RenewAs, Release, Goto, Engage
  <2>2. CASE Crash(p)
    BY <2>2 DEF Crash, FinishRow
  <2>3. CASE Scan(p)
    BY <2>3 DEF Scan, FinishRow, RenewAs, Release, Goto, Engage
  <2>4. CASE Defer(p)
    BY <2>4 DEF Defer, FinishRow, RenewAs, Release, Goto, Engage
  <2> QED BY <1>3, <2>1, <2>2, <2>3, <2>4 DEF ProcStep
<1>4. ASSUME NEW w \in Workers, WorkStep(w) PROVE WorkersHoldLease'
  <2>1. CASE CreateCheckpoint(w)
    BY <2>1 DEF CreateCheckpoint, FinishRow, RenewAs, Release, Goto, Engage, LeaseInvariant, LaunchOrder
  <2>2. CASE CreateFails(w)
    BY <2>2 DEF CreateFails, FinishRow, RenewAs, Release, Goto, Engage
  <2>3. CASE Heartbeat(w)
    BY <2>3 DEF Heartbeat, FinishRow, RenewAs, Release, Goto, Engage
  <2>4. CASE Cancel(w)
    BY <2>4 DEF Cancel, FinishRow, RenewAs, Release, Goto, Engage
  <2>5. ASSUME NEW a \in Actions, Publish(w, a) PROVE WorkersHoldLease'
    BY <2>5 DEF Publish, FinishRow, RenewAs, Release, Goto, Engage, Executing
  <2>6. ASSUME NEW s \in FinishStates, Finish(w, s) PROVE WorkersHoldLease'
    BY <2>6 DEF Finish, FinishRow, RenewAs, Release, Goto, Engage, FinishStates
  <2>7. CASE WorkFails(w)
    BY <2>7 DEF WorkFails, FinishRow, RenewAs, Release, Goto, Engage
  <2>8. CASE FailFinish(w)
    BY <2>8 DEF FailFinish, FinishRow, RenewAs, Release, Goto, Engage
  <2>9. ASSUME NEW s \in {"SUCCEEDED", "DELIVERY_PENDING"}, DeliverFinish(w, s) PROVE WorkersHoldLease'
    BY <2>9 DEF DeliverFinish, FinishRow, RenewAs, Release, Goto, Engage
  <2>10. CASE DeliverLost(w)
    BY <2>10 DEF DeliverLost, FinishRow, RenewAs, Release, Goto, Engage
  <2>11. CASE RecoverManual(w)
    BY <2>11 DEF RecoverManual, FinishRow, RenewAs, Release, Goto, Engage
  <2>12. CASE RecoverResume(w)
    BY <2>12 DEF RecoverResume, FinishRow, RenewAs, Release, Goto, Engage
  <2> QED BY <1>4, <2>1, <2>2, <2>3, <2>4, <2>5, <2>6,
           <2>7, <2>8, <2>9, <2>10, <2>11, <2>12 DEF WorkStep
<1>5. ASSUME NEW p \in Procs, NEW w \in Workers, AcquireStep(p, w) PROVE WorkersHoldLease'
  <2>1. CASE LaunchInsert(p, w)
    BY <2>1 DEF LaunchInsert, FinishRow, RenewAs, Release, Goto, Engage
  <2>2. CASE Retry(p, w)
    BY <2>2 DEF Retry, FinishRow, RenewAs, Release, Goto, Engage
  <2>3. CASE Claim(p, w)
    <3>1. \A v \in Workers : phase[v] \in {"free", "launching"}
      BY <2>3, ClaimAlone
    <3>2. home[candidate[p].owner] \in Procs
      BY <2>3, ClaimedOwner DEF LeaseInvariant, TypeOK, WorkersTyped
    <3>3. SameHost(p, candidate[p].owner)
      BY <3>2 DEF SameHost, OneHost
    <3> QED BY <2>3, <3>1, <3>3 DEF Claim, RenewAs, Engage
  <2> QED BY <1>5, <2>1, <2>2, <2>3 DEF AcquireStep
<1>6. CASE UNCHANGED vars
  BY <1>6 DEF vars, row, worker
<1> QED BY <1>2, <1>3, <1>4, <1>5, <1>6 DEF Next

\* When every process reports the same host name, no two workers ever execute
\* the run at once, whichever of them crash, stall or scan with old candidates.
THEOREM Exclusive == OneHost => (Spec => []ExclusiveExecution)
<1> SUFFICES ASSUME OneHost PROVE Spec => []ExclusiveExecution
  OBVIOUS
<1>1. Init => WorkersHoldLease
  BY DEF Init, WorkersHoldLease
<1>2. LeaseInvariant /\ WorkersHoldLease /\ [Next]_vars => WorkersHoldLease'
  BY HoldStep
<1>3. WorkersHoldLease => ExclusiveExecution
  BY DEF WorkersHoldLease, ExclusiveExecution, Executing
<1> QED BY Safety, <1>1, <1>2, <1>3, PTL DEF Spec

\* A CASE expression hides from the provers what it equals: here it is spelled out.
LEMMA StageOf ==
  /\ state = "absent" => Stage = "none"
  /\ state = "RUNNING" => Stage = "open"
  /\ state = "DELIVERY_PENDING" => Stage = "parked"
  /\ state \in Final => Stage = "closed"
BY DEF Stage, Final

LEMMA StageNext ==
  /\ state' = "absent" => Stage' = "none"
  /\ state' = "RUNNING" => Stage' = "open"
  /\ state' = "DELIVERY_PENDING" => Stage' = "parked"
  /\ state' \in Final => Stage' = "closed"
BY DEF Stage, Final

LEMMA OutcomeOf ==
  /\ runStatus \in {"none", "RUNNING"} => Outcome = "undecided"
  /\ runStatus = "DONE" => Outcome = "DONE"
  /\ runStatus \in {"FAILED", "RESTART_FAILED"} => Outcome = "FAILED"
BY DEF Outcome

LEMMA OutcomeNext ==
  /\ runStatus' \in {"none", "RUNNING"} => Outcome' = "undecided"
  /\ runStatus' = "DONE" => Outcome' = "DONE"
  /\ runStatus' \in {"FAILED", "RESTART_FAILED"} => Outcome' = "FAILED"
BY DEF Outcome

\* A step that leaves state, revision, owner and run status alone is a stutter.
LEMMA Stutter ==
  ASSUME UNCHANGED <<state, revision, owner, runStatus>>
  PROVE  UNCHANGED Fenced!vars
BY DEF Fenced!vars, Stage, Outcome

\* finishWorkflowCheckpoint closes the run or parks it.
LEMMA EndsRun ==
  ASSUME LeaseInvariant, NEW w \in Workers, Owns(w),
         NEW s \in Final \cup {"DELIVERY_PENDING"}, NEW r \in {"DONE", "FAILED"},
         s = "DELIVERY_PENDING" => r = "DONE", FinishRow(s, r)
  PROVE  Fenced!Next
<1>1. state = "RUNNING" /\ Stage = "open" /\ owner = w
  BY OwnerRuns, StageOf DEF LeaseInvariant
<1>2. owner' = NoWorker /\ revision' = revision + 1 /\ Outcome' = r
  BY OutcomeNext DEF FinishRow
<1>3. CASE s = "DELIVERY_PENDING"
  <2>1. Stage' = "parked"
    BY <1>3, StageNext DEF FinishRow
  <2> QED BY <1>1, <1>2, <1>3, <2>1 DEF Fenced!Next, Fenced!Park
<1>4. CASE s \in Final
  <2>1. Stage' = "closed"
    BY <1>4, StageNext DEF FinishRow
  <2> QED BY <1>1, <1>2, <2>1 DEF Fenced!Next, Fenced!Close
<1> QED BY <1>3, <1>4

\* A publication writes, a retry reopens and a claim takes over.
LEMMA RenewsRun ==
  ASSUME LeaseInvariant, NEW w \in Workers, NEW a \in Actions,
         state \in {"RUNNING", "DELIVERY_PENDING"}, RenewAs(w, a), UNCHANGED runStatus
  PROVE  Fenced!Next
<1>1. Stage' = "open" /\ owner' = w /\ revision' = revision + 1 /\ UNCHANGED Outcome
  BY StageNext DEF RenewAs, Outcome
<1>2. CASE state = "DELIVERY_PENDING"
  BY <1>1, <1>2, StageOf DEF Fenced!Next, Fenced!Reopen
<1>3. CASE state = "RUNNING" /\ owner = w
  BY <1>1, <1>3, StageOf DEF Fenced!Next, Fenced!Write
<1>4. CASE state = "RUNNING" /\ owner # w
  BY <1>1, <1>4, StageOf DEF Fenced!Next, Fenced!TakeOver
<1> QED BY <1>2, <1>3, <1>4

LEMMA FencedStep == LeaseInvariant /\ [Next]_vars => [Fenced!Next]_(Fenced!vars)
<1> SUFFICES ASSUME LeaseInvariant, [Next]_vars PROVE Fenced!Next \/ UNCHANGED Fenced!vars
  OBVIOUS
<1>1. CASE Expire
  BY <1>1, Stutter DEF Expire, row, worker
<1>2. ASSUME NEW p \in Procs, ProcStep(p) PROVE Fenced!Next \/ UNCHANGED Fenced!vars
  <2>1. CASE Start(p)
    <3>1. CASE runStatus = "RUNNING" /\ state # "RUNNING"
      <4>1. state = "absent"
        BY <3>1 DEF LeaseInvariant, VerdictAgreement, TypeOK, RowTyped, States, Final
      <4>2. Stage = "none" /\ Stage' = "none" /\ Outcome' = "FAILED"
        BY <2>1, <3>1, <4>1, StageOf, StageNext, OutcomeNext DEF Start, Repaired, row
      <4> QED BY <2>1, <4>2 DEF Start, row, Fenced!Next, Fenced!Abandon
    <3>2. CASE ~(runStatus = "RUNNING" /\ state # "RUNNING")
      BY <2>1, <3>2, Stutter DEF Start, Repaired, row
    <3> QED BY <3>1, <3>2
  <2>2. CASE Crash(p)
    BY <2>2, Stutter DEF Crash, row, worker
  <2>3. CASE Scan(p)
    BY <2>3, Stutter DEF Scan, row, worker
  <2>4. CASE Defer(p)
    BY <2>4, Stutter DEF Defer, row, worker
  <2> QED BY <1>2, <2>1, <2>2, <2>3, <2>4 DEF ProcStep
<1>3. ASSUME NEW w \in Workers, WorkStep(w) PROVE Fenced!Next \/ UNCHANGED Fenced!vars
  <2>1. CASE CreateCheckpoint(w)
    <3>1. Stage = "none" /\ Stage' = "open" /\ UNCHANGED Outcome
      BY <2>1, StageOf, StageNext DEF CreateCheckpoint, LeaseInvariant, LaunchOrder, Outcome
    <3> QED BY <2>1, <3>1 DEF CreateCheckpoint, Fenced!Next, Fenced!Open
  <2>2. CASE CreateFails(w)
    <3>1. Stage = "none" /\ Stage' = "none"
      BY <2>2, StageOf, StageNext DEF CreateFails, row, LeaseInvariant, LaunchOrder
    <3>2. Outcome' = "FAILED"
      BY <2>2, OutcomeNext DEF CreateFails
    <3> QED BY <2>2, <3>1, <3>2 DEF CreateFails, row, Fenced!Next, Fenced!Abandon
  <2>3. CASE Heartbeat(w)
    BY <2>3, Stutter DEF Heartbeat, row, worker
  <2>4. CASE Cancel(w)
    BY <2>4, Stutter DEF Cancel, row, worker
  <2>5. ASSUME NEW a \in Actions, Publish(w, a) PROVE Fenced!Next \/ UNCHANGED Fenced!vars
    <3>1. state = "RUNNING"
      BY <2>5, OwnerRuns DEF Publish, LeaseInvariant
    <3> QED BY <2>5, <3>1, RenewsRun DEF Publish
  <2>6. ASSUME NEW s \in FinishStates, Finish(w, s) PROVE Fenced!Next \/ UNCHANGED Fenced!vars
    <3>1. s \in Final \cup {"DELIVERY_PENDING"}
      BY DEF FinishStates, Final
    <3>2. StatusFor(s) \in {"DONE", "FAILED"} /\ (s = "DELIVERY_PENDING" => StatusFor(s) = "DONE")
      BY DEF StatusFor
    <3>3. Owns(w) /\ FinishRow(s, StatusFor(s))
      BY <2>6 DEF Finish
    <3> HIDE DEF Owns
    <3> QED BY <3>1, <3>2, <3>3, EndsRun
  <2>7. CASE WorkFails(w)
    BY <2>7, Stutter DEF WorkFails, row, worker
  <2>8. CASE FailFinish(w)
    <3>1. CASE Owns(w)
      <4>1. FinishRow("FAILED", "FAILED")
        BY <2>8, <3>1 DEF FailFinish
      <4>2. "FAILED" \in Final
        BY DEF Final
      <4> HIDE DEF Owns
      <4> QED BY <3>1, <4>1, <4>2, EndsRun
    <3>2. CASE ~Owns(w)
      BY <2>8, <3>2, Stutter DEF FailFinish, row
    <3> QED BY <3>1, <3>2
  <2>9. ASSUME NEW s \in {"SUCCEEDED", "DELIVERY_PENDING"}, DeliverFinish(w, s) PROVE Fenced!Next \/ UNCHANGED Fenced!vars
    <3>1. s \in Final \cup {"DELIVERY_PENDING"}
      BY DEF Final
    <3>2. Owns(w) /\ FinishRow(s, "DONE")
      BY <2>9 DEF DeliverFinish
    <3> HIDE DEF Owns
    <3> QED BY <3>1, <3>2, EndsRun
  <2>10. CASE DeliverLost(w)
    BY <2>10, Stutter DEF DeliverLost, row, worker
  <2>11. CASE RecoverManual(w)
    <3>1. CASE Owns(w)
      <4>1. FinishRow("RECOVERY_REQUIRED", "FAILED")
        BY <2>11, <3>1 DEF RecoverManual
      <4>2. "RECOVERY_REQUIRED" \in Final
        BY DEF Final
      <4> HIDE DEF Owns
      <4> QED BY <3>1, <4>1, <4>2, EndsRun
    <3>2. CASE ~Owns(w)
      BY <2>11, <3>2, Stutter DEF RecoverManual, row
    <3> QED BY <3>1, <3>2
  <2>12. CASE RecoverResume(w)
    BY <2>12, Stutter DEF RecoverResume, row, worker
  <2> QED BY <1>3, <2>1, <2>2, <2>3, <2>4, <2>5, <2>6,
           <2>7, <2>8, <2>9, <2>10, <2>11, <2>12 DEF WorkStep
<1>4. ASSUME NEW p \in Procs, NEW w \in Workers, AcquireStep(p, w) PROVE Fenced!Next \/ UNCHANGED Fenced!vars
  <2>1. CASE LaunchInsert(p, w)
    <3>1. UNCHANGED Outcome
      BY <2>1, OutcomeOf, OutcomeNext DEF LaunchInsert
    <3> QED BY <2>1, <3>1 DEF LaunchInsert, row, Fenced!vars, Stage
  <2>2. CASE Retry(p, w)
    <3>1. action \in Actions
      BY DEF LeaseInvariant, TypeOK, RowTyped
    <3> QED BY <2>2, <3>1, RenewsRun DEF Retry
  <2>3. CASE Claim(p, w)
    <3>1. action \in Actions
      BY DEF LeaseInvariant, TypeOK, RowTyped
    <3> QED BY <2>3, <3>1, RenewsRun DEF Claim, Claimable
  <2> QED BY <1>4, <2>1, <2>2, <2>3 DEF AcquireStep
<1>5. CASE UNCHANGED vars
  BY <1>5, Stutter DEF vars, row, worker
<1> QED BY <1>1, <1>2, <1>3, <1>4, <1>5 DEF Next

\* Every step of the processes is a step of the fenced run or a stutter.
THEOREM FencedRunImplemented == Spec => ImplementsFencedRun
<1>1. Init => Fenced!Init
  BY StageOf, OutcomeOf DEF Init, Fenced!Init
<1> QED BY <1>1, FencedStep, Safety, PTL DEF Spec, ImplementsFencedRun, Fenced!Spec

=============================================================================
