--------------------------- MODULE CheckpointLease ---------------------------
(***************************************************************************)
(* The checkpoint row of one dashboard spec run, the parent agent_run row, *)
(* and every process that can touch them through the shared SQLite file.   *)
(*                                                                         *)
(* A worker is one CheckpointRuntime of src/workflows/spec-session.ts: the *)
(* nonce in its lease owner string is the worker itself, so two leases of  *)
(* one process are two workers. Time is the variable lease: any write of   *)
(* lease_expires_at makes it fresh, and it may expire whenever the row is  *)
(* RUNNING. What the pipeline does between two checkpoint writes is left   *)
(* to other modules: here a worker may publish or end at any time.         *)
(***************************************************************************)
EXTENDS Naturals

CONSTANTS
  Procs,        \* operating-system processes, each started at most once
  Servers,      \* the processes that run the dashboard server and its timer
  Workers,      \* lease nonces; a nonce nobody remembers may be drawn again
  HostOf,       \* the host name a process reports
  PidOf,        \* the pid a process gets; two processes may get the same one
  MaxRevision,  \* bound: publications and retries stop at this revision
  MaxClaims,    \* bound: recovery claims stop at this revision
  NoWorker      \* the NULL of lease_owner and of an empty recovery candidate

ASSUME ServersAssumption == Servers \subseteq Procs /\ Procs # {}
ASSUME HostAssumption ==
  /\ DOMAIN HostOf = Procs
  /\ DOMAIN PidOf = Procs
ASSUME BoundAssumption == MaxRevision \in Nat /\ MaxClaims \in Nat
ASSUME NoWorkerAssumption == NoWorker \notin Workers

VARIABLES
  state,      \* workflow_checkpoint.state, "absent" while there is no row
  revision,   \* workflow_checkpoint.revision
  owner,      \* workflow_checkpoint.lease_owner
  lease,      \* "expired" once lease_expires_at has been reached, else "fresh"
  action,     \* what the snapshot says was in progress
  runStatus,  \* agent_run.status of the parent row (and its error_type)
  proc,       \* "new", "up" or "dead"
  candidate,  \* the row a process's recovery pass listed and has not judged
  phase,      \* where the worker's code is
  home,       \* the process the worker runs in
  rev,        \* CheckpointRuntime.revision
  aborted     \* workers whose AbortController has been aborted

row     == <<state, revision, owner, lease, action>>
worker  == <<phase, home, rev, aborted>>
vars    == <<row, runStatus, proc, candidate, worker>>

Final     == {"WAITING_USER", "SUCCEEDED", "FAILED", "CANCELLED", "RECOVERY_REQUIRED"}
States    == Final \cup {"absent", "RUNNING", "DELIVERY_PENDING"}
Actions   == {"pipeline", "delivery"}
Statuses  == {"none", "RUNNING", "DONE", "FAILED", "RESTART_FAILED"}
Phases    == {"free", "launching", "running", "failing", "recovering",
              "rejecting", "delivering", "retrying"}
Executing == {"running", "delivering", "retrying"}

Candidates  == [owner : Workers, revision : Nat]
NoCandidate == [owner |-> NoWorker, revision |-> 0]

Up(p)   == proc[p] = "up"
Live(w) == phase[w] # "free"

-----------------------------------------------------------------------------
(***************************************************************************)
(* Faults: what some definitions below would be with a mistake in the code *)
(* they model. No action uses them.                                        *)
(***************************************************************************)

\* UPDATE without the revision and owner conditions.
OwnsAnything(w) == TRUE

\* Startup repair that does not look at the checkpoint.
RepairedWithCheckpoint == IF runStatus = "RUNNING" THEN "RESTART_FAILED" ELSE runStatus

\* A publication that reuses the revision.
RenewSameRevision(w, a) ==
  /\ state' = "RUNNING" /\ owner' = w /\ lease' = "fresh" /\ action' = a
  /\ UNCHANGED revision

\* Recovery that trusts the lease alone, or any live process of the host.
MustDeferNever(p) == FALSE
PidAliveAny(w) == \E q \in Procs : Up(q) /\ HostOf[q] = HostOf[home[w]]

\* A claim that does not check the lease once more.
ClaimableAnyLease(p) == state = "RUNNING" /\ revision = candidate[p].revision

\* A delivery that keeps trying after its write was refused.
DeliverLostRetries(w) ==
  /\ phase[w] \in {"delivering", "retrying"} /\ (revision # rev[w] \/ owner # w)
  /\ UNCHANGED vars

-----------------------------------------------------------------------------

\* The compare-and-swap of updateWorkflowCheckpoint and finishWorkflowCheckpoint.
Owns(w) == revision = rev[w] /\ owner = w

\* A nonce that no row, candidate or running code holds is as good as new.
Fresh(w) ==
  /\ phase[w] = "free"
  /\ owner # w
  /\ \A p \in Procs : candidate[p].owner # w

Init ==
  /\ state = "absent" /\ revision = 0 /\ owner = NoWorker
  /\ lease = "fresh" /\ action = "pipeline"
  /\ runStatus = "none"
  /\ proc = [p \in Procs |-> "new"]
  /\ candidate = [p \in Procs |-> NoCandidate]
  /\ phase = [w \in Workers |-> "free"]
  /\ home = [w \in Workers |-> CHOOSE p \in Procs : TRUE]
  /\ rev = [w \in Workers |-> 0]
  /\ aborted = {}

-----------------------------------------------------------------------------
(***************************************************************************)
(* Processes.                                                              *)
(***************************************************************************)

\* repairServerRestartRuns: a RUNNING parent without a RUNNING checkpoint.
Repaired == IF runStatus = "RUNNING" /\ state # "RUNNING"
            THEN "RESTART_FAILED" ELSE runStatus

\* Every process that imports the store, server or CLI, repairs rows on import.
\* Two processes that are up on one host never have the same pid.
Start(p) ==
  /\ proc[p] = "new"
  /\ \A q \in Procs : Up(q) => HostOf[q] # HostOf[p] \/ PidOf[q] # PidOf[p]
  /\ proc' = [proc EXCEPT ![p] = "up"]
  /\ runStatus' = Repaired
  /\ UNCHANGED <<row, candidate, worker>>

\* A crash or an exit takes the process's workers and its recovery pass with it.
Crash(p) ==
  /\ Up(p)
  /\ proc' = [proc EXCEPT ![p] = "dead"]
  /\ candidate' = [candidate EXCEPT ![p] = NoCandidate]
  /\ phase' = [w \in Workers |-> IF home[w] = p THEN "free" ELSE phase[w]]
  /\ rev' = [w \in Workers |-> IF home[w] = p THEN 0 ELSE rev[w]]
  /\ aborted' = {w \in aborted : home[w] # p}
  /\ UNCHANGED <<row, runStatus, home>>

\* Sixty seconds pass without a write that renews the lease.
Expire ==
  /\ state = "RUNNING"
  /\ lease' = "expired"
  /\ UNCHANGED <<state, revision, owner, action, runStatus, proc, candidate, worker>>

-----------------------------------------------------------------------------
(***************************************************************************)
(* Writes of the row, shared by the handlers below.                        *)
(***************************************************************************)

\* A write that keeps the row RUNNING and renews its lease.
RenewAs(w, a) ==
  /\ state' = "RUNNING"
  /\ revision' = revision + 1
  /\ owner' = w
  /\ lease' = "fresh"
  /\ action' = a

\* finishWorkflowCheckpoint: checkpoint and run change in one transaction.
FinishRow(s, status) ==
  /\ state' = s
  /\ revision' = revision + 1
  /\ owner' = NoWorker
  /\ lease' = "fresh"
  /\ runStatus' = status
  /\ UNCHANGED action

\* The run status each final checkpoint state is written with.
StatusFor(s) == IF s \in {"WAITING_USER", "SUCCEEDED", "DELIVERY_PENDING"}
                THEN "DONE" ELSE "FAILED"

Release(w) ==
  /\ phase' = [phase EXCEPT ![w] = "free"]
  /\ rev' = [rev EXCEPT ![w] = 0]
  /\ aborted' = aborted \ {w}
  /\ UNCHANGED home

Goto(w, ph) ==
  /\ phase' = [phase EXCEPT ![w] = ph]
  /\ UNCHANGED <<home, rev, aborted>>

Engage(w, p, ph, r) ==
  /\ phase' = [phase EXCEPT ![w] = ph]
  /\ home' = [home EXCEPT ![w] = p]
  /\ rev' = [rev EXCEPT ![w] = r]
  /\ UNCHANGED aborted

-----------------------------------------------------------------------------
(***************************************************************************)
(* launch: the run row and the checkpoint row are two separate writes.     *)
(***************************************************************************)

LaunchInsert(p, w) ==
  /\ Up(p) /\ runStatus = "none" /\ Fresh(w)
  /\ runStatus' = "RUNNING"
  /\ Engage(w, p, "launching", 0)
  /\ UNCHANGED <<row, proc, candidate>>

CreateCheckpoint(w) ==
  /\ phase[w] = "launching"
  /\ state' = "RUNNING" /\ revision' = 1 /\ owner' = w
  /\ lease' = "fresh" /\ action' = "pipeline"
  /\ Engage(w, home[w], "running", 1)
  /\ UNCHANGED <<runStatus, proc, candidate>>

CreateFails(w) ==
  /\ phase[w] = "launching"
  /\ runStatus' = "FAILED"
  /\ Release(w)
  /\ UNCHANGED <<row, proc, candidate>>

-----------------------------------------------------------------------------
(***************************************************************************)
(* A worker executing the workflow (finalize) or a delivery.               *)
(***************************************************************************)

\* The twenty-second timer: renew the lease, or abort on the first refusal.
\* A delivery resumed by recovery has no timer.
Heartbeat(w) ==
  /\ phase[w] \in {"running", "retrying"}
  /\ IF state = "RUNNING" /\ Owns(w)
     THEN lease' = "fresh" /\ UNCHANGED aborted
     ELSE aborted' = aborted \cup {w} /\ UNCHANGED lease
  /\ UNCHANGED <<state, revision, owner, action, runStatus, proc, candidate,
                 phase, home, rev>>

\* The cancel route accepts a RUNNING parent only: a retried delivery, whose
\* parent is DONE, cannot be cancelled.
Cancel(w) ==
  /\ phase[w] = "running" /\ runStatus = "RUNNING"
  /\ aborted' = aborted \cup {w}
  /\ UNCHANGED <<row, runStatus, proc, candidate, phase, home, rev>>

\* persistCheckpointState and persistDeliveryState.
Publish(w, a) ==
  /\ phase[w] \in Executing
  /\ phase[w] # "running" => a = "delivery"
  /\ Owns(w) /\ revision < MaxRevision
  /\ RenewAs(w, a)
  /\ rev' = [rev EXCEPT ![w] = revision + 1]
  /\ UNCHANGED <<runStatus, proc, candidate, phase, home, aborted>>

\* finalize ends: the verdict decides the final state.
Finish(w, s) ==
  /\ phase[w] = "running" /\ Owns(w)
  /\ s = "CANCELLED" => w \in aborted
  /\ s = "DELIVERY_PENDING" => action = "delivery"
  /\ FinishRow(s, StatusFor(s))
  /\ Release(w)
  /\ UNCHANGED <<proc, candidate>>

\* runSpec throws, or a checkpoint write of finalize reports a lost lease.
WorkFails(w) ==
  /\ phase[w] = "running"
  /\ Goto(w, "failing")
  /\ UNCHANGED <<row, runStatus, proc, candidate>>

\* finalize's catch: write FAILED, or return in silence when the lease is lost.
FailFinish(w) ==
  /\ phase[w] = "failing"
  /\ IF Owns(w) THEN FinishRow("FAILED", "FAILED")
                ELSE UNCHANGED <<row, runStatus>>
  /\ Release(w)
  /\ UNCHANGED <<proc, candidate>>

DeliverFinish(w, s) ==
  /\ phase[w] \in {"delivering", "retrying"} /\ Owns(w)
  /\ FinishRow(s, "DONE")
  /\ Release(w)
  /\ UNCHANGED <<proc, candidate>>

\* finishPullRequestDelivery turns a refused write into DELIVERY_PENDING, whose
\* own write is refused and thrown to a caller that only logs it.
DeliverLost(w) ==
  /\ phase[w] \in {"delivering", "retrying"} /\ ~Owns(w)
  /\ Release(w)
  /\ UNCHANGED <<row, runStatus, proc, candidate>>

\* retryPullRequestDelivery, a user's request to any process.
Retry(p, w) ==
  /\ Up(p) /\ state = "DELIVERY_PENDING" /\ Fresh(w) /\ revision < MaxRevision
  /\ RenewAs(w, action)
  /\ Engage(w, p, "retrying", revision + 1)
  /\ UNCHANGED <<runStatus, proc, candidate>>

-----------------------------------------------------------------------------
(***************************************************************************)
(* Recovery of expired checkpoints, one pass at a time in each server.     *)
(***************************************************************************)

Busy(p) ==
  \/ candidate[p] # NoCandidate
  \/ \E w \in Workers : home[w] = p /\ phase[w] \in {"recovering", "rejecting", "delivering"}

Scan(p) ==
  /\ p \in Servers /\ Up(p) /\ ~Busy(p)
  /\ state = "RUNNING" /\ lease = "expired"
  /\ candidate' = [candidate EXCEPT ![p] = [owner |-> owner, revision |-> revision]]
  /\ UNCHANGED <<row, runStatus, proc, worker>>

SameHost(p, w) == HostOf[home[w]] = HostOf[p]

\* processIsAlive: some process of this host answers to the recorded pid.
PidAlive(w) == \E q \in Procs : /\ Up(q)
                                /\ HostOf[q] = HostOf[home[w]]
                                /\ PidOf[q] = PidOf[home[w]]

MustDefer(p) == SameHost(p, candidate[p].owner) /\ PidAlive(candidate[p].owner)

\* The claim's WHERE clause: still RUNNING, same revision, still expired.
Claimable(p) == /\ state = "RUNNING"
                /\ revision = candidate[p].revision
                /\ lease = "expired"

Defer(p) ==
  /\ candidate[p] # NoCandidate
  /\ MustDefer(p) \/ ~Claimable(p)
  /\ candidate' = [candidate EXCEPT ![p] = NoCandidate]
  /\ UNCHANGED <<row, runStatus, proc, worker>>

\* A row left by another host is claimed too, but only to be set aside.
Claim(p, w) ==
  /\ candidate[p] # NoCandidate /\ ~MustDefer(p) /\ Claimable(p) /\ Fresh(w)
  /\ revision < MaxClaims
  /\ RenewAs(w, action)
  /\ Engage(w, p, IF SameHost(p, candidate[p].owner) THEN "recovering" ELSE "rejecting",
            revision + 1)
  /\ candidate' = [candidate EXCEPT ![p] = NoCandidate]
  /\ UNCHANGED <<runStatus, proc>>

\* Replaying would not be safe: the run stops as RECOVERY_REQUIRED.
RecoverManual(w) ==
  /\ phase[w] \in {"recovering", "rejecting"}
  /\ IF Owns(w) THEN FinishRow("RECOVERY_REQUIRED", "FAILED")
                ELSE UNCHANGED <<row, runStatus>>
  /\ Release(w)
  /\ UNCHANGED <<proc, candidate>>

\* The decision table of recoverExpiredCheckpoint found the action replayable.
RecoverResume(w) ==
  /\ phase[w] = "recovering"
  /\ Goto(w, IF action = "delivery" THEN "delivering" ELSE "running")
  /\ UNCHANGED <<row, runStatus, proc, candidate>>

-----------------------------------------------------------------------------
FinishStates == {"WAITING_USER", "SUCCEEDED", "FAILED", "CANCELLED", "DELIVERY_PENDING"}

ProcStep(p) == Start(p) \/ Crash(p) \/ Scan(p) \/ Defer(p)

WorkStep(w) ==
  \/ CreateCheckpoint(w) \/ CreateFails(w)
  \/ Heartbeat(w) \/ Cancel(w)
  \/ \E a \in Actions : Publish(w, a)
  \/ \E s \in FinishStates : Finish(w, s)
  \/ WorkFails(w) \/ FailFinish(w)
  \/ \E s \in {"SUCCEEDED", "DELIVERY_PENDING"} : DeliverFinish(w, s)
  \/ DeliverLost(w)
  \/ RecoverManual(w) \/ RecoverResume(w)

AcquireStep(p, w) == LaunchInsert(p, w) \/ Retry(p, w) \/ Claim(p, w)

Next ==
  \/ Expire
  \/ \E p \in Procs : ProcStep(p)
  \/ \E w \in Workers : WorkStep(w)
  \/ \E p \in Procs, w \in Workers : AcquireStep(p, w)

Spec == Init /\ [][Next]_vars

-----------------------------------------------------------------------------
(***************************************************************************)
(* Fairness. A server's timer fires every ten seconds and its pass runs to *)
(* the end; the clock reaches the lease of an owner that is not running;   *)
(* code that has thrown reaches its handler. Nothing makes a process start *)
(* or keeps it up, and nothing bounds how long a healthy worker works.     *)
(***************************************************************************)

OwnerLive == owner # NoWorker /\ Live(owner)

LeaseRunsOut == Expire /\ ~OwnerLive

RecoveryPass(p) ==
  Scan(p) \/ Defer(p) \/ \E w \in Workers : Claim(p, w)

RecoveryDecides(w) == RecoverManual(w) \/ RecoverResume(w)

\* What a worker does when a write of the row has been refused.
Yields(w) == ~Owns(w) /\ (WorkFails(w) \/ DeliverLost(w))

Fairness ==
  /\ WF_vars(LeaseRunsOut)
  /\ \A p \in Procs : WF_vars(RecoveryPass(p))
  /\ \A w \in Workers : /\ WF_vars(RecoveryDecides(w))
                        /\ WF_vars(FailFinish(w))
                        /\ WF_vars(Yields(w))

FairSpec == Spec /\ Fairness

-----------------------------------------------------------------------------
(***************************************************************************)
(* Properties.                                                             *)
(***************************************************************************)

RowTyped ==
  /\ state \in States /\ revision \in Nat
  /\ owner \in Workers \cup {NoWorker} /\ lease \in {"fresh", "expired"}
  /\ action \in Actions /\ runStatus \in Statuses

ProcsTyped ==
  /\ proc \in [Procs -> {"new", "up", "dead"}]
  /\ candidate \in [Procs -> Candidates \cup {NoCandidate}]

WorkersTyped ==
  /\ phase \in [Workers -> Phases] /\ home \in [Workers -> Procs]
  /\ rev \in [Workers -> Nat] /\ aborted \subseteq Workers

\* Every variable keeps its type.
TypeOK == RowTyped /\ ProcsTyped /\ WorkersTyped

\* Only a RUNNING row has an owner.
LeaseHeld == IF state = "RUNNING" THEN owner \in Workers ELSE owner = NoWorker

\* The run row comes first, and one launch at most follows it.
LaunchOrder ==
  /\ state = "absent" => revision = 0
  /\ runStatus = "none" => state = "absent"
  /\ \A w \in Workers : phase[w] = "launching" => state = "absent" /\ runStatus # "none"
  /\ \A v, w \in Workers : phase[v] = "launching" /\ phase[w] = "launching" => v = w

\* Workers and recovery passes are code of processes that are up.
HomesUp ==
  /\ \A w \in Workers : Live(w) => Up(home[w])
  /\ \A p \in Procs : candidate[p] # NoCandidate => Up(p)

\* A candidate that still has the row's revision still names the row's owner.
CandidatesKnown ==
  \A p \in Procs :
    candidate[p] # NoCandidate =>
      /\ candidate[p].revision <= revision
      /\ state = "RUNNING" /\ candidate[p].revision = revision => candidate[p].owner = owner

\* Never do two workers execute the same run at once, whichever processes
\* crash, stall, restart or scan with stale candidates. Holds when every
\* process has the same host name.
ExclusiveExecution ==
  \A v, w \in Workers : phase[v] \in Executing /\ phase[w] \in Executing => v = w

\* The run list and the checkpoint never contradict each other: a checkpoint
\* that has ended comes with the run status its end was written with.
VerdictAgreement ==
  /\ state \in {"WAITING_USER", "SUCCEEDED", "DELIVERY_PENDING"} => runStatus = "DONE"
  /\ state \in {"FAILED", "CANCELLED", "RECOVERY_REQUIRED"} => runStatus = "FAILED"

\* The inductive invariant behind every other property.
LeaseInvariant == TypeOK /\ LeaseHeld /\ LaunchOrder /\ HomesUp /\ CandidatesKnown /\ VerdictAgreement

OneHost == \A p, q \in Procs : HostOf[p] = HostOf[q]

\* On one host every worker past its launch still holds the lease it acted on.
WorkersHoldLease ==
  \A w \in Workers : phase[w] \notin {"free", "launching"} =>
    phase[w] # "rejecting" /\ state = "RUNNING" /\ Owns(w)

\* Once a run has ended, no late worker, heartbeat, recovery pass or startup
\* repair changes its checkpoint or its status again.
FinalIsFinal ==
  [][(state \in Final) => UNCHANGED <<row, runStatus>>]_vars

TakenOver == owner # NoWorker /\ owner' \notin {owner, NoWorker}

LeftBehind ==
  /\ lease = "expired"
  /\ Live(owner) => HostOf[home[owner]] # HostOf[(home')[owner']]

\* A lease moves to another worker only after it ran out, and on one host only
\* when the code that held it has stopped running: a lease renewed after the
\* recovery pass listed it, or listed under an earlier owner, is left alone.
OrderlyHandover == [][TakenOver => LeftBehind]_vars

\* A checkpoint whose owner is gone does not stay RUNNING while some server
\* keeps running: it is finished or taken over.
DeadOwnerRecovered ==
  (state = "RUNNING" /\ ~OwnerLive)
    ~> (state # "RUNNING" \/ OwnerLive \/ \A p \in Servers : ~Up(p))

\* A worker that lost its lease to another stops executing the run.
StaleWorkerStops ==
  \A w \in Workers :
    (phase[w] \in Executing /\ ~Owns(w)) ~> phase[w] \notin Executing

\* The row implements the fenced run: see FencedRun.
Stage == CASE state = "absent" -> "none"
           [] state = "RUNNING" -> "open"
           [] state = "DELIVERY_PENDING" -> "parked"
           [] OTHER -> "closed"

Outcome == CASE runStatus \in {"none", "RUNNING"} -> "undecided"
             [] runStatus = "DONE" -> "DONE"
             [] OTHER -> "FAILED"

Fenced == INSTANCE FencedRun WITH
  Holders <- Workers, NoHolder <- NoWorker,
  stage <- Stage, holder <- owner, version <- revision, outcome <- Outcome

\* Every behaviour of the processes is a behaviour of the fenced run.
ImplementsFencedRun == Fenced!Spec

=============================================================================
