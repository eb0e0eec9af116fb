---------------------------- MODULE SpecRecovery ----------------------------
(***************************************************************************)
(* A checkpointed spec workflow whose process may die between any two      *)
(* steps, and the decision that recoverExpiredCheckpoint of                *)
(* src/workflows/spec-session.ts takes on what it finds: consume the       *)
(* child's result, repeat a read-only call, go on with a delivery, or      *)
(* leave the run to a person.  Who may take the decision, and when, is the *)
(* subject of CheckpointLease.                                             *)
(***************************************************************************)
EXTENDS SpecPipeline

CONSTANTS
    MaxRestarts,    \* bound on the crashes of one behaviour
    EditedRuns      \* the options of the runs whose project is edited while no process runs

VARIABLE life       \* what happened to the run across its processes

rvars == <<vars, life>>

Edits == {"none", "files", "config"}

ASSUME RecoveryAssumption == MaxRestarts \in Nat /\ EditedRuns \subseteq Options

\* restarts: crashes so far; edit: what was edited since the last one; edited: anything ever was;
\* used: the last call's answer was taken; torn: a process died inside a piece of
\* work that may write; owed: the reason of the last rework, until a call has got it.
RInit ==
    /\ Init
    /\ life = [restarts |-> 0, edit |-> "none", edited |-> FALSE, used |-> TRUE, torn |-> FALSE, owed |-> "none"]

Tearing ==
    \/ run.pc = "working" /\ Step \in Writers
    \/ run.pc \in {"baselining", "reproducing", "verifying", "probing", "team"}
    \/ run.pc = "posting" /\ (opts.pr => ckpt.call.step = "docs-audit")

\* A step of the workflow, with the history it makes.
Working ==
    /\ Next
    /\ life' = [life EXCEPT
                  !.used = CASE run.pc = "calling" /\ run'.pc # "calling" -> FALSE
                             [] run.pc = "answered" /\ run'.pc # "answered" -> TRUE
                             [] OTHER -> @,
                  !.owed = CASE mem'.routes > mem.routes -> mem'.feedback
                             [] run.pc = "working" -> "none"
                             [] OTHER -> @]

\* The process dies.  A call with write tools may have changed files by then.
Crash ==
    /\ row = "RUNNING" /\ run.pc \notin {"over", "down"} /\ life.restarts < MaxRestarts
    /\ run' = [run EXCEPT !.pc = "down"]
    /\ aborted' = FALSE
    /\ \E changed \in IF Tearing THEN BOOLEAN ELSE {FALSE} : work' = [work EXCEPT !.changed = @ \/ changed]
    /\ life' = [life EXCEPT !.restarts = @ + 1, !.torn = @ \/ Tearing]
    /\ UNCHANGED <<opts, mem, ckpt, child, row>>

\* Files of the workspace, guarded ones perhaps, or the project's settings are edited meanwhile.
Edit ==
    /\ opts \in EditedRuns /\ row = "RUNNING" /\ run.pc = "down" /\ life.edit = "none"
    /\ \E edit \in {"files", "config"}, tampered \in BOOLEAN :
         /\ tampered => edit = "files"
         /\ life' = [life EXCEPT !.edit = edit, !.edited = TRUE]
         /\ work' = [work EXCEPT !.changed = @ \/ edit = "files", !.tampered = @ \/ tampered]
    /\ UNCHANGED <<opts, mem, run, ckpt, child, aborted, row>>

\* A run without a checkpoint is repaired as orphaned when the next process opens the database.
RepairOrphan ==
    /\ row = "RUNNING" /\ run.pc = "down" /\ ~opts.checkpointed
    /\ row' = "FAILED"
    /\ run' = [run EXCEPT !.pc = "over"]
    /\ UNCHANGED <<opts, mem, ckpt, child, work, aborted, life>>

-----------------------------------------------------------------------------
(* The recovery of a checkpointed run. *)

Recovering == row = "RUNNING" /\ run.pc = "down" /\ opts.checkpointed
Interrupted == ckpt.call

\* The next process to open the database marks the child's row as failed by the restart; a
\* server that was running all the time finds it RUNNING.
ChildFound(repaired) == IF child.status = "RUNNING" /\ repaired THEN [child EXCEPT !.status = "LOST"] ELSE child

HasResult(c) == Interrupted.started /\ c.status \in {"DONE", "BLOCKED", "FAILED", "CANCELLED"}

\* The snapshot taken before the call includes guarded files that git ignores, the one taken
\* now does not.
Unmoved == Interrupted.before /\ ~opts.ignored /\ life.edit # "files"

RetrySafe(c) ==
    /\ ~(Interrupted.started /\ c.status = "RUNNING")
    /\ Interrupted.step \notin Writers
    /\ Unmoved

Resumable(c) ==
    /\ life.edit # "config"
    /\ \/ Interrupted.action = "agent" /\ (HasResult(c) \/ RetrySafe(c))
       \/ Interrupted.action = "none" /\ ~work.changed

\* Fault: an interrupted audit is taken for a delivery.
DeliveryStageAny == Interrupted.action = "delivery"

DeliveryStage == Interrupted.action = "delivery" /\ Interrupted.step \in {"commit", "push", "pull-request"}

\* The workflow goes on from its checkpoint, with the child's result if there is one.
Resume ==
    /\ Recovering
    /\ \E repaired \in BOOLEAN :
         LET c == ChildFound(repaired) IN
         /\ Resumable(c)
         /\ child' = c
         /\ mem' = ckpt.mem
         /\ run' = [pc |-> "head", verdict |-> "none", failure |-> FALSE, team |-> "no", before |-> "own",
                    resumes |-> IF Interrupted.action = "agent" THEN Interrupted.step ELSE "none",
                    recovered |-> IF Interrupted.action = "agent" /\ HasResult(c) THEN c ELSE NoAnswer,
                    answer |-> NoAnswer, delivery |-> "none"]
    /\ life' = [life EXCEPT !.edit = "none", !.owed = IF Interrupted.action = "none" THEN "none" ELSE @]
    /\ UNCHANGED <<opts, ckpt, work, aborted, row>>

\* A delivery interrupted after the documents were audited is finished by itself.
ResumeDelivery ==
    /\ Recovering /\ DeliveryStage /\ life.edit # "config"
    /\ row' \in {"SUCCEEDED", "DELIVERY_PENDING"}
    /\ run' = [run EXCEPT !.pc = "over"]
    /\ UNCHANGED <<opts, mem, ckpt, child, work, aborted, life>>

RequireRecovery ==
    /\ Recovering
    /\ \E repaired \in BOOLEAN :
         LET c == ChildFound(repaired) IN
         /\ ~Resumable(c) /\ ~(DeliveryStage /\ life.edit # "config")
         /\ child' = c
    /\ row' = "RECOVERY_REQUIRED"
    /\ run' = [run EXCEPT !.pc = "over"]
    /\ UNCHANGED <<opts, mem, ckpt, work, aborted, life>>

RNext == Working \/ Crash \/ Edit \/ RepairOrphan \/ Resume \/ ResumeDelivery \/ RequireRecovery

RSpec == RInit /\ [][RNext]_rvars

\* The process takes its own steps, and the server's timer finds a dead run; nothing else need end.
RFairSpec ==
    RSpec /\ WF_rvars(Working /\ Progress /\ ~Waiting)
    /\ WF_rvars(RepairOrphan \/ Resume \/ ResumeDelivery \/ RequireRecovery)

-----------------------------------------------------------------------------
(* Properties. *)

RTypeOK ==
    /\ TypeOK
    /\ life \in [restarts: 0..MaxRestarts, edit: Edits, edited: BOOLEAN, used: BOOLEAN, torn: BOOLEAN, owed: Sources]

\* A restart may cost one agent call more than the budget gives, never more.
BudgetAcrossRestarts ==
    run.pc # "down" =>
        mem.executed <= 6 * mem.routes + mem.rounds + mem.cursor + life.restarts
                        - (IF run.pc \in {"head", "step", "baselining"} THEN 1 ELSE 0)

\* A completed agent call is not made again: its answer is taken before its step is called once more.
CompletedCallUsed ==
    run.pc = "calling" /\ run'.pc = "working" /\ Step = child.step => life.used \/ child.status # "DONE"

\* A restart opens no way round the gates and the review step: nobody having edited the project
\* meanwhile, what a recovered run commits or delivers went through them as it is, a team's work
\* through the gates.
GatedAcrossRestarts == ~life.edited => DeliveryGated

\* A count of violations is never lost, neither by the rework it causes nor by a restart.
ViolationsKept == mem'.violations >= mem.violations

\* A restart loses nothing that was achieved or counted: neither a completed call nor a violation.
ProgressKept == [][CompletedCallUsed /\ ViolationsKept]_rvars

\* What holds of a run that is resumed: its types, its budget and its gates.
RecoveryInvariant == RTypeOK /\ BudgetAcrossRestarts /\ GatedAcrossRestarts

\* Work that a dying process may have left half done is not continued by the workflow.
TornWorkKept == life.torn => run.pc \in {"down", "over"} /\ row \notin {"SUCCEEDED", "WAITING_USER"}

\* The reason of a rework reaches the first call after it, whatever dies in between; an edit of
\* the guarded files may cost it, when it lets a review that a former process heard be heard late.
FeedbackSurvives ==
    ~life.edited /\ run.pc = "working" /\ life.owed # "none" /\ opts.checkpointed
        => <<"feedback", life.owed>> \in ckpt.call.input

\* "An interrupted read-only agent is retried only when its pre-run workspace hashes and Git HEAD
\* still match" (README.md:141): and then it is.  The code refutes it (README, section 6).
ReadOnlyRetried ==
    [][run.pc = "down" /\ Interrupted.action = "agent" /\ Interrupted.step \notin Writers /\ Interrupted.started
         /\ child'.status = "LOST" /\ life.edit = "none" => row' = "RUNNING"]_rvars

\* Every run ends or is left to a person, crashes being followed by recovery, unless its process
\* waits for ever at one place for an agent, a command or git.
RunSettles == <>(row # "RUNNING") \/ \E place \in WaitPlaces : <>[](Waiting /\ run.pc = place)

=============================================================================
