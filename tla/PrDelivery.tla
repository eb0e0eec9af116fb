----------------------------- MODULE PrDelivery -----------------------------
(***************************************************************************)
(* How a reviewed workflow reaches GitHub: the documents are audited, the  *)
(* worktree is committed, pushed and proposed as a pull request            *)
(* (completePullRequestDelivery of src/lib/pr-delivery.ts), and GitHub may *)
(* be asked to merge it (requestQualifiedAutoMerge of                      *)
(* src/lib/auto-merge-execution.ts).  An attempt is made by the workflow,  *)
(* by the recovery of a dead one, or by a user's retry of a pending one;   *)
(* any command may fail, any process may die, and people work on the same  *)
(* worktree, branch and pull request meanwhile.                            *)
(***************************************************************************)
EXTENDS Naturals

CONSTANTS
    MaxCrashes,     \* bound on the processes that die in one behaviour
    MaxFailures,    \* bound on the commands and audits that fail
    MaxMeddling,    \* bound on what people do from outside
    Callers         \* the processes that may run the workflow: {"server"}, or the CLI's too

VARIABLES
    tree,       \* the worktree: its HEAD, and whether `git status` lists anything
    origin,     \* the remote: the run's branch, and whether the base branch left the recorded SHA
    pr,         \* the pull request of the branch
    world,      \* what people set: the project's settings, the dashboard's merge switch
    ckpt,       \* the run's checkpoint row
    att,        \* the attempt under way, in the memory of its process
    claim,      \* auto_merge_request_claim, by head commit
    spent,      \* crashes, failures and outside acts so far
    done        \* for the properties: what the attempts did, the pull request's head as GitHub last
                \* showed it and as a merge was asked for, whether a process died in an audit

vars == <<tree, origin, pr, world, ckpt, att, claim, spent, done>>

\* "work" is the commit of the orchestrator, with the run's marker and on the base; amending keeps
\* both.  "local" was committed by a person in the worktree, "theirs" was pushed by one.
Commits == {"base", "work", "amended", "local", "theirs"}
Marked == {"work", "amended"}
Stages == {"docs-audit", "commit", "push", "pull-request"}
Replayed == {"commit", "push", "pull-request"}
Statuses == {"READY", "DELIVERY_PENDING", "NO_CHANGES", "DELIVERED"}
States == {"RUNNING", "DELIVERY_PENDING", "SUCCEEDED", "RECOVERY_REQUIRED"}
Requesting == {"request", "recheck", "claim", "check", "send", "settle"}
PCs == {"idle", "down", "audit", "begin", "inspect", "commit", "confirm", "to-push", "lookup", "push",
        "to-pr", "list", "create", "view", "deliver", "clear", "assess", "record", "close"} \cup Requesting

ASSUME DeliveryAssumption ==
    /\ MaxCrashes \in Nat /\ MaxFailures \in Nat /\ MaxMeddling \in Nat
    /\ Callers \in (SUBSET {"server", "cli"}) \ {{}}

\* The workflow's review was SHIP and the audit's intent is on record.
Init ==
    /\ \E changed \in BOOLEAN : tree = [head |-> "base", dirty |-> changed]
    /\ origin = [branch |-> "none", moved |-> FALSE]
    /\ pr = [state |-> "none", head |-> "none", asked |-> FALSE]
    /\ \E dial, wanted \in BOOLEAN : world = [reconfigured |-> FALSE, dial |-> dial, wanted |-> wanted]
    /\ ckpt = [state |-> "RUNNING", action |-> "delivery", step |-> "docs-audit",
               status |-> "READY", stage |-> "none", sha |-> "none", evidence |-> FALSE]
    /\ \E by \in Callers :
         att = [pc |-> "audit", by |-> by, way |-> "workflow", sha |-> "none", stage |-> "none",
                status |-> "READY", dial |-> world.dial, shipped |-> TRUE, eligible |-> FALSE, told |-> FALSE]
    /\ claim = [c \in Commits |-> "none"]
    /\ spent = [crashes |-> 0, failures |-> 0, meddling |-> 0]
    /\ done = [commits |-> 0, created |-> 0, requests |-> 0, seen |-> "none", asked |-> "none", torn |-> FALSE]

Go(pc) == att' = [att EXCEPT !.pc = pc]

Failing ==
    /\ spent.failures < MaxFailures
    /\ spent' = [spent EXCEPT !.failures = @ + 1]

-----------------------------------------------------------------------------
(* What an attempt saves. *)

\* persistDeliveryState: the delivery's state, and its stage as the intent.
Saved(status, stage, sha) ==
    [ckpt EXCEPT !.action = "delivery", !.step = stage, !.status = status, !.stage = stage, !.sha = sha]

Publish(status, stage, sha, next) ==
    /\ ckpt' = Saved(status, stage, sha)
    /\ att' = [att EXCEPT !.pc = next, !.status = status, !.stage = stage, !.sha = sha]

\* A stage that throws makes the delivery pending where it stopped.  The workflow saves that
\* at once, a retry and a recovery when they close.
Pend ==
    /\ att' = [att EXCEPT !.pc = IF att.way = "workflow" THEN "clear" ELSE "close", !.status = "DELIVERY_PENDING"]
    /\ ckpt' = IF att.way = "workflow" THEN Saved("DELIVERY_PENDING", att.stage, att.sha) ELSE ckpt

\* A stage stops for what it found, or because its command failed.
Stop == Pend /\ UNCHANGED spent
Throw == Pend /\ Failing

\* Where an attempt goes when it has delivered, and when it has finished with GitHub.
Closing == IF att.way = "workflow" THEN "record" ELSE "close"
Delivering == IF att.way = "workflow" THEN "clear" ELSE IF ckpt.evidence THEN "assess" ELSE "close"

-----------------------------------------------------------------------------
(* Audit and commit. *)

\* The docs agent may write; a delivery whose audit fails stays pending before its commit.
Audit ==
    /\ att.pc = "audit"
    /\ \E writes \in BOOLEAN : tree' = [tree EXCEPT !.dirty = @ \/ writes]
    /\ \/ Go("begin") /\ UNCHANGED <<ckpt, spent>>
       \/ /\ Failing
          /\ att' = [att EXCEPT !.pc = Closing, !.status = "DELIVERY_PENDING", !.stage = "docs-audit"]
          /\ ckpt' = IF att.way = "workflow" THEN Saved("DELIVERY_PENDING", "docs-audit", att.sha) ELSE ckpt
    /\ UNCHANGED <<origin, pr, world, claim, done>>

\* Fault: the first state published forgets the commit.
BeginForgetting ==
    /\ att.pc = "begin"
    /\ Publish("READY", "commit", "none", "inspect")
    /\ UNCHANGED <<tree, origin, pr, world, claim, spent, done>>

Begin ==
    /\ att.pc = "begin"
    /\ Publish("READY", "commit", att.sha, "inspect")
    /\ UNCHANGED <<tree, origin, pr, world, claim, spent, done>>

\* Fault: a commit that was not recorded is not recognised.
VerifiedRecorded ==
    IF att.sha # "none" THEN tree.head = att.sha /\ ~tree.dirty ELSE FALSE

\* A commit is taken for the verified one if it is the recorded one, nothing having been edited
\* since, or, none having been recorded, if it lies on the base and carries the marker.
Verified ==
    IF att.sha # "none" THEN tree.head = att.sha /\ ~tree.dirty ELSE tree.head \in Marked

Inspect ==
    /\ att.pc = "inspect"
    /\ \/ /\ Verified
          /\ att' = [att EXCEPT !.pc = "to-push", !.sha = tree.head]
          /\ UNCHANGED <<ckpt, spent>>
       \/ /\ att.sha = "none" /\ tree.head = "base" /\ tree.dirty
          /\ Go("commit")
          /\ UNCHANGED <<ckpt, spent>>
       \/ /\ att.sha = "none" /\ tree.head = "base" /\ ~tree.dirty
          /\ Publish("NO_CHANGES", "commit", "none", IF att.way = "workflow" THEN "clear" ELSE "close")
          /\ UNCHANGED spent
       \/ ~Verified /\ (att.sha # "none" \/ tree.head # "base") /\ Stop
       \/ Throw
    /\ UNCHANGED <<tree, origin, pr, world, claim, done>>

\* `git commit` takes the worktree as it is by now; with a person's commit in it, onto that one.
Commit ==
    /\ att.pc = "commit"
    /\ \/ /\ tree.dirty
          /\ tree' = [head |-> IF tree.head = "base" THEN "work" ELSE "local", dirty |-> FALSE]
          /\ done' = [done EXCEPT !.commits = @ + 1]
          /\ Go("confirm")
          /\ UNCHANGED <<ckpt, spent>>
       \/ ~tree.dirty /\ Stop /\ UNCHANGED <<tree, done>>
       \/ Throw /\ UNCHANGED <<tree, done>>
    /\ UNCHANGED <<origin, pr, world, claim>>

Confirm ==
    /\ att.pc = "confirm"
    /\ \/ /\ tree.head \in Marked
          /\ att' = [att EXCEPT !.pc = "to-push", !.sha = tree.head]
          /\ UNCHANGED <<ckpt, spent>>
       \/ tree.head \notin Marked /\ Stop
       \/ Throw
    /\ UNCHANGED <<tree, origin, pr, world, claim, done>>

-----------------------------------------------------------------------------
(* Push and pull request. *)

ToPush ==
    /\ att.pc = "to-push"
    /\ Publish("READY", "push", att.sha, "lookup")
    /\ UNCHANGED <<tree, origin, pr, world, claim, spent, done>>

Lookup ==
    /\ att.pc = "lookup"
    /\ \/ /\ origin.branch \in {"none", att.sha}
          /\ Go(IF origin.branch = "none" THEN "push" ELSE "to-pr")
          /\ UNCHANGED <<ckpt, spent>>
       \/ origin.branch \notin {"none", att.sha} /\ Stop
       \/ Throw
    /\ UNCHANGED <<tree, origin, pr, world, claim, done>>

\* HEAD is pushed, whatever it is by now, and never by force.  The answer may be lost.
Push ==
    /\ att.pc = "push"
    /\ \/ /\ origin.branch = "none"
          /\ origin' = [origin EXCEPT !.branch = tree.head]
          /\ \/ Go("to-pr") /\ UNCHANGED <<ckpt, spent>>
             \/ Throw
       \/ origin.branch # "none" /\ Stop /\ UNCHANGED origin
       \/ Throw /\ UNCHANGED origin
    /\ UNCHANGED <<tree, pr, world, claim, done>>

ToPullRequest ==
    /\ att.pc = "to-pr"
    /\ Publish("READY", "pull-request", att.sha, "list")
    /\ UNCHANGED <<tree, origin, pr, world, claim, spent, done>>

Matches == pr.head = att.sha

\* Fault: only open pull requests are listed.
ListOpen ==
    /\ att.pc = "list"
    /\ \/ /\ pr.state # "open" \/ Matches
          /\ Go(IF pr.state # "open" THEN "create" ELSE "deliver")
          /\ done' = [done EXCEPT !.seen = pr.head]
          /\ UNCHANGED <<ckpt, spent>>
       \/ pr.state = "open" /\ ~Matches /\ Stop /\ UNCHANGED done
       \/ Throw /\ UNCHANGED done
    /\ UNCHANGED <<tree, origin, pr, world, claim>>

\* Pull requests in any state are listed: a closed one with the right head counts.
List ==
    /\ att.pc = "list"
    /\ \/ /\ pr.state = "none" \/ Matches
          /\ Go(IF pr.state = "none" THEN "create" ELSE "deliver")
          /\ done' = [done EXCEPT !.seen = pr.head]
          /\ UNCHANGED <<ckpt, spent>>
       \/ pr.state # "none" /\ ~Matches /\ Stop /\ UNCHANGED done
       \/ Throw /\ UNCHANGED done
    /\ UNCHANGED <<tree, origin, pr, world, claim>>

\* GitHub opens at most one request at a time for the branch, at its head as it is by now.  The answer may be lost.
Create ==
    /\ att.pc = "create"
    /\ \/ /\ pr.state # "open"
          /\ pr' = [pr EXCEPT !.state = "open", !.head = origin.branch]
          /\ done' = [done EXCEPT !.created = @ + 1]
          /\ \/ Go("view") /\ UNCHANGED <<ckpt, spent>>
             \/ Throw
       \/ pr.state = "open" /\ Stop /\ UNCHANGED <<pr, done>>
       \/ Throw /\ UNCHANGED <<pr, done>>
    /\ UNCHANGED <<tree, origin, world, claim>>

\* Fault: the new pull request's head is not compared.
ViewUnmatched ==
    /\ att.pc = "view"
    /\ done' = [done EXCEPT !.seen = pr.head]
    /\ \/ Go("deliver") /\ UNCHANGED <<ckpt, spent>>
       \/ Throw
    /\ UNCHANGED <<tree, origin, pr, world, claim>>

View ==
    /\ att.pc = "view"
    /\ done' = [done EXCEPT !.seen = pr.head]
    /\ \/ Matches /\ Go("deliver") /\ UNCHANGED <<ckpt, spent>>
       \/ ~Matches /\ Stop
       \/ Throw
    /\ UNCHANGED <<tree, origin, pr, world, claim>>

Deliver ==
    /\ att.pc = "deliver"
    /\ Publish("DELIVERED", "pull-request", att.sha, Delivering)
    /\ UNCHANGED <<tree, origin, pr, world, claim, spent, done>>

\* The workflow clears its intent before it returns the delivery.  One that was resumed after its
\* review has no verdict, and so no evidence for a merge.
Clear ==
    /\ att.pc = "clear"
    /\ Go(IF att.status = "DELIVERED" /\ att.shipped THEN "assess" ELSE "record")
    /\ ckpt' = [ckpt EXCEPT !.action = "none"]
    /\ UNCHANGED <<tree, origin, pr, world, claim, spent, done>>

-----------------------------------------------------------------------------
(* The request to merge.  evaluateAutoMergeDryRun asks GitHub for the head, the base, the checks and
   the approvals; whether those two and the trust record suffice is left open. *)

\* The pull request is open at the verified commit.
AtHead == pr.state = "open" /\ pr.head = att.sha

Fresh == AtHead /\ ~origin.moved /\ ~world.reconfigured

\* The switch as the process knows it: a server's own, or what a CLI read when it started.
Enabled == IF att.by = "server" THEN world.dial ELSE att.dial

\* A dry run whose result could not be stored sends no request.
Assess ==
    /\ att.pc = "assess"
    /\ \E sufficient, stored \in BOOLEAN :
         att' = [att EXCEPT !.pc = IF world.wanted /\ stored THEN "request" ELSE Closing,
                            !.eligible = sufficient /\ Fresh /\ world.wanted]
    /\ UNCHANGED <<tree, origin, pr, world, ckpt, claim, spent, done>>

\* Opt-ins, eligibility and an earlier claim for the same head.
Request ==
    /\ att.pc = "request"
    /\ Go(IF Enabled /\ att.eligible /\ claim[att.sha] = "none" THEN "recheck" ELSE Closing)
    /\ UNCHANGED <<tree, origin, pr, world, ckpt, claim, spent, done>>

Recheck ==
    /\ att.pc = "recheck"
    /\ \E sufficient \in BOOLEAN : Go(IF sufficient /\ Fresh THEN "claim" ELSE Closing)
    /\ UNCHANGED <<tree, origin, pr, world, ckpt, claim, spent, done>>

\* INSERT OR IGNORE: one claim per head, whoever makes it.
Claim ==
    /\ att.pc = "claim"
    /\ claim' = [claim EXCEPT ![att.sha] = IF @ = "none" THEN "claimed" ELSE @]
    /\ Go(IF claim[att.sha] = "none" THEN "check" ELSE Closing)
    /\ UNCHANGED <<tree, origin, pr, world, ckpt, spent, done>>

Finish(state) == claim' = [claim EXCEPT ![att.sha] = state]

\* The pull request is read once more, and the switches; a failure leaves the claim failed.
Check ==
    /\ att.pc = "check"
    /\ \/ /\ AtHead /\ ~pr.asked /\ Enabled
          /\ Go("send") /\ UNCHANGED <<claim, spent>>
       \/ /\ AtHead /\ pr.asked
          /\ Finish("requested") /\ Go(Closing) /\ UNCHANGED spent
       \/ /\ ~AtHead \/ ~(pr.asked \/ Enabled)
          /\ Finish("failed") /\ Go(Closing) /\ UNCHANGED spent
       \/ Failing /\ Finish("failed") /\ Go(Closing)
    /\ UNCHANGED <<tree, origin, pr, world, ckpt, done>>

\* Fault: the command does not name the head.
SendUnmatched ==
    /\ att.pc = "send"
    /\ \/ /\ pr.state = "open"
          /\ pr' = [pr EXCEPT !.asked = TRUE]
          /\ done' = [done EXCEPT !.requests = @ + 1, !.asked = pr.head]
          /\ \/ att' = [att EXCEPT !.pc = "settle", !.told = TRUE] /\ UNCHANGED spent
             \/ att' = [att EXCEPT !.pc = "settle", !.told = FALSE] /\ Failing
       \/ /\ \/ ~pr.state = "open" /\ UNCHANGED spent
             \/ Failing
          /\ att' = [att EXCEPT !.pc = "settle", !.told = FALSE]
          /\ done' = [done EXCEPT !.requests = @ + 1]
          /\ UNCHANGED pr
    /\ UNCHANGED <<tree, origin, world, ckpt, claim>>

\* `gh pr merge --match-head-commit <sha> --auto`: GitHub takes it for that head only; the answer may be lost.
Send ==
    /\ att.pc = "send"
    /\ \/ /\ AtHead
          /\ pr' = [pr EXCEPT !.asked = TRUE]
          /\ done' = [done EXCEPT !.requests = @ + 1, !.asked = pr.head]
          /\ \/ att' = [att EXCEPT !.pc = "settle", !.told = TRUE] /\ UNCHANGED spent
             \/ att' = [att EXCEPT !.pc = "settle", !.told = FALSE] /\ Failing
       \/ /\ \/ ~AtHead /\ UNCHANGED spent
             \/ Failing
          /\ att' = [att EXCEPT !.pc = "settle", !.told = FALSE]
          /\ done' = [done EXCEPT !.requests = @ + 1]
          /\ UNCHANGED pr
    /\ UNCHANGED <<tree, origin, world, ckpt, claim>>

\* Fault: a failed command counts as a request.
SettleRequested ==
    /\ att.pc = "settle"
    /\ Finish("requested")
    /\ Go(Closing)
    /\ UNCHANGED <<tree, origin, pr, world, ckpt, spent, done>>

Settle ==
    /\ att.pc = "settle"
    /\ Finish(IF att.told THEN "requested" ELSE "failed")
    /\ Go(Closing)
    /\ UNCHANGED <<tree, origin, pr, world, ckpt, spent, done>>

-----------------------------------------------------------------------------
(* The end of an attempt, its death, and what follows. *)

\* The workflow saves the delivery before it closes the run.
Record ==
    /\ att.pc = "record"
    /\ Publish(att.status, att.stage, att.sha, "close")
    /\ UNCHANGED <<tree, origin, pr, world, claim, spent, done>>

Close ==
    /\ att.pc = "close"
    /\ Go("idle")
    /\ ckpt' = [ckpt EXCEPT !.state = IF att.status = "DELIVERY_PENDING" THEN "DELIVERY_PENDING" ELSE "SUCCEEDED",
                            !.action = "none", !.status = att.status, !.stage = att.stage, !.sha = att.sha,
                            !.evidence = @ \/ att.shipped]
    /\ UNCHANGED <<tree, origin, pr, world, claim, spent, done>>

\* The stage that the workflow is about to publish: it saves the intent and the state in two writes.
Announced ==
    CASE att.pc = "begin" -> "commit"
      [] att.pc = "to-push" -> "push"
      [] att.pc \in {"to-pr", "deliver"} -> "pull-request"
      [] OTHER -> "none"

Crash ==
    /\ att.pc \notin {"idle", "down"} /\ spent.crashes < MaxCrashes
    /\ Go("down")
    /\ spent' = [spent EXCEPT !.crashes = @ + 1]
    /\ \/ UNCHANGED ckpt
       \/ att.way = "workflow" /\ Announced # "none" /\ ckpt' = [ckpt EXCEPT !.action = "delivery", !.step = Announced]
    /\ \/ UNCHANGED tree
       \/ att.pc = "audit" /\ tree' = [tree EXCEPT !.dirty = TRUE]
    /\ done' = [done EXCEPT !.torn = @ \/ (ckpt'.action = "delivery" /\ ckpt'.step = "docs-audit")]
    /\ UNCHANGED <<origin, pr, world, claim>>

\* validatePullRequestDeliveryContext and the comparison of the project's settings.
Valid == ~origin.moved /\ ~world.reconfigured

Attempt(way, pc, stage, sha) ==
    att' = [pc |-> pc, by |-> "server", way |-> way, sha |-> sha, stage |-> stage, status |-> "READY",
            dial |-> world.dial, shipped |-> FALSE, eligible |-> FALSE, told |-> FALSE]

\* Fault: an interrupted audit is left alone.
RecoverReplayed ==
    /\ att.pc = "down" /\ ckpt.state = "RUNNING"
    /\ \/ /\ Valid /\ ckpt.action = "delivery" /\ ckpt.step \in Replayed
          /\ Attempt("finish", "begin", ckpt.stage, ckpt.sha)
          /\ UNCHANGED <<ckpt, spent>>
       \/ /\ Valid /\ ckpt.action = "none" /\ tree = [head |-> "base", dirty |-> FALSE]
          /\ Attempt("workflow", "audit", "docs-audit", ckpt.sha)
          /\ ckpt' = [ckpt EXCEPT !.action = "delivery", !.step = "docs-audit"]
          /\ UNCHANGED spent
       \/ /\ \/ ~Valid
             \/ ckpt.action = "none" /\ tree # [head |-> "base", dirty |-> FALSE]
          /\ Go("idle")
          /\ ckpt' = [ckpt EXCEPT !.state = "RECOVERY_REQUIRED"]
          /\ UNCHANGED spent
       \/ /\ Failing                         \* one of the checks against GitHub fails
          /\ Go("idle")
          /\ ckpt' = [ckpt EXCEPT !.state = "RECOVERY_REQUIRED"]
    /\ UNCHANGED <<tree, origin, pr, world, claim, done>>

\* The server finds the row of a dead process.
Recover ==
    /\ att.pc = "down" /\ ckpt.state = "RUNNING"
    /\ \/ /\ Valid /\ ckpt.action = "delivery" /\ ckpt.step \in Replayed
          /\ Attempt("finish", "begin", ckpt.stage, ckpt.sha)
          /\ UNCHANGED <<ckpt, spent>>
       \/ /\ Valid /\ ckpt.action = "none" /\ tree = [head |-> "base", dirty |-> FALSE]
          /\ Attempt("workflow", "audit", "docs-audit", ckpt.sha)
          /\ ckpt' = [ckpt EXCEPT !.action = "delivery", !.step = "docs-audit"]
          /\ UNCHANGED spent
       \/ /\ \/ ~Valid
             \/ ckpt.action = "delivery" /\ ckpt.step \notin Replayed
             \/ ckpt.action = "none" /\ tree # [head |-> "base", dirty |-> FALSE]
          /\ Go("idle")
          /\ ckpt' = [ckpt EXCEPT !.state = "RECOVERY_REQUIRED"]
          /\ UNCHANGED spent
       \/ /\ Failing                         \* one of the checks against GitHub fails
          /\ Go("idle")
          /\ ckpt' = [ckpt EXCEPT !.state = "RECOVERY_REQUIRED"]
    /\ UNCHANGED <<tree, origin, pr, world, claim, done>>

\* A user retries a pending delivery from where it stopped; its documents are audited again if
\* that is where it was.
Retry ==
    /\ att.pc = "idle" /\ ckpt.state = "DELIVERY_PENDING" /\ Valid
    /\ IF ckpt.stage = "docs-audit"
       THEN /\ Attempt("finish", "audit", "docs-audit", "none")
            /\ ckpt' = [Saved("READY", "docs-audit", "none") EXCEPT !.state = "RUNNING"]
       ELSE /\ Attempt("finish", "begin", ckpt.stage, ckpt.sha)
            /\ ckpt' = [ckpt EXCEPT !.state = "RUNNING"]
    /\ UNCHANGED <<tree, origin, pr, world, claim, spent, done>>

-----------------------------------------------------------------------------
(* What others do meanwhile. *)

Meddle ==
    /\ spent.meddling < MaxMeddling
    /\ spent' = [spent EXCEPT !.meddling = @ + 1]
    /\ UNCHANGED <<ckpt, att, claim, done>>

EditTree == Meddle /\ tree' = [tree EXCEPT !.dirty = TRUE] /\ UNCHANGED <<origin, pr, world>>

CommitLocally ==
    /\ Meddle
    /\ tree.dirty \/ tree.head = "work"
    /\ \E head \in {"local", "amended"} :
         /\ head = "amended" => tree.head = "work"
         /\ tree' = [head |-> head, dirty |-> FALSE]
    /\ UNCHANGED <<origin, pr, world>>

PushTheirs ==
    /\ Meddle
    /\ origin' = [origin EXCEPT !.branch = "theirs"]
    /\ pr' = IF pr.state = "open" THEN [pr EXCEPT !.head = "theirs"] ELSE pr
    /\ UNCHANGED <<tree, world>>

OpenPullRequest ==
    /\ Meddle
    /\ origin.branch # "none" /\ pr.state = "none"
    /\ pr' = [pr EXCEPT !.state = "open", !.head = origin.branch]
    /\ UNCHANGED <<tree, origin, world>>

\* Merging, by a person or at the end of the wait that was asked for, moves the base.
EndPullRequest ==
    /\ Meddle
    /\ pr.state = "open"
    /\ \E state \in {"closed", "merged"} :
         /\ pr' = [pr EXCEPT !.state = state]
         /\ origin' = [origin EXCEPT !.moved = @ \/ state = "merged"]
    /\ UNCHANGED <<tree, world>>

MoveBase == Meddle /\ ~origin.moved /\ origin' = [origin EXCEPT !.moved = TRUE] /\ UNCHANGED <<tree, pr, world>>

Reconfigure == Meddle /\ ~world.reconfigured /\ world' = [world EXCEPT !.reconfigured = TRUE] /\ UNCHANGED <<tree, origin, pr>>

\* The dashboard's server cannot take the click while it runs its own request, which never awaits.
TurnDial ==
    /\ Meddle
    /\ ~(att.by = "server" /\ att.pc \in Requesting)
    /\ world' = [world EXCEPT !.dial = ~@]
    /\ UNCHANGED <<tree, origin, pr>>

-----------------------------------------------------------------------------
Stage == Audit \/ Begin \/ Inspect \/ Commit \/ Confirm \/ ToPush \/ Lookup \/ Push \/ ToPullRequest
           \/ List \/ Create \/ View \/ Deliver \/ Clear
Merging == Assess \/ Request \/ Recheck \/ Claim \/ Check \/ Send \/ Settle
Others == EditTree \/ CommitLocally \/ PushTheirs \/ OpenPullRequest \/ EndPullRequest \/ MoveBase
            \/ Reconfigure \/ TurnDial

Next == Stage \/ Merging \/ Record \/ Close \/ Crash \/ Recover \/ Retry \/ Others

Spec == Init /\ [][Next]_vars

\* An attempt goes on, a dead one is found, and the user retries.  That git and gh return is an
\* assumption: the commands run synchronously and without a time limit (pr-delivery.ts:59).
FairSpec == Spec /\ WF_vars(Stage \/ Merging \/ Record \/ Close) /\ WF_vars(Recover) /\ WF_vars(Retry)

-----------------------------------------------------------------------------
(* Properties. *)

TypeOK ==
    /\ tree \in [head: Commits, dirty: BOOLEAN]
    /\ origin \in [branch: Commits \cup {"none"}, moved: BOOLEAN]
    /\ pr \in [state: {"none", "open", "closed", "merged"}, head: Commits \cup {"none"}, asked: BOOLEAN]
    /\ world \in [reconfigured: BOOLEAN, dial: BOOLEAN, wanted: BOOLEAN]
    /\ ckpt \in [state: States, action: {"none", "delivery"}, step: Stages, status: Statuses,
                 stage: Stages \cup {"none"}, sha: Marked \cup {"none"}, evidence: BOOLEAN]
    /\ att \in [pc: PCs, by: {"server", "cli"}, way: {"workflow", "finish"}, sha: Marked \cup {"none"},
                stage: Stages \cup {"none"}, status: Statuses, dial: BOOLEAN, shipped: BOOLEAN, eligible: BOOLEAN, told: BOOLEAN]
    /\ claim \in [Commits -> {"none", "claimed", "requested", "failed"}]
    /\ spent \in [crashes: 0..MaxCrashes, failures: 0..MaxFailures, meddling: 0..MaxMeddling]
    /\ done \in [commits: Nat, created: Nat, requests: Nat, seen: Commits \cup {"none"},
                 asked: Commits \cup {"none"}, torn: BOOLEAN]

\* However often attempts die, fail and are retried, a run makes one commit, opens one pull request
\* and asks for one merge.
OncePerRun == done.commits <= 1 /\ done.created <= 1 /\ done.requests <= 1

\* What is recorded as delivered is a commit that GitHub showed as the pull request's head.
DeliveredWasSeen == ckpt.status = "DELIVERED" => done.seen = ckpt.sha

\* A verified commit, once recorded, is never forgotten or replaced by another.
ShaKept == [][ckpt.sha # "none" => ckpt'.sha = ckpt.sha]_vars

\* GitHub is asked to merge the recorded commit and no other, though people push meanwhile.
AskedAsVerified == done.asked # "none" => done.asked = ckpt.sha

\* A claim says "requested" only if GitHub took the request.
RequestedIsAsked == \A c \in Commits : claim[c] = "requested" => pr.asked

\* What holds of a delivery at any time.
DeliveryInvariant == TypeOK /\ OncePerRun /\ DeliveredWasSeen /\ RequestedIsAsked

\* Every attempt ends, by itself or through the recovery of a dead process, if its commands return.
AttemptsEnd == ckpt.state = "RUNNING" ~> ckpt.state # "RUNNING"

\* Nobody having interfered, a pending delivery is finished by retries or left to a person by a crash.
PendingDelivered ==
    ckpt.state = "DELIVERY_PENDING" ~> ckpt.state \in {"SUCCEEDED", "RECOVERY_REQUIRED"} \/ spent.meddling > 0

\* Attempts end, and retries finish what the last one left.
DeliverySettles == AttemptsEnd /\ PendingDelivered

\* "The dashboard switch stops new requests immediately" (README.md:196), whoever makes them.
\* The code refutes it (README, section 6).
SwitchStops == [][done'.requests > done.requests => world.dial]_vars

\* "An external failure does not turn the code's result into a failure" (docs/ARCHITECTURE.md:737):
\* the delivery is left pending, to be retried.  The code refutes it (README, section 6).
OutsideFailureIsPending == ckpt.state = "RECOVERY_REQUIRED" => spent.meddling > 0 \/ done.torn

=============================================================================
