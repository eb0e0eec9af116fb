--------------------------- MODULE TeamExecution ---------------------------
(***************************************************************************)
(* One call of executeTeam (workflows/team.ts): the plan is parsed, its    *)
(* tasks run in batches, a writing task in a worktree of its own, and the  *)
(* commits of the tasks are cherry-picked one by one into the checkout.    *)
(*                                                                         *)
(* A batch is a set of concurrent async functions under Promise.all; a     *)
(* step of a task is the code between two of its awaits.  Tasks are        *)
(* numbered in the order of the plan.  A change is the pair of a task and  *)
(* of who made it: the task's own agent, or the team its answer asked for. *)
(***************************************************************************)
EXTENDS Integers, Sequences, FiniteSets

CONSTANTS
    PlanTexts,    \* the plans a planner may emit, the invalid ones included
    MaxTeamTasks, \* MAX_TEAM_TASKS, 32 in the code
    MaxTeamDepth  \* MAX_TEAM_DEPTH, 2 in the code

ASSUME BoundsAssumption == MaxTeamTasks \in Nat \ {0} /\ MaxTeamDepth \in Nat \ {0}
ASSUME PlansAssumption ==
    \A p \in PlanTexts :
        /\ p.ids \in Seq(Nat)
        /\ \A i \in 1..Len(p.ids) : p.deps[p.ids[i]] \subseteq Nat
        /\ p.writes \subseteq Nat /\ p.reviews \subseteq Nat
        /\ p.limit \in Int

VARIABLES
    call,     \* what executeTeam was called with: plan, depth, deferReview, a git checkout?
    phase,    \* where executeTeam stands
    batch,    \* the tasks under Promise.all
    stage,    \* where each task of a batch stands
    done,     \* what each finished task of the batch returns
    pending, results, conflict, commits, \* the variables of the same name
    trees,    \* the worktrees map: registered worktrees
    disk,     \* the worktrees that exist
    work,     \* per worktree: uncommitted changes, and what its HEAD has on top of the base
    base,     \* the changes in the checkout, in the order they came
    picks,    \* how many of the commits the loop of the cherry-picks has brought in
    pick      \* CHERRY_PICK_HEAD of the checkout: <<>> or the commit being picked

vars == <<call, phase, batch, stage, done, pending, results, conflict, commits,
          trees, disk, work, base, picks, pick>>
git  == <<trees, disk, work, base, picks, pick, commits>>
loop == <<pending, results, conflict>>

Plan == call.plan
Ids(p) == {p.ids[i] : i \in 1..Len(p.ids)}

-----------------------------------------------------------------------------
(* parseTeamPlan *)

\* The tasks that Kahn's loop leaves: it takes those that are ready as long as there are any.
Unscheduled(p) ==
    LET left[S \in SUBSET Ids(p)] ==
            LET ready == {t \in S : p.deps[t] \cap S = {}}
            IN  IF ready = {} THEN S ELSE left[S \ ready]
    IN  left[Ids(p)]

\* Fault: cycles are not looked for.
CyclicPlanAccepted(p) ==
    /\ Len(p.ids) \in 1..MaxTeamTasks
    /\ Cardinality(Ids(p)) = Len(p.ids)
    /\ \A t \in Ids(p) : p.deps[t] \subseteq Ids(p) \ {t}
    /\ p.limit \in 1..16

ParseTeamPlan(p) ==
    /\ Len(p.ids) \in 1..MaxTeamTasks
    /\ Cardinality(Ids(p)) = Len(p.ids)
    /\ \A t \in Ids(p) : p.deps[t] \subseteq Ids(p) \ {t}
    /\ Unscheduled(p) = {}
    /\ p.limit \in 1..16

-----------------------------------------------------------------------------
Deferred == IF call.defer THEN Ids(Plan) \cap Plan.reviews ELSE {}
Runnable == Ids(Plan) \ Deferred
ReviewsTerminal == \A t \in Ids(Plan) : Plan.deps[t] \cap Deferred = {}

\* A writing task of a git checkout gets a worktree, any other one works in the base.
OwnTree(t) == t \in Plan.writes /\ call.git

Ready == {t \in pending : \A d \in Plan.deps[t] : results[d] = "DONE"}
Blocked == {t \in pending : \E d \in Plan.deps[t] : results[d] # "DONE" /\ d \notin pending}

\* ready.slice(0, maxConcurrency), in plan order
Batch == {t \in Ready : Cardinality({u \in Ready : u < t}) < Plan.limit}

Init ==
    /\ call \in [plan : PlanTexts, depth : 1..(MaxTeamDepth + 1), defer : BOOLEAN, git : BOOLEAN]
    /\ phase = "called"
    /\ batch = {} /\ pending = {} /\ trees = {} /\ disk = {}
    /\ stage = [t \in Ids(Plan) |-> "idle"]
    /\ done = [t \in Ids(Plan) |-> "none"]
    /\ results = [t \in Ids(Plan) |-> "none"]
    /\ conflict = "none"
    /\ commits = <<>> /\ base = <<>> /\ picks = 0 /\ pick = <<>>
    /\ work = [t \in Ids(Plan) |-> [dirty |-> FALSE, nested |-> FALSE]]

\* The planner's text is parsed by the caller; a rejected one is an ordinary plan.
Reject ==
    /\ phase = "called" /\ ~ParseTeamPlan(Plan)
    /\ phase' = "rejected"
    /\ UNCHANGED <<call, batch, stage, done, loop, git>>

Refuse ==
    /\ phase = "called" /\ ParseTeamPlan(Plan)
    /\ \/ call.depth > MaxTeamDepth /\ conflict' = "depth"
       \/ call.depth <= MaxTeamDepth /\ ~ReviewsTerminal /\ conflict' = "terminal"
    /\ phase' = "returned"
    /\ UNCHANGED <<call, batch, stage, done, pending, results, git>>

Begin ==
    /\ phase = "called" /\ ParseTeamPlan(Plan)
    /\ call.depth <= MaxTeamDepth /\ ReviewsTerminal
    /\ phase' = "scheduling"
    /\ pending' = Runnable
    /\ UNCHANGED <<call, batch, stage, done, results, conflict, git>>

-----------------------------------------------------------------------------
(* The scheduling loop *)

\* One pass of the loop: a batch of ready tasks or, when there is none, a task whose
\* dependency failed is BLOCKED, or the plan is found inconsistent.
Schedule ==
    /\ phase = "scheduling" /\ conflict = "none" /\ pending # {}
    /\ phase' = IF Ready # {} THEN "batch" ELSE phase
    /\ batch' = Batch
    /\ stage' = [t \in DOMAIN stage |-> IF t \in Batch THEN "tree" ELSE stage[t]]
    /\ IF Ready = {} /\ Blocked # {}
       THEN \E t \in Blocked : /\ results' = [results EXCEPT ![t] = "BLOCKED"]
                               /\ pending' = pending \ {t}
       ELSE UNCHANGED <<results, pending>>
    /\ conflict' = IF Ready = {} /\ Blocked = {} THEN "inconsistent" ELSE conflict
    /\ UNCHANGED <<call, done, git>>

BatchEnds ==
    /\ phase = "batch" /\ \A t \in batch : stage[t] = "over"
    /\ results' = [t \in DOMAIN results |-> IF t \in batch THEN done[t] ELSE results[t]]
    /\ pending' = pending \ batch
    /\ conflict' = IF \E t \in batch : done[t] # "DONE" THEN "task" ELSE conflict
    /\ phase' = "scheduling"
    /\ batch' = {}
    /\ UNCHANGED <<call, stage, done, git>>

-----------------------------------------------------------------------------
(* One task.  Its steps go on whatever happened to Promise.all. *)

CreateTree(t) ==
    /\ stage[t] = "tree"
    /\ stage' = [stage EXCEPT ![t] = "agent"]
    /\ IF OwnTree(t) THEN disk' = disk \cup {t} /\ trees' = trees \cup {t}
                     ELSE UNCHANGED <<disk, trees>>
    /\ UNCHANGED <<call, phase, batch, done, loop, work, base, picks, pick, commits>>

\* git worktree add fails, outside the try of the task: Promise.all rejects, the
\* loop is left by the exception and only the finally clause follows.
CreateTreeFails(t) ==
    /\ stage[t] = "tree" /\ OwnTree(t)
    /\ stage' = [stage EXCEPT ![t] = "over"]
    /\ phase' = IF phase = "batch" THEN "throwing" ELSE phase
    /\ UNCHANGED <<call, batch, done, loop, git>>

\* Where a change made by task t goes: its worktree, or at once into the checkout.
Writes(t, by) ==
    IF OwnTree(t)
    THEN /\ work' = [work EXCEPT ![t] = IF by = "agent" THEN [@ EXCEPT !.dirty = TRUE]
                                                        ELSE [@ EXCEPT !.nested = TRUE]]
         /\ base' = base
    ELSE /\ base' = Append(base, <<t, by>>)
         /\ work' = work

Over(t, status) ==
    /\ stage' = [stage EXCEPT ![t] = "over"]
    /\ done' = [done EXCEPT ![t] = status]

AgentEnds(t) ==
    /\ stage[t] = "agent"
    /\ Writes(t, "agent") \/ UNCHANGED <<work, base>>
    /\ \/ \* DONE, with a team plan in its answer or without
          /\ \E next \in {"team", "commit"} : stage' = [stage EXCEPT ![t] = next]
          /\ done' = [done EXCEPT ![t] = "DONE"]
       \/ Over(t, "BLOCKED")
       \/ Over(t, "FAILED") \* or the call throws
    /\ UNCHANGED <<call, phase, batch, loop, trees, disk, picks, pick, commits>>

\* The nested executeTeam, in the task's directory: its cherry-picks are commits
\* there.  One level too deep it fails at once; it may throw.
NestedTeamEnds(t) ==
    /\ stage[t] = "team"
    /\ \/ /\ call.depth < MaxTeamDepth
          /\ Writes(t, "team") \/ UNCHANGED <<work, base>>
          /\ stage' = [stage EXCEPT ![t] = "commit"]
          /\ done' = done
       \/ /\ UNCHANGED <<work, base>> \* failed, or refused for its depth
          /\ stage' = [stage EXCEPT ![t] = "commit"]
          /\ done' = [done EXCEPT ![t] = "FAILED"]
       \/ /\ UNCHANGED <<work, base>> \* thrown
          /\ Over(t, "FAILED")
    /\ UNCHANGED <<call, phase, batch, loop, trees, disk, picks, pick, commits>>

\* commitWorktree: what is uncommitted becomes one commit, the new HEAD.  What the
\* nested team committed below it is not part of that commit.
CommitTree(t) ==
    /\ stage[t] = "commit"
    /\ \/ /\ OwnTree(t) /\ work[t].dirty /\ t \in disk
          /\ commits' = Append(commits, <<t, "agent">>)
          /\ work' = [work EXCEPT ![t].dirty = FALSE]
          /\ Over(t, done[t])
       \/ /\ ~OwnTree(t) \/ (t \in disk /\ ~work[t].dirty)
          /\ Over(t, done[t])
          /\ UNCHANGED <<commits, work>>
       \/ /\ OwnTree(t) \* git fails, as it does in a directory that was removed
          /\ Over(t, "FAILED")
          /\ UNCHANGED <<commits, work>>
    /\ UNCHANGED <<call, phase, batch, loop, trees, disk, base, picks, pick>>

-----------------------------------------------------------------------------
(* Integration, and the end *)

\* Fault: a failed task does not stop the integration of the others.
LoopEndsRegardless ==
    /\ phase = "scheduling" /\ (pending = {} \/ conflict # "none")
    /\ phase' = IF commits # <<>> THEN "picking" ELSE "cleaning"
    /\ UNCHANGED <<call, batch, stage, done, loop, git>>

\* Fault: the loop goes on while tasks are pending, whatever failed.
LoopEndsWhenEmpty ==
    /\ phase = "scheduling" /\ pending = {}
    /\ phase' = IF conflict = "none" /\ commits # <<>> THEN "picking" ELSE "cleaning"
    /\ UNCHANGED <<call, batch, stage, done, loop, git>>

LoopEnds ==
    /\ phase = "scheduling" /\ (pending = {} \/ conflict # "none")
    /\ phase' = IF conflict = "none" /\ commits # <<>> THEN "picking" ELSE "cleaning"
    /\ UNCHANGED <<call, batch, stage, done, loop, git>>

Unpicked == picks < Len(commits)

Pick ==
    /\ phase = "picking"
    /\ \/ /\ ~Unpicked
          /\ phase' = "cleaning"
          /\ UNCHANGED <<base, picks, pick, conflict>>
       \/ /\ Unpicked
          /\ base' = Append(base, commits[picks + 1])
          /\ picks' = picks + 1
          /\ UNCHANGED <<phase, pick, conflict>>
       \/ /\ Unpicked \* refused, or stopped by a conflict with CHERRY_PICK_HEAD set
          /\ pick' \in {<<>>, commits[picks + 1]}
          /\ phase' = "resolving"
          /\ conflict' = "merge"
          /\ UNCHANGED <<base, picks>>
    /\ UNCHANGED <<call, batch, stage, done, pending, results, trees, disk, work, commits>>

\* The integrator agent, which may also commit, abort or skip the pick itself; then,
\* if it is DONE, add -A and cherry-pick --continue.  Either way the loop is left.
Integrate ==
    /\ phase = "resolving"
    /\ phase' = "cleaning"
    /\ \/ /\ pick # <<>> /\ pick' = <<>> \* committed, by it or by --continue
          /\ base' = Append(base, pick)
          /\ picks' = picks + 1
          /\ conflict' = "none"
       \/ /\ pick' = <<>> \* nothing is in progress, or it aborted or skipped the pick
          /\ conflict' = "none"
          /\ UNCHANGED <<base, picks>>
       \/ /\ pick # <<>> \* --continue fails
          /\ conflict' = "integrator"
          /\ UNCHANGED <<pick, base, picks>>
       \/ UNCHANGED <<conflict, pick, base, picks>> \* it did not end DONE
    /\ UNCHANGED <<call, batch, stage, done, pending, results, trees, disk, work, commits>>

\* The finally clause: every worktree registered by now is removed by force.
Clean ==
    /\ phase \in {"cleaning", "throwing"}
    /\ disk' = disk \ trees
    /\ phase' = IF phase = "cleaning" THEN "returned" ELSE "thrown"
    /\ UNCHANGED <<call, batch, stage, done, loop, trees, work, base, picks, pick, commits>>

TaskStep(t) ==
    \/ CreateTree(t) \/ CreateTreeFails(t) \/ AgentEnds(t) \/ NestedTeamEnds(t) \/ CommitTree(t)

Next ==
    \/ Reject \/ Refuse \/ Begin
    \/ Schedule \/ BatchEnds \/ LoopEnds
    \/ \E t \in DOMAIN stage : TaskStep(t)
    \/ Pick \/ Integrate \/ Clean

Spec == Init /\ [][Next]_vars

Active == {t \in DOMAIN stage : stage[t] \notin {"idle", "over"}}

\* The team waits for agents and for git.  Neither has a time limit (llm/anthropic/agent-runner.ts:14,
\* team.ts:106), so any of them may last for ever.
Engaged == Active # {} \/ phase \in {"picking", "resolving", "cleaning", "throwing"}

\* The process takes the steps that wait for nobody.
FairSpec == Spec /\ WF_vars(Next /\ ~Engaged)

-----------------------------------------------------------------------------
(* Properties *)

Returned == phase = "returned"
Failed == conflict # "none" \/ \E t \in Ids(Plan) : results[t] \notin {"none", "DONE"}

Statuses == {"none", "DONE", "FAILED", "BLOCKED"}
Changes == Ids(Plan) \X {"agent", "team"}

TypeOK ==
    /\ call \in [plan : PlanTexts, depth : 1..(MaxTeamDepth + 1), defer : BOOLEAN, git : BOOLEAN]
    /\ phase \in {"called", "rejected", "scheduling", "batch", "picking", "resolving",
                  "cleaning", "throwing", "returned", "thrown"}
    /\ batch \subseteq Ids(Plan) /\ pending \subseteq Ids(Plan)
    /\ trees \subseteq Ids(Plan) /\ disk \subseteq trees
    /\ stage \in [Ids(Plan) -> {"idle", "tree", "agent", "team", "commit", "over"}]
    /\ done \in [Ids(Plan) -> Statuses] /\ results \in [Ids(Plan) -> Statuses]
    /\ conflict \in {"none", "depth", "terminal", "inconsistent", "task", "merge", "integrator"}
    /\ commits \in Seq(Changes) /\ base \in Seq(Changes)
    /\ picks \in Nat /\ pick \in Changes \cup {<<>>}
    /\ work \in [Ids(Plan) -> [dirty : BOOLEAN, nested : BOOLEAN]]

\* A plan that passed the checks can be scheduled to its end: no accepted plan ever
\* leaves tasks of which none can run (team.ts:86 is meant to exclude it).
Schedulable ==
    phase = "scheduling" /\ conflict = "none" /\ pending # {} => Ready # {}

\* No more tasks run at once than the plan allows.
WithinLimit == Cardinality(Active) <= (IF ParseTeamPlan(Plan) THEN Plan.limit ELSE 0)

\* A team that returns leaves no task running and no worktree behind, and removes no
\* worktree under a running task.  (One that throws does all three, team.ts:190.)
QuietReturn ==
    /\ phase \in {"scheduling", "picking", "resolving", "cleaning", "returned"} => Active = {}
    /\ Returned => disk = {}

\* What holds of executeTeam at each of its awaits (types, Schedulable, WithinLimit,
\* QuietReturn).
TeamInvariant == TypeOK /\ Schedulable /\ WithinLimit /\ QuietReturn

\* Whether change c is one of the first n changes of the checkout.
Placed(c, n) == \E i \in 1..n : base[i] = c

\* Nothing of a worktree reaches the checkout before every task is DONE, and what
\* does is an initial part of the commits, each of them once, in the order in which the
\* tasks finished, but for a pick that an integrator gave up.
GatedIntegration ==
    /\ (\E k \in 1..Len(commits) : Placed(commits[k], Len(base))) \/ pick # <<>> =>
            /\ \A t \in Runnable : results[t] = "DONE"
            /\ Active = {}
    /\ \A i \in 1..Len(base), k \in 1..Len(commits) :
            base[i] = commits[k] =>
                ~Placed(commits[k], i - 1) /\ \A l \in 1..(k - 1) : Placed(commits[l], i - 1)
    /\ pick # <<>> => \E k \in 1..Len(commits) :
            /\ pick = commits[k] /\ ~Placed(pick, Len(base))
            /\ \A l \in 1..(k - 1) : Placed(commits[l], Len(base))

\* Every call comes back with every task it started ended, or waits for an agent or git for
\* ever: the scheduling itself never stops half way (fairness: the process takes its own steps).
TeamEnds == <>[](phase \in {"rejected", "returned", "thrown"} /\ Active = {}) \/ <>[]Engaged

\* "Integrated automatically" (README.md:11): a team that succeeded has every commit of
\* its tasks in the checkout.  The code refutes it (README, section 6).
TeamIntegrated ==
    Returned /\ ~Failed => \A k \in 1..Len(commits) : Placed(commits[k], Len(base))
=============================================================================
