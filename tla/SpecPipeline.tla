---------------------------- MODULE SpecPipeline ----------------------------
(***************************************************************************)
(* The spec workflow of src/workflows/spec.ts: one run of runSpecInternal, *)
(* from its first step to the result that spec-session.ts writes to the    *)
(* run's row.  A step is what the code does between two awaits; the user   *)
(* may cancel between any two of them.                                     *)
(*                                                                         *)
(*   mem    the variables of runSpecInternal that a checkpoint holds       *)
(*   run    the ones that live in the process only, with its control state *)
(*   ckpt   the last published checkpoint                                  *)
(*   child  the row of the agent run the workflow started last             *)
(*   work   the workspace, with what was established about its code        *)
(***************************************************************************)
EXTENDS Naturals, FiniteSets, Sequences

CONSTANTS
    Options,        \* the option records a run may be started with
    PlanKinds       \* what a planner may return: a subset of Plans

VARIABLES opts, mem, run, ckpt, child, work, aborted, row

vars == <<opts, mem, run, ckpt, child, work, aborted, row>>

STEP_ORDER == <<"clarifier", "planner", "scaffold", "test", "review", "cicd">>
Index == [clarifier |-> 1, planner |-> 2, scaffold |-> 3, test |-> 4, review |-> 5, cicd |-> 6]
Steps == DOMAIN Index
Writers == {"scaffold", "test", "cicd"}
RouteTargets == {"planner", "clarifier"}
Gates == {"baseline", "repro", "verify", "runtime"}
Plans == {"plan", "plan+cicd", "team"}

\* What a run is started with: the enabled steps, the step a resumed run starts at, the
\* rework budget, the automatic clarification rounds, the commands the project declares,
\* the role boundary, checkpoints, pull-request delivery, an extra instruction, and whether
\* files that git ignores match the guarded globs (the tests of an installed dependency do).
OptionSet ==
    [steps: SUBSET Steps, start: 1..6, maxRoutes: Nat, clarifyRounds: Nat, gates: SUBSET Gates,
     boundary: BOOLEAN, checkpointed: BOOLEAN, pr: BOOLEAN, instruction: BOOLEAN, ignored: BOOLEAN]

ASSUME OptionsAssumption ==
    /\ Options \subseteq OptionSet
    /\ PlanKinds \subseteq Plans
    /\ \A o \in Options : o.pr => o.checkpointed /\ {"planner", "scaffold", "test", "review"} \subseteq o.steps

-----------------------------------------------------------------------------
(* What an agent, a gate and a checkpoint may say. *)

Outputs(step) ==
    CASE step = "clarifier" -> {"ready", "ask", "invalid"}
      [] step = "planner" -> {"invalid"} \cup (IF "repro" \in opts.gates THEN PlanKinds \ {"team"} ELSE PlanKinds)
      [] step = "test" -> {"pass", "blocked", "invalid"} \cup RouteTargets
      [] step = "review" -> {"ship", "blocked"} \cup RouteTargets
      [] OTHER -> {"done"}

NoAnswer == [step |-> "none", status |-> "none", out |-> "none", stray |-> FALSE, current |-> FALSE]
NoChild == NoAnswer
NoCall == [action |-> "none", step |-> "none", started |-> FALSE, before |-> FALSE, input |-> {}]

\* What inputFor adds to a step's own text.
InputFor(m, step) ==
    (IF m.feedback = "none" THEN {} ELSE {<<"feedback", m.feedback>>})
    \cup (IF opts.instruction /\ ~m.instructed THEN {<<"instruction", 0>>} ELSE {})
    \cup (IF step = "review" THEN {<<"evidence", e>> : e \in m.evidence} ELSE {})

\* Fault: the checkpoint leaves the feedback out.
PublishedSilent(m, call) ==
    IF opts.checkpointed THEN [mem |-> [m EXCEPT !.feedback = "none"], call |-> call] ELSE ckpt

Published(m, call) == IF opts.checkpointed THEN [mem |-> m, call |-> call] ELSE ckpt
Intent(action, step) == [NoCall EXCEPT !.action = action, !.step = step, !.before = TRUE]

\* Fault: the cap forgets the first attempt.
CapShort == 6 * opts.maxRoutes + opts.clarifyRounds

Cap == 6 * (opts.maxRoutes + 2) + opts.clarifyRounds
Step == STEP_ORDER[mem.cursor]
CicdUnplanned == Step = "cicd" /\ mem.plan \notin {"none", "plan+cicd"}

-----------------------------------------------------------------------------
(* Ways on from a point of the loop. *)

At(pc) == row = "RUNNING" /\ run.pc = pc

Goto(m, pc) == mem' = m /\ run' = [run EXCEPT !.pc = pc]

\* `continue` of the loop
Again(m, verdict) ==
    /\ mem' = m
    /\ run' = [run EXCEPT !.pc = "head", !.team = "no", !.verdict = verdict]

\* `break` of the loop, or the return of the team path
Stop(m, verdict, failure) ==
    /\ mem' = m
    /\ run' = [run EXCEPT !.pc = IF run.team = "no" THEN "finish" ELSE "returned",
                          !.verdict = verdict, !.failure = failure]

\* an exception that leaves runSpecInternal: spec-session.ts writes FAILED
Throw(m) == /\ mem' = m
            /\ run' = [run EXCEPT !.pc = "returned", !.verdict = "FAILED", !.failure = TRUE]

CanRoute(m, target) == target \in opts.steps /\ m.routes < opts.maxRoutes

\* Fault: a rework is free; a rework keeps the old results.
RoutedFree(m, target, source) ==
    [m EXCEPT !.feedback = source, !.results = @ \cap {"clarifier"}, !.cursor = Index[target]]
RoutedKeeping(m, target, source) ==
    [m EXCEPT !.routes = @ + 1, !.feedback = source, !.cursor = Index[target]]

Routed(m, target, source) ==
    [m EXCEPT !.routes = @ + 1,
              !.feedback = source,
              !.results = IF target = "clarifier" THEN @ \ (Steps \cup {"verify"}) ELSE @ \cap {"clarifier"},
              !.evidence = IF target = "planner" THEN {} ELSE @,
              !.cursor = Index[target]]

\* A requested rework: taken when the target is enabled and the budget has a route left.
RouteTo(m, target, source, carried, verdict) ==
    IF CanRoute(m, target) THEN Again(Routed(m, target, source), carried) ELSE Stop(m, verdict, TRUE)

\* Fault: the count is only in memory when the rework starts.
IntegrityIssueUnpublished(m, routeAllowed) ==
    LET counted == [m EXCEPT !.violations = @ + 1] IN
    /\ ckpt' = Published(m, NoCall)
    /\ IF routeAllowed THEN RouteTo(counted, "planner", "role-boundary", run.verdict, "FAILED")
                       ELSE Stop(counted, "CANCELLED", TRUE)

\* Guarded files changed: the count is published before the rework is decided.
IntegrityIssue(m, routeAllowed) ==
    LET counted == [m EXCEPT !.violations = @ + 1] IN
    /\ ckpt' = Published(counted, NoCall)
    /\ IF routeAllowed THEN RouteTo(counted, "planner", "role-boundary", run.verdict, "FAILED")
                       ELSE Stop(counted, "CANCELLED", TRUE)

\* inspectIntegrity throws, as it does when git cannot be asked.
IntegrityUnknown(m) == Stop(m, "BLOCKED", TRUE) /\ UNCHANGED ckpt

\* Fault: every gate adds to the evidence.
ShownAll(m, g) == m.evidence \cup {<<g, m.routes>>}

\* The evidence after a gate: verify starts the attempt's evidence, runtime adds to it.
Shown(m, g) == (IF g = "runtime" THEN m.evidence ELSE {}) \cup {<<g, m.routes>>}

\* The gates after the test step, and what follows them.
\* Fault: the runtime gate runs only where no verify command is declared.
GateAfterFirst(g) ==
    CASE g = "start" /\ "verify" \in opts.gates -> "verify"
      [] g = "start" /\ "verify" \notin opts.gates /\ "runtime" \in opts.gates -> "runtime"
      [] OTHER -> "end"

GateAfter(g) ==
    IF g = "start" /\ "verify" \in opts.gates THEN "verify"
    ELSE IF g # "runtime" /\ "runtime" \in opts.gates THEN "runtime" ELSE "end"

PassGate(m, g) ==
    CASE GateAfter(g) # "end" -> Goto(m, GateAfter(g))
      [] GateAfter(g) = "end" /\ run.team = "no" -> Again([m EXCEPT !.cursor = @ + 1], run.verdict)
      [] OTHER -> Goto(m, "reviews")

-----------------------------------------------------------------------------
(* The head of the loop. *)

Init ==
    /\ opts \in Options
    /\ \E plan \in IF opts.start > 2 THEN {"plan", "plan+cicd"} ELSE {"none"} :
         mem = [cursor |-> opts.start, executed |-> 0, routes |-> 0, feedback |-> "none",
                instructed |-> FALSE, results |-> {}, plan |-> plan, evidence |-> {},
                violations |-> 0, rounds |-> 0, baseline |-> FALSE]
    /\ run = [pc |-> "head", verdict |-> "none", failure |-> FALSE, team |-> "no",
              resumes |-> "none", recovered |-> NoAnswer, before |-> "own", answer |-> NoAnswer,
              delivery |-> "none"]
    /\ ckpt = [mem |-> mem, call |-> NoCall]
    /\ child = NoChild
    /\ work = [changed |-> FALSE, tampered |-> FALSE, passed |-> {}, approved |-> FALSE]
    /\ aborted = FALSE
    /\ row = "RUNNING"

\* The user cancels: the signal is set, every check comes later.
Abort ==
    /\ row = "RUNNING" /\ run.pc # "down" /\ ~aborted
    /\ aborted' = TRUE
    /\ UNCHANGED <<opts, mem, run, ckpt, child, work, row>>

CancelAtHead ==
    /\ At("head") /\ mem.cursor <= 6 /\ aborted
    /\ Stop(mem, "CANCELLED", FALSE)
    /\ UNCHANGED <<opts, ckpt, child, work, aborted, row>>

SkipStep ==
    /\ At("head") /\ mem.cursor <= 6 /\ ~aborted /\ Step \notin opts.steps
    /\ Again([mem EXCEPT !.cursor = @ + 1], run.verdict)
    /\ UNCHANGED <<opts, ckpt, child, work, aborted, row>>

EnterStep ==
    /\ At("head") /\ mem.cursor <= 6 /\ ~aborted /\ Step \in opts.steps
    /\ Goto(mem, "step")
    /\ UNCHANGED <<opts, ckpt, child, work, aborted, row>>

LeaveLoop ==
    /\ At("head") /\ mem.cursor > 6
    /\ Goto(mem, "finish")
    /\ UNCHANGED <<opts, ckpt, child, work, aborted, row>>

-----------------------------------------------------------------------------
(* The integrity baseline, taken before the first step that is not the clarifier. *)

BaselineMissing == Step # "clarifier" /\ ~mem.baseline
BaselineRefused == opts.checkpointed /\ mem.cursor > Index.scaffold
BaselineVerified == "baseline" \in opts.gates /\ "repro" \notin opts.gates

CaptureFails ==
    /\ At("step") /\ BaselineMissing
    /\ Stop(mem, "BLOCKED", TRUE)
    /\ UNCHANGED <<opts, ckpt, child, work, aborted, row>>

CaptureBaseline ==
    /\ At("step") /\ BaselineMissing /\ ~BaselineRefused
    /\ LET m == [mem EXCEPT !.baseline = TRUE] IN
         IF BaselineVerified
         THEN /\ Goto(m, "baselining")
              /\ ckpt' = Published(m, Intent("verify", "verify-baseline"))
         ELSE /\ Goto(m, "step")
              /\ ckpt' = Published(m, NoCall)
    /\ UNCHANGED <<opts, child, work, aborted, row>>

\* A rework asked for at the baseline is published a second time, with what the rework changed.
BaselineIssue(m) ==
    /\ RouteTo([m EXCEPT !.violations = @ + 1], "planner", "role-boundary", run.verdict, "FAILED")
    /\ ckpt' = Published(mem', NoCall)

\* The verify command ran on the untouched project; a command may write files.
BaselineEnds ==
    /\ At("baselining")
    /\ \E tampered \in BOOLEAN :
         /\ work' = [work EXCEPT !.tampered = tampered, !.changed = @ \/ tampered]
         /\ LET m == [mem EXCEPT !.results = @ \cup {"verify-baseline"}] IN
              \/ aborted /\ Stop(m, "CANCELLED", FALSE) /\ UNCHANGED ckpt
              \/ Throw(m) /\ UNCHANGED ckpt
              \/ tampered /\ BaselineIssue(m)
              \/ ~tampered /\ Stop(m, "BLOCKED", TRUE) /\ UNCHANGED ckpt
              \/ ~tampered /\ Goto(m, "step") /\ ckpt' = Published(m, NoCall)
    /\ UNCHANGED <<opts, child, aborted, row>>

-----------------------------------------------------------------------------
(* One agent call. *)

StepReady == At("step") /\ ~BaselineMissing

\* Fault: the loop is continued without moving on.
SkipCicdStays ==
    /\ StepReady /\ CicdUnplanned
    /\ Again(mem, run.verdict)
    /\ UNCHANGED <<opts, ckpt, child, work, aborted, row>>

SkipCicd ==
    /\ StepReady /\ CicdUnplanned
    /\ Again([mem EXCEPT !.cursor = @ + 1], run.verdict)
    /\ UNCHANGED <<opts, ckpt, child, work, aborted, row>>

ReviewHeld ==
    /\ StepReady /\ Step = "review"
    /\ IntegrityUnknown(mem) \/ (work.tampered /\ IntegrityIssue(mem, TRUE))
    /\ UNCHANGED <<opts, child, work, aborted, row>>

StepAllowed == StepReady /\ ~CicdUnplanned /\ (Step = "review" => ~work.tampered)
\* Fault: the resumed step is not recognised.
ResumedNever == FALSE

Resumed == run.resumes = Step
Counted == [mem EXCEPT !.executed = IF Resumed THEN @ ELSE @ + 1]

SnapshotFails ==
    /\ StepAllowed /\ Step \in Writers /\ Counted.executed <= Cap
    /\ Stop(Counted, "BLOCKED", TRUE)
    /\ UNCHANGED <<opts, ckpt, child, work, aborted, row>>

\* Past the cap the loop is left without a verdict.  Otherwise the call is announced in the
\* checkpoint before it is made, or a recovered result stands in for it.
StartStep ==
    /\ StepAllowed
    /\ LET m == [Counted EXCEPT !.instructed = @ \/ opts.instruction]
           recovered == Resumed /\ run.recovered # NoAnswer
       IN CASE m.executed > Cap ->
                 Stop(Counted, run.verdict, run.failure) /\ UNCHANGED ckpt
            [] m.executed <= Cap /\ recovered ->
                 /\ mem' = m
                 /\ run' = [run EXCEPT !.pc = "answered", !.resumes = "none", !.before = "late",
                                       !.answer = run.recovered, !.recovered = NoAnswer]
                 /\ UNCHANGED ckpt
            [] OTHER ->
                 /\ mem' = m
                 /\ run' = [run EXCEPT !.pc = "calling", !.answer = NoAnswer, !.before = "own",
                                       !.resumes = IF Resumed THEN "none" ELSE @]
                 /\ ckpt' = Published(m, [Intent("agent", Step) EXCEPT !.input = InputFor(Counted, Step)])
    /\ UNCHANGED <<opts, child, work, aborted, row>>

\* runAgent inserts the child's row and reports it; a guard of the runner may refuse it.
CallStarts ==
    /\ At("calling")
    /\ \E status \in {"RUNNING", "BLOCKED"} :
         LET started == [NoChild EXCEPT !.step = Step, !.status = status, !.current = TRUE] IN
         /\ child' = started
         /\ run' = [run EXCEPT !.pc = IF status = "RUNNING" THEN "working" ELSE "answered",
                               !.answer = IF status = "RUNNING" THEN NoAnswer ELSE started,
                               !.recovered.current = IF Step \in {"scaffold", "test"} THEN FALSE ELSE @]
    /\ ckpt' = Published(mem, [ckpt.call EXCEPT !.started = TRUE, !.before = FALSE])
    /\ work' = IF Step \in {"scaffold", "test"} THEN [work EXCEPT !.passed = {}, !.approved = FALSE] ELSE work
    /\ UNCHANGED <<opts, mem, aborted, row>>

\* The agent answers, fails, is cancelled or throws; a step with write tools may change files.
CallResult(status, out, changed, tampered, stray, throws) ==
    /\ changed \/ stray => Step \in Writers
    /\ Step \notin Writers => tampered = work.tampered
    /\ tampered # work.tampered => changed
    /\ stray => Step = "test" /\ opts.boundary /\ changed
    /\ throws => status = "FAILED"
    /\ status = "DONE" <=> out # "none"
    /\ child' = [child EXCEPT !.status = status, !.out = out, !.stray = stray]
    /\ run' = IF throws THEN [run EXCEPT !.pc = "returned", !.verdict = "FAILED", !.failure = TRUE]
              ELSE [run EXCEPT !.pc = "answered", !.answer = child']
    /\ work' = [work EXCEPT !.tampered = tampered, !.changed = @ \/ changed]

CallEnds ==
    /\ At("working")
    /\ \E status \in IF aborted THEN {"CANCELLED"} ELSE {"DONE", "FAILED"},
         out \in Outputs(Step) \cup {"none"}, changed, tampered, stray, throws \in BOOLEAN :
           CallResult(status, out, changed, tampered, stray, throws)
    /\ UNCHANGED <<opts, mem, ckpt, aborted, row>>

-----------------------------------------------------------------------------
(* What the loop does with the answer. *)

\* The feedback was in the call's input; the step has a result now.
Consumed == [mem EXCEPT !.feedback = "none", !.results = @ \cup {Step}]
Cancelled == run.answer.status = "CANCELLED" \/ aborted

AnswerHeld ==
    /\ At("answered") /\ Step \in Writers
    /\ \/ IntegrityUnknown(Consumed)
       \/ work.tampered /\ IntegrityIssue(Consumed, ~Cancelled)
    /\ UNCHANGED <<opts, child, work, aborted, row>>

\* Fault: the guarded files are not compared after the call.
CheckedLoosely == At("answered")

Checked == At("answered") /\ (Step \in Writers => ~work.tampered)

AnswerStopped ==
    /\ Checked /\ (run.answer.status # "DONE" \/ aborted)
    /\ Stop(Consumed, IF Cancelled THEN "CANCELLED" ELSE run.answer.status, TRUE)
    /\ UNCHANGED <<opts, ckpt, child, work, aborted, row>>

\* Fault: the role boundary is not checked.
StraySeenNever == FALSE

\* The role boundary compares the workspace with the snapshot taken before the call.
StraySeen == Step = "test" /\ run.answer.stray /\ run.before = "own"

AnswerStrays ==
    /\ Checked /\ run.answer.status = "DONE" /\ ~aborted /\ StraySeen
    /\ Stop(Consumed, "FAILED", TRUE)
    /\ UNCHANGED <<opts, ckpt, child, work, aborted, row>>

Answered(step, outs) ==
    /\ Checked /\ run.answer.status = "DONE" /\ ~aborted /\ ~StraySeen
    /\ Step = step /\ run.answer.out \in outs

ClarifierReady ==
    /\ Answered("clarifier", {"ready"})
    /\ Again([Consumed EXCEPT !.cursor = @ + 1], run.verdict)
    /\ UNCHANGED <<opts, ckpt, child, work, aborted, row>>

\* Questions are answered with their recommendations while rounds are left; an answer that is
\* not ready and asks nothing ends the run at once, as questions do when no round is left.
ClarifierAsks ==
    /\ Answered("clarifier", {"ask"})
    /\ \/ mem.rounds < opts.clarifyRounds /\ Again([Consumed EXCEPT !.rounds = @ + 1], run.verdict)
       \/ Stop(Consumed, "NEEDS-CLARIFICATION", FALSE)
    /\ UNCHANGED <<opts, ckpt, child, work, aborted, row>>

AnswerInvalid ==
    /\ \E step \in {"clarifier", "planner", "test"} : Answered(step, {"invalid"})
    /\ Stop(Consumed, "BLOCKED", TRUE)
    /\ UNCHANGED <<opts, ckpt, child, work, aborted, row>>

PlannerPlans ==
    /\ Answered("planner", {"plan", "plan+cicd"})
    /\ Again([Consumed EXCEPT !.cursor = @ + 1, !.plan = run.answer.out], run.verdict)
    /\ UNCHANGED <<opts, ckpt, child, work, aborted, row>>

WriterDone ==
    /\ \E step \in {"scaffold", "cicd"} : Answered(step, {"done"})
    /\ Again([Consumed EXCEPT !.cursor = @ + 1], run.verdict)
    /\ UNCHANGED <<opts, ckpt, child, work, aborted, row>>

AnswerBlocked ==
    /\ \E step \in {"test", "review"} : Answered(step, {"blocked"})
    /\ Stop(Consumed, "BLOCKED", TRUE)
    /\ UNCHANGED <<opts, ckpt, child, work, aborted, row>>

-----------------------------------------------------------------------------
(* The test step's answer, and the commands the workflow runs itself. *)

\* A PASS goes on to the gates, a FAIL back to the step it names; in bug mode the
\* reproduction command runs first, whatever the answer was.
TestAnswered ==
    /\ Answered("test", {"pass"} \cup RouteTargets)
    /\ IF "repro" \in opts.gates
       THEN Goto(Consumed, "reproducing") /\ ckpt' = Published(Consumed, Intent("verify", "repro"))
       ELSE /\ IF run.answer.out = "pass" THEN PassGate(Consumed, "start")
               ELSE RouteTo(Consumed, run.answer.out, "test", run.verdict, "FAILED")
            /\ UNCHANGED ckpt
    /\ UNCHANGED <<opts, child, work, aborted, row>>

\* The reproduction command may write files too; what it wrote is first compared by the next gate
\* or before the review.
ReproEnds ==
    /\ At("reproducing")
    /\ \E tampered \in BOOLEAN :
         LET m == [mem EXCEPT !.results = @ \cup {"repro"}]
             effect == [work EXCEPT !.tampered = tampered, !.changed = @ \/ tampered]
         IN \/ aborted /\ Stop(m, "CANCELLED", FALSE) /\ work' = effect
            \/ Throw(m) /\ work' = effect
            \/ RouteTo(m, "planner", "repro", run.verdict, "FAILED") /\ work' = effect
            \/ /\ run.answer.out = "pass" /\ PassGate(m, "start")
               /\ work' = [effect EXCEPT !.passed = @ \cup {"repro"}]
            \/ /\ run.answer.out # "pass" /\ RouteTo(m, run.answer.out, "test", run.verdict, "FAILED")
               /\ work' = effect
    /\ UNCHANGED <<opts, ckpt, child, aborted, row>>

\* Fault: the team path has no gates.
GatesPassedByTeam == run.team # "no"

\* In the team path a failed team or a cancelled run passes the gates by.
GatesPassedBy == run.team = "failed" \/ (run.team = "ok" /\ aborted)

GateSkipped ==
    /\ \E g \in {"verify", "runtime"} : At(g) /\ GatesPassedBy /\ PassGate(mem, g)
    /\ UNCHANGED <<opts, ckpt, child, work, aborted, row>>

GateHeld ==
    /\ \E g \in {"verify", "runtime"} : At(g) /\ ~GatesPassedBy
    /\ IntegrityUnknown(mem) \/ (work.tampered /\ IntegrityIssue(mem, TRUE))
    /\ UNCHANGED <<opts, child, work, aborted, row>>

GateStarts ==
    /\ \E g \in {"verify", "runtime"} :
         /\ At(g) /\ ~GatesPassedBy /\ ~work.tampered
         /\ Goto(mem, IF g = "verify" THEN "verifying" ELSE "probing")
         /\ ckpt' = Published(mem, Intent(g, g))
    /\ UNCHANGED <<opts, child, work, aborted, row>>

VerifyEnds ==
    /\ At("verifying")
    /\ \E tampered \in BOOLEAN :
         /\ work.tampered => tampered
         /\ LET m == [mem EXCEPT !.results = @ \cup {"verify"}]
                good == [m EXCEPT !.evidence = Shown(m, "verify")]
                effect == [work EXCEPT !.tampered = tampered, !.changed = @ \/ tampered]
            IN \/ Throw(m) /\ work' = effect /\ UNCHANGED ckpt
               \/ IntegrityUnknown(m) /\ work' = effect
               \/ tampered /\ IntegrityIssue(m, ~aborted) /\ work' = effect
               \/ ~tampered /\ aborted /\ Stop(m, "CANCELLED", FALSE) /\ work' = effect /\ UNCHANGED ckpt
               \/ /\ ~tampered /\ ~aborted /\ work' = effect /\ UNCHANGED ckpt
                  /\ IF run.team = "no" THEN RouteTo(m, "planner", "verify", run.verdict, "FAILED")
                                        ELSE Stop(m, "FAILED", TRUE)
               \* exit code 0, but the JUnit report is unreadable or shows fewer tests
               \/ ~tampered /\ ~aborted /\ work' = effect /\ IntegrityUnknown(good)
               \/ ~tampered /\ ~aborted /\ work' = effect /\ IntegrityIssue(good, TRUE)
               \/ /\ ~tampered /\ ~aborted /\ UNCHANGED ckpt
                  /\ PassGate(good, "verify")
                  /\ work' = [effect EXCEPT !.passed = @ \cup {"verify"}]
    /\ UNCHANGED <<opts, child, aborted, row>>

RuntimeEnds ==
    /\ At("probing")
    /\ \E tampered, stray \in BOOLEAN :
         /\ work.tampered => tampered
         /\ LET m == [mem EXCEPT !.results = @ \cup {"verify"}, !.evidence = Shown(mem, "runtime")]
                effect == [work EXCEPT !.tampered = tampered, !.changed = @ \/ tampered \/ stray]
                strayed == [m EXCEPT !.violations = @ + 1]
            IN IF stray
               THEN Stop(strayed, "FAILED", TRUE) /\ ckpt' = Published(strayed, NoCall) /\ work' = effect
               ELSE \/ Throw(m) /\ work' = effect /\ UNCHANGED ckpt
                    \/ IntegrityUnknown(m) /\ work' = effect
                    \/ tampered /\ IntegrityIssue(m, ~aborted) /\ work' = effect
                    \/ ~tampered /\ aborted /\ Stop(m, "CANCELLED", FALSE) /\ work' = effect /\ UNCHANGED ckpt
                    \/ ~tampered /\ ~aborted /\ Stop(m, "BLOCKED", TRUE) /\ work' = effect /\ UNCHANGED ckpt
                    \/ /\ ~tampered /\ ~aborted /\ work' = effect /\ UNCHANGED ckpt
                       /\ RouteTo(m, "planner", "verify", run.verdict, "FAILED")
                    \/ /\ ~tampered /\ ~aborted /\ UNCHANGED ckpt
                       /\ PassGate(m, "runtime")
                       /\ work' = [effect EXCEPT !.passed = @ \cup {"runtime"}]
    /\ UNCHANGED <<opts, child, aborted, row>>

-----------------------------------------------------------------------------
(* The review step, and the dynamic team that replaces the steps after the planner. *)

ReviewShips ==
    /\ Answered("review", {"ship"})
    /\ Again([Consumed EXCEPT !.cursor = @ + 1], "SHIP")
    /\ work' = [work EXCEPT !.approved = run.answer.current]
    /\ UNCHANGED <<opts, ckpt, child, aborted, row>>

ReviewRefuses ==
    /\ Answered("review", RouteTargets)
    /\ RouteTo(Consumed, run.answer.out, "review", "NEEDS-WORK", "NEEDS-WORK")
    /\ UNCHANGED <<opts, ckpt, child, work, aborted, row>>

TeamStarts ==
    /\ Answered("planner", {"team"})
    /\ LET m == [Consumed EXCEPT !.plan = "team"] IN
         /\ mem' = m
         /\ run' = [run EXCEPT !.pc = "team", !.team = "ok"]
         /\ ckpt' = Published(m, Intent("team", "team"))
    /\ work' = [work EXCEPT !.passed = {}, !.approved = FALSE]
    /\ UNCHANGED <<opts, child, aborted, row>>

\* The tasks ended, some perhaps failed or cancelled, and the commits were integrated.
TeamEnds ==
    /\ At("team")
    /\ \E tampered \in BOOLEAN, outcome \in {"ok", "failed"} :
         /\ work' = [work EXCEPT !.tampered = tampered, !.changed = TRUE]
         /\ LET m == [mem EXCEPT !.results = @ \cup {"team"}] IN
              \/ Throw(m) /\ UNCHANGED ckpt
              \/ IntegrityUnknown(m)
              \/ tampered /\ IntegrityIssue(m, ~aborted)
              \/ /\ ~tampered /\ mem' = m /\ UNCHANGED ckpt
                 /\ run' = [run EXCEPT !.team = outcome,
                                       !.pc = IF GateAfter("start") = "end" THEN "reviews" ELSE GateAfter("start")]
    /\ UNCHANGED <<opts, child, aborted, row>>

\* The plan's reviews run after the gates; they are not reached when cancelled.  A plan without one
\* ships, and so do a review without a marker and a BLOCKED marker behind a SHIP: only a team whose
\* reviews all said SHIP is approved.
TeamShips ==
    /\ At("reviews") /\ run.team = "ok"
    /\ mem' = mem
    /\ run' = [run EXCEPT !.pc = IF aborted THEN "returned" ELSE "auditing", !.verdict = "SHIP"]
    /\ \E approved \in BOOLEAN :
         /\ approved => ~aborted
         /\ work' = [work EXCEPT !.approved = approved]
    /\ UNCHANGED <<opts, ckpt, child, aborted, row>>

TeamReviewRefuses ==
    /\ At("reviews") /\ run.team = "ok" /\ ~aborted
    /\ \/ \E target \in RouteTargets : RouteTo(mem, target, "review", run.verdict, "NEEDS-WORK")
       \/ Stop(mem, "BLOCKED", TRUE)
    /\ UNCHANGED <<opts, ckpt, child, work, aborted, row>>

\* A task failed, or a review did not end DONE, as every review of a cancelled run.
TeamFails ==
    /\ At("reviews")
    /\ Stop(mem, "FAILED", TRUE)
    /\ UNCHANGED <<opts, ckpt, child, work, aborted, row>>

-----------------------------------------------------------------------------
(* The end of a run: the work after success, and the result. *)

\* Fault: a cancelled run that got through goes on to the commit.
SucceededAnyway ==
    mem.cursor > 6 /\ mem.executed > 0 /\ ~run.failure /\ run.verdict # "NEEDS-CLARIFICATION"

\* Only a workflow that went through every step audits the documents and commits.
Succeeded ==
    mem.cursor > 6 /\ mem.executed > 0 /\ ~run.failure /\ run.verdict # "NEEDS-CLARIFICATION" /\ ~aborted

Finalize ==
    /\ At("finish")
    /\ ckpt' = Published(mem, [NoCall EXCEPT !.action = "finalize", !.step = "finalize"])
    /\ Goto(mem, IF Succeeded THEN "auditing" ELSE "returned")
    /\ UNCHANGED <<opts, child, work, aborted, row>>

PostSuccessStarts ==
    /\ At("auditing")
    /\ Goto(mem, "posting")
    /\ ckpt' = Published(mem, Intent("delivery", IF opts.pr THEN "docs-audit" ELSE "post-success"))
    /\ UNCHANGED <<opts, child, work, aborted, row>>

\* The local audit and commit end, well or not; its failures are logged only.  Without a
\* checkpoint nobody waits for them, and the row may have got its final state before.
PostSuccessEnds ==
    /\ run.pc = "posting" /\ ~opts.pr
    /\ Goto(mem, IF row = "RUNNING" THEN "returned" ELSE "over")
    /\ \/ ckpt' = Published(mem, NoCall) /\ \E c \in BOOLEAN : work' = [work EXCEPT !.changed = @ \/ c]
       \/ UNCHANGED <<ckpt, work>>
    /\ UNCHANGED <<opts, child, aborted, row>>

NextStage == [s \in {"docs-audit", "commit", "push"} |->
                CASE s = "docs-audit" -> "commit" [] s = "commit" -> "push" [] OTHER -> "pull-request"]

DeliveryAdvances ==
    /\ At("posting") /\ opts.pr /\ ckpt.call.step \in DOMAIN NextStage
    /\ ckpt' = Published(mem, Intent("delivery", NextStage[ckpt.call.step]))
    /\ work' = [work EXCEPT !.changed = TRUE]
    /\ UNCHANGED <<opts, mem, run, child, aborted, row>>

\* DELIVERED after the last stage, NO_CHANGES at the commit, DELIVERY_PENDING at any.
DeliveryEnds ==
    /\ At("posting") /\ opts.pr
    /\ \E result \in {"DELIVERED", "NO_CHANGES", "DELIVERY_PENDING"} :
         /\ result = "DELIVERED" => ckpt.call.step = "pull-request"
         /\ result = "NO_CHANGES" => ckpt.call.step = "commit"
         /\ run' = [run EXCEPT !.pc = "returned", !.delivery = result]
         /\ ckpt' = IF ckpt.call.step = "docs-audit" THEN ckpt ELSE Published(mem, NoCall)
    /\ UNCHANGED <<opts, mem, child, work, aborted, row>>

\* finalize of spec-session.ts: the row gets its final state.
Outcome(verdict, delivery) ==
    CASE verdict = "NEEDS-CLARIFICATION" -> "WAITING_USER"
      [] verdict = "CANCELLED" -> "CANCELLED"
      [] verdict \in {"BLOCKED", "FAILED", "NEEDS-WORK"} -> "FAILED"
      [] verdict \in {"SHIP", "none"} /\ delivery = "DELIVERY_PENDING" -> "DELIVERY_PENDING"
      [] OTHER -> "SUCCEEDED"

WriteResult ==
    /\ At("returned") \/ (At("posting") /\ ~opts.checkpointed)
    /\ row' = Outcome(run.verdict, run.delivery)
    /\ run' = [run EXCEPT !.pc = IF @ = "returned" THEN "over" ELSE @]
    /\ UNCHANGED <<opts, mem, ckpt, child, work, aborted>>

-----------------------------------------------------------------------------

LoopHead == CancelAtHead \/ SkipStep \/ EnterStep \/ LeaveLoop
Baseline == CaptureFails \/ CaptureBaseline \/ BaselineEnds
Call == SkipCicd \/ ReviewHeld \/ SnapshotFails \/ StartStep \/ CallStarts \/ CallEnds
Answer == AnswerHeld \/ AnswerStopped \/ AnswerStrays \/ ClarifierReady \/ ClarifierAsks \/ AnswerInvalid
          \/ PlannerPlans \/ WriterDone \/ AnswerBlocked
Gate == TestAnswered \/ ReproEnds \/ GateSkipped \/ GateHeld \/ GateStarts \/ VerifyEnds \/ RuntimeEnds
Review == ReviewShips \/ ReviewRefuses \/ TeamStarts \/ TeamEnds \/ TeamShips \/ TeamReviewRefuses \/ TeamFails
End == Finalize \/ PostSuccessStarts \/ PostSuccessEnds \/ DeliveryAdvances \/ DeliveryEnds \/ WriteResult

Progress == LoopHead \/ Baseline \/ Call \/ Answer \/ Gate \/ Review \/ End

Next == Abort \/ Progress

Spec == Init /\ [][Next]_vars

\* The places where a run waits for what is not its own: an agent, a command, a team, the audit,
\* or git, which is asked what the workspace holds.  Most of these calls have no time limit.
WaitPlaces == {"step", "baselining", "working", "answered", "reproducing", "verify", "verifying", "runtime",
               "probing", "team", "reviews", "auditing", "posting"}
Waiting == run.pc \in WaitPlaces /\ (run.pc = "posting" => opts.checkpointed)

\* The process takes the steps that wait for nobody; no agent, command or git need ever end.
FairSpec == Spec /\ WF_vars(Progress /\ ~Waiting)

-----------------------------------------------------------------------------
(* Properties. *)

Verdicts == {"none", "SHIP", "NEEDS-WORK", "BLOCKED", "FAILED", "CANCELLED", "NEEDS-CLARIFICATION"}
Places == {"head", "step", "baselining", "calling", "working", "answered", "reproducing", "verify",
           "verifying", "runtime", "probing", "team", "reviews", "finish", "auditing", "posting",
           "returned", "over", "down"}
InLoop == Places \ {"head", "finish", "auditing", "posting", "returned", "over", "down"}
Sources == Steps \cup {"none", "role-boundary", "repro", "verify"}
AllOutputs == {"none", "ready", "ask", "invalid", "pass", "blocked", "ship", "done"} \cup RouteTargets \cup Plans
Answers == [step: Steps \cup {"none"}, status: {"none", "RUNNING", "DONE", "FAILED", "BLOCKED", "CANCELLED", "LOST"},
            out: AllOutputs, stray: BOOLEAN, current: BOOLEAN]
ResultSets == SUBSET (Steps \cup {"verify-baseline", "verify", "repro", "team"})
EvidenceSets == SUBSET ({"verify", "runtime"} \X Nat)
Memories == [cursor: 1..7, executed: Nat, routes: Nat, feedback: Sources, instructed: BOOLEAN,
             results: ResultSets, plan: Plans \cup {"none"}, evidence: EvidenceSets,
             violations: Nat, rounds: Nat, baseline: BOOLEAN]
Controls == [pc: Places, verdict: Verdicts, failure: BOOLEAN, team: {"no", "ok", "failed"},
             resumes: Steps \cup {"none"}, recovered: Answers, before: {"own", "late"}, answer: Answers,
             delivery: {"none", "DELIVERED", "NO_CHANGES", "DELIVERY_PENDING"}]
Workspaces == [changed: BOOLEAN, tampered: BOOLEAN, passed: SUBSET {"verify", "runtime", "repro"}, approved: BOOLEAN]
Rows == {"RUNNING", "WAITING_USER", "CANCELLED", "FAILED", "DELIVERY_PENDING", "SUCCEEDED", "RECOVERY_REQUIRED"}

\* The variables have their types, and the cursor stays inside the loop wherever it is read.
TypeOK ==
    /\ opts \in Options
    /\ mem \in Memories
    /\ run \in Controls
    /\ ckpt.mem \in Memories
    /\ child \in Answers
    /\ work \in Workspaces
    /\ aborted \in BOOLEAN
    /\ row \in Rows
    /\ run.pc \in InLoop => mem.cursor <= 6

\* Every agent call is paid for: by the cursor's place, a rework route or a clarification round.
BudgetHolds ==
    mem.executed <= 6 * mem.routes + mem.rounds + mem.cursor
                    - (IF run.pc \in {"head", "step", "baselining"} THEN 1 ELSE 0)

\* What holds of the loop's variables at any time; BudgetHolds bounds the run for every budget.
LoopInvariant == TypeOK /\ BudgetHolds

\* The safety cap of the loop never ends a run: whatever it does, a run that contains the review
\* step ends with a verdict, where the cap would leave it none and the row would read DONE.
EndsWithVerdict ==
    run.pc \in {"returned", "over"} /\ "review" \in opts.steps /\ opts.start <= Index.review
        => run.verdict # "none"

\* The gates a run of these options goes through, and whether it needs a review.
GatesDue == IF "test" \in opts.steps /\ opts.start <= Index.test THEN opts.gates \ {"baseline"} ELSE {}
ReviewDue == "review" \in opts.steps /\ opts.start <= Index.review

\* Documents are audited, and work committed or delivered, only when every declared gate passed on
\* the code as the last scaffold, test or team work left it, and the review step approved that code.
\* Of a team's work only the gates are promised: its plan need not have a review (spec.ts:1191).
DeliveryGated ==
    run.pc \in {"auditing", "posting"} =>
        GatesDue \subseteq work.passed /\ (ReviewDue /\ run.team = "no" => work.approved)

\* "A successful review and configured verification are followed by an orchestrator-owned commit, ordinary
\* push, and idempotent PR create/reuse" (README.md:151): what a run in pull-request mode delivers was
\* approved by a review.  The code refutes it for teams (README, section 6).
DeliveryReviewed == opts.pr /\ ReviewDue /\ run.pc = "posting" => work.approved

\* The workflow keeps the promise of GatedDelivery: edits take marks away, gates and reviews give
\* them in this order, and only marked code is delivered.
Delivery == INSTANCE GatedDelivery WITH
    due <- (IF GatesDue = {} THEN {} ELSE {"checked"}) \cup (IF ReviewDue THEN {"approved"} ELSE {}),
    shown <- (IF GatesDue # {} /\ GatesDue \subseteq work.passed THEN {"checked"} ELSE {})
             \cup (IF work.approved THEN {"approved"} ELSE {}),
    byTeam <- (run.team # "no"),
    left <- opts.maxRoutes - mem.routes,
    phase <- CASE run.pc \in {"auditing", "posting"} -> "delivering"
               [] run.pc \in {"returned", "over"} -> "closed"
               [] OTHER -> "working"

ImplementsGatedDelivery == Delivery!Spec

\* "The team path, too, must pass the same gates after integration" (docs/ARCHITECTURE.md:573): a run
\* that says SHIP had its gates passed, committed or not.  The code refutes it (README, section 6).
ShipVerified == run.pc = "over" /\ run.verdict = "SHIP" => GatesDue \subseteq work.passed

\* While an agent works, the results hold nothing of the steps a rework has discarded.
ResultsFresh ==
    run.pc = "working" =>
        /\ \A s \in mem.results \cap Steps : Index[s] <= mem.cursor
        /\ "verify" \in mem.results => mem.cursor > Index.test

\* The reviewer reads the evidence of this attempt's gates, all of it and nothing older.
EvidenceFresh ==
    run.pc = "working" /\ Step = "review" /\ "verify" \in GatesDue =>
        mem.evidence = {<<g, mem.routes>> : g \in GatesDue \cap {"verify", "runtime"}}

\* No agent reads what a rework has discarded: neither results nor evidence.
NothingStale == ResultsFresh /\ EvidenceFresh

\* The steps that compare the guarded files when they end, or before they begin; where a reproduction
\* command runs after them and no gate does, only the review compares what it left.
Comparing ==
    IF "repro" \in opts.gates /\ opts.gates \cap {"verify", "runtime"} = {} THEN {"review"}
    ELSE {"scaffold", "test", "review"}

\* Whether such a step is behind cursor c.
Compared(c) == \E s \in Comparing : s \in opts.steps /\ opts.start <= Index[s] /\ Index[s] < c

\* Guarded files that a run changed are gone when it is committed or delivered.  A run of planning steps
\* alone compares nothing: what its baseline command left is committed after the rework it asked for.  Nor
\* does a run without gates and review compare what its reproduction command left.
DeliveredIntact == run.pc \in {"auditing", "posting"} /\ (Compared(7) \/ run.team # "no") => ~work.tampered

\* A test call that wrote outside the test paths is never followed by a gate or a later step.
BoundaryKept == child.step = "test" /\ child.stray => mem.cursor <= Index.test /\ run.pc \notin {"verify", "runtime"}

\* "Resume a spec run from the last executed workflow step" (README.md:357): the missing baseline of
\* an untouched run does not refuse it.  The code refutes it (README, section 6).
ResumedStepRuns == At("step") /\ ~work.changed => ~(BaselineMissing /\ BaselineRefused)

\* A cancelled run makes no further agent call succeed and starts no delivery.
CancelHolds ==
    [][aborted => /\ run'.pc \in {"auditing", "posting"} => run.pc \in {"auditing", "posting"}
                  /\ child'.status = "DONE" => child.status = "DONE"]_vars

\* Every run ends, its row in a final state, or waits for ever at one place for what is not its own: the
\* loop itself never goes on without end (fairness: the process takes its own steps).
RunEnds == <>(row # "RUNNING") \/ \E place \in WaitPlaces : <>[](Waiting /\ run.pc = place)

=============================================================================
