---------------------------- MODULE SpecSessions ----------------------------
(***************************************************************************)
(* The runs of one session (workflows/spec-session.ts): a spec is started, *)
(* its run waits for answers, ends or is interrupted, and the user answers *)
(* it, continues it, resumes its last step or retries its delivery; each   *)
(* request but the last starts a run that is given the history of the run  *)
(* it refers to and, in pull-request mode, its worktree.  The requests are *)
(* handlers of the server (server/routes.ts): any of them may come at any  *)
(* time, for a run that is still at work too, and twice.                   *)
(*                                                                         *)
(* What a run does inside is SpecPipeline, and one delivery PrDelivery;    *)
(* here they are their effects on the history and the shared worktree.     *)
(***************************************************************************)
EXTENDS Naturals, Sequences, FiniteSets

CONSTANTS
    MaxRuns,   \* bound: runs in the session
    MaxShared, \* bound: its runs with pull requests
    MaxRounds, \* bound: rounds of its history
    Modes      \* which of the project's settings: TRUE for pull-request delivery

ASSUME SessionAssumption ==
    {MaxRuns, MaxShared, MaxRounds} \subseteq Nat \ {0} /\ MaxShared <= MaxRuns /\ Modes \subseteq BOOLEAN

VARIABLES
    prMode,  \* the project delivers by pull request
    run,     \* the runs, numbered in the order they were launched
    tree,    \* the worktrees, each with the number of the run it was made for
    crashed  \* the process has died once (bound)

vars == <<prMode, run, tree, crashed>>

Runs == 1..MaxRuns
NoRun == 0
Launched == {r \in Runs : run[r].status # "none"}
NextRun == Cardinality(Launched) + 1
Room == NextRun \in (IF prMode THEN 1..MaxShared ELSE Runs)

-----------------------------------------------------------------------------
(* The history: rounds of questions, answers and instructions.  Answers    *)
(* and instructions are named by the run their request started.            *)

Round(asked, answer, followup) == [asked |-> asked, answer |-> answer, followup |-> followup]
IsAnswered(round) == round.answer # NoRun
LastRound(rounds) == rounds[Len(rounds)]
Pending(rounds) == rounds # <<>> /\ ~IsAnswered(LastRound(rounds))

\* What composeClarifierInput puts in a run's input: answers to questions, instructions.
Given(rounds) ==
    ({rounds[i].answer : i \in {j \in DOMAIN rounds : rounds[j].asked}}
        \cup {rounds[i].followup : i \in DOMAIN rounds}) \ {NoRun}

\* What no later request replaces: an instruction on the last round may be.
Settled(rounds) ==
    IF rounds = <<>> THEN {}
    ELSE Given([rounds EXCEPT ![Len(rounds)].followup = NoRun])

\* The answers of request n go to the last round when it has none, else to a new one with
\* the questions of the form.
WithAnswers(rounds, n, answers, form) ==
    LET given == IF answers THEN n ELSE NoRun
    IN  IF Pending(rounds) THEN [rounds EXCEPT ![Len(rounds)].answer = given]
        ELSE IF form THEN Append(rounds, Round(TRUE, given, NoRun))
        ELSE rounds

WithInstruction(rounds, n) ==
    IF rounds = <<>> THEN <<Round(FALSE, NoRun, n)>>
    ELSE [rounds EXCEPT ![Len(rounds)].followup = n]

\* Fault: a form for a round that is already answered is taken for an answer to it.
AnsweredToPending(rounds, n, answers, instruction, form) ==
    LET answered == WithAnswers(rounds, n, answers, FALSE)
    IN  IF instruction THEN WithInstruction(answered, n) ELSE answered

Answered(rounds, n, answers, instruction, form) ==
    LET answered == WithAnswers(rounds, n, answers, form)
    IN  IF instruction THEN WithInstruction(answered, n) ELSE answered

-----------------------------------------------------------------------------
(* Deliveries *)

\* The state in a delivery context, with whether the commit is recorded in it.
Delivery(status, stage, sha) == [status |-> status, stage |-> stage, sha |-> sha]
NoDelivery == Delivery("none", "none", FALSE)
Fresh == Delivery("READY", "none", FALSE)

NoTree == [work |-> {}, commit |-> {}, by |-> NoRun, pr |-> FALSE]

Absent == [status |-> "none", cp |-> "none", parent |-> NoRun, tree |-> NoRun, rounds |-> <<>>,
           saved |-> <<>>, known |-> NoDelivery, mem |-> NoDelivery, phase |-> "none",
           alive |-> FALSE, saves |-> FALSE, verified |-> FALSE, sure |-> FALSE, asked |-> FALSE]

AtWork(r) == run[r].cp = "RUNNING" /\ run[r].alive

-----------------------------------------------------------------------------
(* Launching *)

\* A new run of the session.  `parent` gives it its worktree and what is known of that
\* worktree's delivery, unless the request asks for a new pull request.
NewRun(n, p, rounds, shared, sure) ==
    LET context == IF shared THEN run[p].known ELSE IF prMode THEN Fresh ELSE NoDelivery
    IN  [Absent EXCEPT !.status = "RUNNING", !.cp = "RUNNING", !.parent = p,
            !.tree = IF shared THEN run[p].tree ELSE IF prMode THEN n ELSE NoRun,
            !.rounds = rounds, !.saved = rounds, !.known = context, !.mem = context,
            !.phase = "steps", !.alive = TRUE, !.saves = TRUE, !.sure = sure]

Start ==
    /\ Launched = {}
    /\ run' = [run EXCEPT ![1] = NewRun(1, NoRun, <<>>, FALSE, FALSE)]
    /\ UNCHANGED <<prMode, tree, crashed>>

InWorktree(p) == run[p].tree # NoRun

\* POST answers: the row of the run that was answered is saved before the new run is
\* launched, which the checks of its worktree may refuse.
Answer(p) ==
    /\ p \in Launched /\ Room
    /\ \E answers, instruction, form \in BOOLEAN :
        LET rounds == Answered(run[p].saved, NextRun, answers, instruction, form)
            saved == [run EXCEPT ![p].saved = rounds]
        IN  /\ answers \/ instruction
            /\ Len(rounds) <= MaxRounds
            /\ form => run[p].asked
            /\ \/ run' = [saved EXCEPT ![NextRun] =
                            NewRun(NextRun, p, rounds, InWorktree(p), form \/ instruction)]
               \/ run' = saved
    /\ UNCHANGED <<prMode, tree, crashed>>

\* POST continue: refused while the row says its delivery is pending; a new pull request
\* when it says that the last one is made.
Continue(p) ==
    /\ p \in Launched /\ Room
    /\ run[p].known.status # "DELIVERY_PENDING"
    /\ \E text \in BOOLEAN :
        LET rounds == IF text THEN Append(run[p].saved, Round(FALSE, NoRun, NextRun))
                              ELSE run[p].saved
            shared == InWorktree(p) /\ run[p].known.status \notin {"DELIVERED", "NO_CHANGES"}
        IN  /\ Len(rounds) <= MaxRounds
            /\ run' = [run EXCEPT ![NextRun] = NewRun(NextRun, p, rounds, shared, text)]
    /\ UNCHANGED <<prMode, tree, crashed>>

\* POST resume-last: refused while the row is RUNNING.  The instruction is feedback for
\* the first step only, and no part of the history.
ResumeLast(p) ==
    /\ p \in Launched /\ Room
    /\ run[p].status # "RUNNING"
    /\ run' = [run EXCEPT ![NextRun] = NewRun(NextRun, p, run[p].saved, InWorktree(p), FALSE)]
    /\ UNCHANGED <<prMode, tree, crashed>>

-----------------------------------------------------------------------------
(* A run at work *)

Write(r) ==
    /\ AtWork(r) /\ run[r].phase \in {"steps", "audit"} /\ InWorktree(r)
    /\ r \notin tree[run[r].tree].work
    /\ tree' = [tree EXCEPT ![run[r].tree].work = @ \cup {r}]
    /\ UNCHANGED <<prMode, run, crashed>>

\* The end of run r: finalize saves its history, as it was given it, and what it knows of
\* its delivery in the row; a delivery that was retried or recovered ends without it.
Over(r, status, cp, delivery) ==
    run' = [run EXCEPT ![r].status = status, ![r].cp = cp, ![r].phase = "over",
                       ![r].alive = FALSE, ![r].mem = delivery,
                       ![r].saved = IF run[r].saves THEN run[r].rounds ELSE @,
                       ![r].known = IF run[r].saves THEN delivery ELSE @]

Asks(r) ==
    /\ AtWork(r) /\ run[r].phase = "steps" /\ Len(run[r].rounds) < MaxRounds
    /\ run' = [run EXCEPT ![r].status = "DONE", ![r].cp = "WAITING_USER", ![r].phase = "over",
                          ![r].alive = FALSE, ![r].known = run[r].mem, ![r].asked = TRUE,
                          ![r].saved = Append(run[r].rounds, Round(TRUE, NoRun, NoRun))]
    /\ UNCHANGED <<prMode, tree, crashed>>

\* The run fails, is cancelled or throws.  The delivery state it inherited is its result's,
\* so a failed run of a worktree whose delivery was pending is pending too.
Stops(r) ==
    /\ AtWork(r) /\ run[r].phase = "steps"
    /\ \/ Over(r, "FAILED", "CANCELLED", run[r].mem)
       \/ Over(r, "FAILED", IF run[r].mem.status = "DELIVERY_PENDING" THEN "DELIVERY_PENDING" ELSE "FAILED",
               run[r].mem)
       \/ run' = [run EXCEPT ![r].status = "FAILED", ![r].cp = "FAILED", ![r].phase = "over",
                             ![r].alive = FALSE]
    /\ UNCHANGED <<prMode, tree, crashed>>

Ships(r) ==
    /\ AtWork(r) /\ run[r].phase = "steps"
    /\ IF InWorktree(r)
       THEN run' = [run EXCEPT ![r].phase = "audit", ![r].verified = TRUE]
       ELSE Over(r, "DONE", "SUCCEEDED", NoDelivery)
    /\ UNCHANGED <<prMode, tree, crashed>>

-----------------------------------------------------------------------------
(* Its delivery *)

IsPending(r, stage, sha) ==
    Over(r, "DONE", "DELIVERY_PENDING", Delivery("DELIVERY_PENDING", stage, sha))

Audited(r) ==
    /\ AtWork(r) /\ run[r].phase = "audit"
    /\ \/ run' = [run EXCEPT ![r].phase = "commit"]
       \/ IsPending(r, "audit", FALSE)
    /\ UNCHANGED <<prMode, tree, crashed>>

\* Fault: a commit that was found is amended by what is in the worktree.
CommitAmends(r) ==
    LET t == run[r].tree
    IN  /\ AtWork(r) /\ run[r].phase = "commit"
        /\ run' = [run EXCEPT ![r].phase = "push", ![r].mem = Delivery("READY", "commit", TRUE)]
        /\ tree' = [tree EXCEPT ![t].commit = @ \cup tree[t].work, ![t].work = {}, ![t].by = r]
        /\ UNCHANGED <<prMode, crashed>>

\* The commit: the one that is recorded, or the one found on the branch, with the mark of
\* the worktree's run, or a new one of all that is in the worktree.
Commit(r) ==
    LET t == run[r].tree
        dirty == tree[t].work # {}
        made == tree[t].commit # {}
        committed == [tree EXCEPT ![t].commit = tree[t].work, ![t].work = {}, ![t].by = r]
        recorded == run' = [run EXCEPT ![r].phase = "push", ![r].mem = Delivery("READY", "commit", TRUE)]
    IN  /\ AtWork(r) /\ run[r].phase = "commit"
        /\ \/ /\ ~(run[r].mem.sha /\ dirty)
              /\ IF made \/ dirty
                 THEN recorded
                 ELSE Over(r, "DONE", "SUCCEEDED", Delivery("NO_CHANGES", "commit", FALSE))
              /\ tree' = IF ~made /\ dirty THEN committed ELSE tree
           \/ \* a command failed, possibly after the commit, or the worktree changed after
              \* the commit that was recorded
              /\ IsPending(r, "commit", run[r].mem.sha)
              /\ tree' \in (IF ~made /\ dirty THEN {tree, committed} ELSE {tree})
    /\ UNCHANGED <<prMode, crashed>>

\* The push and the pull request, which meet those of an earlier attempt.
Deliver(r) ==
    /\ AtWork(r) /\ run[r].phase = "push"
    /\ \/ /\ Over(r, "DONE", "SUCCEEDED", Delivery("DELIVERED", "commit", TRUE))
          /\ tree' = [tree EXCEPT ![run[r].tree].pr = TRUE]
       \/ /\ IsPending(r, "commit", TRUE)
          /\ tree' = tree
    /\ UNCHANGED <<prMode, crashed>>

\* POST delivery/retry.  The row keeps its status and what it knows.
Retry(r) ==
    /\ r \in Launched /\ run[r].cp = "DELIVERY_PENDING"
    /\ run' = [run EXCEPT ![r].cp = "RUNNING", ![r].alive = TRUE, ![r].saves = FALSE,
                          ![r].phase = IF run[r].mem.stage = "commit" THEN "commit" ELSE "audit"]
    /\ UNCHANGED <<prMode, tree, crashed>>

-----------------------------------------------------------------------------
(* The process dies, and its successor takes up what it can *)

Crash ==
    /\ ~crashed
    /\ crashed' = TRUE
    /\ run' = [r \in Runs |-> [run[r] EXCEPT !.alive = FALSE]]
    /\ UNCHANGED <<prMode, tree>>

\* Fault: a delivery that was interrupted is not taken up.
RecoverSteps(r) ==
    /\ run[r].cp = "RUNNING" /\ ~run[r].alive /\ run[r].phase \in {"steps", "audit"}
    /\ run' = [run EXCEPT ![r].status = "FAILED", ![r].phase = "over", ![r].cp = "RECOVERY_REQUIRED"]
    /\ UNCHANGED <<prMode, tree, crashed>>

\* A run with a checkpoint goes on where nothing is half done, its delivery is finished
\* apart from finalize, or it is left to a person; a run without one is marked FAILED.
Recover(r) ==
    /\ run[r].cp = "RUNNING" /\ ~run[r].alive
    /\ \/ /\ InWorktree(r) /\ run[r].phase = "steps"
          /\ run' = [run EXCEPT ![r].alive = TRUE]
       \/ /\ run[r].phase \in {"commit", "push"}
          /\ run' = [run EXCEPT ![r].alive = TRUE, ![r].saves = FALSE, ![r].phase = "commit"]
       \/ /\ run[r].phase \in {"steps", "audit"}
          /\ run' = [run EXCEPT ![r].status = "FAILED", ![r].phase = "over",
                       ![r].cp = IF InWorktree(r) THEN "RECOVERY_REQUIRED" ELSE "FAILED"]
    /\ UNCHANGED <<prMode, tree, crashed>>

-----------------------------------------------------------------------------
Init ==
    /\ prMode \in Modes
    /\ run = [r \in Runs |-> Absent]
    /\ tree = [r \in Runs |-> NoTree]
    /\ crashed = FALSE

Goes(r) == Asks(r) \/ Stops(r) \/ Ships(r) \/ Audited(r) \/ Commit(r) \/ Deliver(r) \/ Recover(r)

Next ==
    \/ Start \/ Crash
    \/ \E r \in Runs : Goes(r) \/ Write(r) \/ Answer(r) \/ Continue(r) \/ ResumeLast(r) \/ Retry(r)

Spec == Init /\ [][Next]_vars

\* An assumption, since nothing limits an agent's or git's time: runs go on, and a server comes back.
FairSpec == Spec /\ \A r \in Runs : WF_vars(Goes(r))
-----------------------------------------------------------------------------
(* Where a resumed run starts *)

StepOrder == <<"clarifier", "planner", "scaffold", "test", "review", "cicd">>
Steps == {StepOrder[i] : i \in DOMAIN StepOrder}
Place(step) == CHOOSE i \in DOMAIN StepOrder : StepOrder[i] = step

\* The last step a run made, with the markers in its output.
LastSteps == [step : Steps, done : BOOLEAN, verdict : {"ship", "needs-work", "none"},
              tests : {"pass", "fail", "none"}, route : Steps \cup {"none"}]

Rework(last) ==
    last.verdict = "needs-work" \/ last.tests = "fail" \/ (last.step = "review" /\ last.verdict = "none")

Nowhere == [start |-> "none", feedback |-> FALSE]
Later(last, enabled) == {s \in enabled : Place(s) > Place(last.step)}

ResumeTarget(last, enabled) ==
    LET owner == IF last.route = "none" THEN "planner" ELSE last.route
        later == Later(last, enabled)
    IN  IF ~last.done THEN [start |-> last.step, feedback |-> FALSE]
        ELSE IF Rework(last)
        THEN IF owner \in enabled THEN [start |-> owner, feedback |-> TRUE] ELSE Nowhere
        ELSE IF later = {} THEN Nowhere
        ELSE [start |-> CHOOSE s \in later : \A o \in later : Place(s) <= Place(o), feedback |-> FALSE]

-----------------------------------------------------------------------------
(* Properties *)

Rounds == [asked : BOOLEAN, answer : 0..MaxRuns, followup : 0..MaxRuns]
Deliveries == [status : {"none", "READY", "DELIVERY_PENDING", "DELIVERED", "NO_CHANGES"},
               stage : {"none", "audit", "commit"}, sha : BOOLEAN]

TypeOK ==
    /\ prMode \in Modes /\ crashed \in BOOLEAN
    /\ run \in [Runs -> [status : {"none", "RUNNING", "DONE", "FAILED"},
                         cp : {"none", "RUNNING", "WAITING_USER", "DELIVERY_PENDING", "SUCCEEDED",
                               "FAILED", "CANCELLED", "RECOVERY_REQUIRED"},
                         parent : 0..MaxRuns, tree : 0..MaxRuns, rounds : Seq(Rounds),
                         saved : Seq(Rounds), known : Deliveries, mem : Deliveries,
                         phase : {"none", "steps", "audit", "commit", "push", "over"},
                         alive : BOOLEAN, saves : BOOLEAN, verified : BOOLEAN, sure : BOOLEAN,
                         asked : BOOLEAN]]
    /\ tree \in [Runs -> [work : SUBSET Runs, commit : SUBSET Runs, by : 0..MaxRuns, pr : BOOLEAN]]

\* A run is given all that its predecessor was given but the last instruction, which an
\* answer may replace, and the answers sent with their questions or the instruction that
\* asked for it.
HistoryKept ==
    \A r \in Launched :
        /\ run[r].parent # NoRun => Settled(run[run[r].parent].rounds) \subseteq Given(run[r].rounds)
        /\ run[r].sure => r \in Given(run[r].rounds)

\* A delivery said to be made is a pull request of the run's worktree, whoever made it.
DeliveredHasPr ==
    \A r \in Launched :
        "DELIVERED" \in {run[r].known.status, run[r].mem.status} => tree[run[r].tree].pr

\* The run that made the commit left nothing of its own behind.
CommitterDelivers == \A t \in Runs : tree[t].by \notin tree[t].work

\* The run a worktree was made for is pending only when its workflow shipped: its gates passed
\* and, unless a team made the code (spec.ts:1191), its review said SHIP.
OwnPendingVerified ==
    \A r \in Launched : run[r].cp = "DELIVERY_PENDING" /\ run[r].tree = r => run[r].verified

\* A resumed run starts at an enabled step, leaves out none that comes next, does none
\* again that ended well, and is told what is to be reworked.
ResumesOwed ==
    \A last \in LastSteps, enabled \in SUBSET Steps :
        LET target == ResumeTarget(last, enabled)
        IN  last.step \in enabled =>
            /\ target # Nowhere => target.start \in enabled
            /\ ~last.done => target.start = last.step
            /\ last.done /\ target # Nowhere => target.feedback = Rework(last)
            /\ last.done /\ ~Rework(last) =>
                \A s \in Later(last, enabled) :
                    target # Nowhere /\ Place(last.step) < Place(target.start) /\ Place(target.start) <= Place(s)

\* What holds of a session at any time.
SessionInvariant ==
    /\ TypeOK /\ HistoryKept /\ DeliveredHasPr /\ CommitterDelivers /\ OwnPendingVerified
    /\ Launched = {} => ResumesOwed

\* The one commit of a worktree is never changed, whichever runs share it.
CommitStays ==
    [][\A t \in Runs : tree[t].commit # {} => tree'[t].commit = tree[t].commit]_vars

\* Every run comes to an end or waits for somebody (fairness: runs go on, and after a
\* crash a server takes up or gives up what was interrupted).
RunsSettle == \A r \in Runs : run[r].cp = "RUNNING" ~> run[r].cp # "RUNNING"

\* "A failed external delivery leaves the verified worktree in DELIVERY_PENDING"
\* (README.md:153): a run whose delivery is pending passed its gates.  The code refutes it
\* for a worktree that runs share (README, section 6).
PendingVerified == \A r \in Launched : run[r].cp = "DELIVERY_PENDING" => run[r].verified
=============================================================================
