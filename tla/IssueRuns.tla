------------------------------ MODULE IssueRuns ------------------------------
(***************************************************************************)
(* Issues turned into runs (workflows/from-issue.ts): the server and the   *)
(* command line read an issue of the tracker, reproduce it first when it   *)
(* is a bug, mark it IN_PROGRESS, run the workflow (SpecPipeline) and put  *)
(* its status back or close it.  Nothing joins the two systems but single  *)
(* requests: each may fail with or without its effect, the process may die *)
(* between them, people edit the issue meanwhile, and two triggers may be  *)
(* at work on one issue.                                                   *)
(***************************************************************************)
EXTENDS Naturals

CONSTANTS
    MaxRuns, \* bound: times somebody asks for the issue to be worked on
    MaxEdits \* bound: edits of its status by people

ASSUME IssueAssumption == MaxRuns \in Nat \ {0} /\ MaxEdits \in Nat

VARIABLES
    bug,    \* the type of the issue is BUG
    prMode, \* the project delivers by pull request
    issue,  \* the tracker's record: its status, who set it, the run it is linked to
    run,    \* the runs: what each knows, and its row in the database when it has one
    edits   \* edits made (bound)

vars == <<bug, prMode, issue, run, edits>>

Runs == 1..MaxRuns
People == 0
NoRun == 0

Statuses == {"OPEN", "IN_PROGRESS", "DONE", "DROPPED"}
Verdicts == {"SHIP", "NEEDS-WORK", "FAILED", "BLOCKED", "CANCELLED", "NEEDS-CLARIFICATION", "none"}

\* `broken`: a request of the run failed, or its process died.
Absent == [pc |-> "idle", seen |-> "OPEN", row |-> "none", repro |-> FALSE, verdict |-> "none", broken |-> FALSE]

-----------------------------------------------------------------------------
(* The row of a bug's run; other issues have none. *)

Row(r, status) == IF bug THEN status ELSE run[r].row

WorkflowRunStatus(verdict) ==
    IF verdict \in {"BLOCKED", "FAILED", "NEEDS-WORK", "CANCELLED"} THEN "FAILED" ELSE "DONE"

Ended(r, row, broken) ==
    run' = [run EXCEPT ![r].pc = "ended", ![r].row = row, ![r].broken = @ \/ broken]

-----------------------------------------------------------------------------
(* Reproducing a bug *)

\* What the author of the test leaves: whether the workspace could be compared, whether
\* anything but tests changed, how the agent ended and the command it named.
Authored == [compared : BOOLEAN, strays : BOOLEAN, done : BOOLEAN, command : BOOLEAN]
Trials == {"cancelled", "timeout", "passed", "unconfirmed", "fails"}

Reproducible(a) == ~(a.compared /\ a.strays) /\ a.done /\ a.command

\* Fault: a command that was killed has failed too.
ConfirmedByAnyFailure(trial) == trial # "passed"

Confirmed(trial) == trial = "fails"

-----------------------------------------------------------------------------
(* Requests to the tracker *)

\* PATCH: it is made and answered, or fails, made or not.
Patched(status, r, linked) ==
    issue' = [status |-> status, by |-> r, linked |-> IF linked THEN r ELSE issue.linked]

\* The issue is read and its run accepted or refused; a bug's run has its row at once.
Read(r) ==
    /\ run[r].pc = "idle"
    /\ \/ /\ issue.status = "OPEN" /\ ~prMode
          /\ run' = [run EXCEPT ![r].pc = IF bug THEN "author" ELSE "claim",
                                ![r].seen = issue.status, ![r].row = Row(r, "RUNNING")]
       \/ /\ run' = [run EXCEPT ![r].pc = "refused"]
    /\ UNCHANGED <<bug, prMode, issue, edits>>

\* The test agent wrote a test and named a command, or the run is over: BLOCKED, or FAILED
\* by an exception.
Author(r) ==
    /\ run[r].pc = "author"
    /\ \/ \E a \in Authored :
            IF Reproducible(a) THEN run' = [run EXCEPT ![r].pc = "trial"] ELSE Ended(r, "BLOCKED", FALSE)
       \/ Ended(r, "FAILED", FALSE)
    /\ UNCHANGED <<bug, prMode, issue, edits>>

Try(r) ==
    /\ run[r].pc = "trial"
    /\ \/ \E trial \in Trials :
            IF Confirmed(trial)
            THEN run' = [run EXCEPT ![r].pc = "claim", ![r].repro = (trial = "fails")]
            ELSE Ended(r, "BLOCKED", FALSE)
       \/ Ended(r, "FAILED", FALSE)
    /\ UNCHANGED <<bug, prMode, issue, edits>>

Claim(r) ==
    /\ run[r].pc = "claim"
    /\ \/ /\ Patched("IN_PROGRESS", r, TRUE)
          /\ run' = [run EXCEPT ![r].pc = "work"]
       \/ /\ Patched("IN_PROGRESS", r, TRUE) \/ UNCHANGED issue
          /\ run' = [run EXCEPT ![r].pc = "reopen"]
    /\ UNCHANGED <<bug, prMode, edits>>

\* The workflow ends with a verdict or throws.
Work(r) ==
    /\ run[r].pc = "work"
    /\ \/ \E verdict \in Verdicts : run' = [run EXCEPT ![r].pc = "settle", ![r].verdict = verdict]
       \/ run' = [run EXCEPT ![r].pc = "reopen"]
    /\ UNCHANGED <<bug, prMode, issue, edits>>

\* Fault: after an exception the row is closed and the issue forgotten.
ReopenRow(r) ==
    /\ run[r].pc = "reopen"
    /\ Ended(r, Row(r, "FAILED"), FALSE)
    /\ UNCHANGED <<bug, prMode, issue, edits>>

\* After an exception the issue is OPEN again; if this fails too, the row is never closed.
Reopen(r) ==
    /\ run[r].pc = "reopen"
    /\ \/ /\ Patched("OPEN", r, FALSE)
          /\ Ended(r, Row(r, "FAILED"), FALSE)
       \/ /\ Patched("OPEN", r, FALSE) \/ UNCHANGED issue
          /\ Ended(r, run[r].row, TRUE)
    /\ UNCHANGED <<bug, prMode, edits>>

\* The status the issue gets is DONE, or the one that was read when the run began.
Settle(r) ==
    LET final == IF run[r].verdict = "SHIP" THEN "DONE" ELSE run[r].seen
    IN  /\ run[r].pc = "settle"
        /\ \/ /\ Patched(final, r, TRUE)
              /\ Ended(r, Row(r, WorkflowRunStatus(run[r].verdict)), FALSE)
           \/ /\ Patched(final, r, TRUE) \/ UNCHANGED issue
              /\ Ended(r, run[r].row, TRUE)
        /\ UNCHANGED <<bug, prMode, edits>>

-----------------------------------------------------------------------------
(* Around the runs *)

AtWork(r) == run[r].pc \notin {"idle", "refused", "ended"}

Die(r) ==
    /\ AtWork(r)
    /\ Ended(r, run[r].row, TRUE)
    /\ UNCHANGED <<bug, prMode, issue, edits>>

\* Any process that opens the database repairs the rows without a checkpoint, and takes
\* those of living processes for interrupted ones too.
Repair ==
    /\ \E r \in Runs : run[r].row = "RUNNING"
    /\ run' = [r \in Runs |-> IF run[r].row = "RUNNING" THEN [run[r] EXCEPT !.row = "FAILED"] ELSE run[r]]
    /\ UNCHANGED <<bug, prMode, issue, edits>>

Edit ==
    /\ edits < MaxEdits
    /\ edits' = edits + 1
    /\ \E status \in Statuses \ {issue.status} : issue' = [issue EXCEPT !.status = status, !.by = People]
    /\ UNCHANGED <<bug, prMode, run>>

Init ==
    /\ bug \in BOOLEAN /\ prMode \in BOOLEAN
    /\ issue \in [status : Statuses, by : {People}, linked : {NoRun}]
    /\ run = [r \in Runs |-> Absent]
    /\ edits = 0

Goes(r) == Author(r) \/ Try(r) \/ Claim(r) \/ Work(r) \/ Reopen(r) \/ Settle(r)

Next == Repair \/ Edit \/ \E r \in Runs : Read(r) \/ Goes(r) \/ Die(r)

Spec == Init /\ [][Next]_vars

\* An assumption, since nothing limits an agent's time: a run that lives goes on.
FairSpec == Spec /\ \A r \in Runs : WF_vars(Goes(r))
-----------------------------------------------------------------------------
(* Properties *)

Asked == {r \in Runs : run[r].pc # "idle"}
Cleanly(r) == run[r].pc = "ended" /\ ~run[r].broken

TypeOK ==
    /\ {bug, prMode} \subseteq BOOLEAN /\ edits \in 0..MaxEdits
    /\ issue \in [status : Statuses, by : 0..MaxRuns, linked : 0..MaxRuns]
    /\ run \in [Runs -> [pc : {"idle", "refused", "author", "trial", "claim", "work", "reopen", "settle", "ended"},
                         seen : Statuses, row : {"none", "RUNNING", "DONE", "FAILED", "BLOCKED"},
                         repro : BOOLEAN, verdict : Verdicts, broken : BOOLEAN]]

\* Of a bug nothing is written to the tracker by a run that did not see it fail.
ReproducedFirst == bug /\ issue.by # People => run[issue.by].repro

\* An issue a run closed was shipped by that run, and no run drops one.
StatusMeant ==
    issue.by # People =>
        issue.status # "DROPPED" /\ (issue.status = "DONE" => run[issue.by].verdict = "SHIP")

\* Whatever the repairs in between, the row of a bug's run that ended by itself tells its
\* end: BLOCKED before the issue was touched, DONE only when the workflow ended well.
RowTells ==
    \A r \in Runs :
        /\ run[r].row = "BLOCKED" => ~run[r].repro /\ issue.linked # r
        /\ run[r].row = "DONE" => run[r].verdict \in {"SHIP", "NEEDS-CLARIFICATION", "none"}
        /\ bug /\ Cleanly(r) => run[r].row \in {"DONE", "FAILED", "BLOCKED"}
        /\ bug /\ Cleanly(r) /\ run[r].verdict \in {"SHIP", "NEEDS-CLARIFICATION"} => run[r].row = "DONE"
        /\ ~bug => run[r].row = "none"

\* While one run alone works on an issue that nobody edits, the issue says so.
AloneInProgress ==
    \A r \in Runs : Asked = {r} /\ edits = 0 /\ run[r].pc \in {"work", "settle"} => issue.status = "IN_PROGRESS"

\* What holds of an issue and its runs at any time.
IssueInvariant == TypeOK /\ ReproducedFirst /\ StatusMeant /\ RowTells /\ AloneInProgress

\* An issue a run marked IN_PROGRESS is given another status, unless a request of that run
\* failed or its process died (fairness: a run that lives goes on).
IssueReleased ==
    \A r \in Runs :
        issue.status = "IN_PROGRESS" /\ issue.by = r ~>
            issue.status # "IN_PROGRESS" \/ issue.by # r \/ run[r].broken

\* "auto-processing is not done twice: one already IN_PROGRESS is skipped" (the issue
\* tracker document, line 196): no two runs work on an issue.  The code refutes it (README, section 6).
WorkedOnOnce == \A r, s \in Runs : run[r].pc = "work" /\ run[s].pc = "work" => r = s
=============================================================================
