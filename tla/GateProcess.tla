---------------------------- MODULE GateProcess ----------------------------
(***************************************************************************)
(* The gates of a run: one command with its process group (lib/verify.ts), *)
(* the verify and reproduction gates around it (workflows/verify-gate.ts)  *)
(* and the runtime gate, which brings a service up, checks it, has the     *)
(* verifier agent look at it and brings it down (workflows/runtime-gate.ts)*)
(*                                                                         *)
(* A command is a shell that leads a process group, and possibly a process *)
(* the shell started.  A process may ignore SIGTERM (deaf), may hold the   *)
(* output pipe, and a started one may leave the group (away).              *)
(***************************************************************************)
EXTENDS Naturals, FiniteSets

CONSTANTS
    Kinds,  \* the gates looked at: "verify", "repro", "runtime"
    Checks  \* how many check scripts the runtime gate has

ASSUME GateAssumption == Kinds \subseteq {"verify", "repro", "runtime"} /\ Checks \in Nat

VARIABLES
    kind,     \* which gate this is
    at,       \* the stage it is in
    check,    \* the check script it is at
    aborted,  \* its signal
    proc,     \* the shell and the process it started
    timers,   \* of runVerify: the timeout, the SIGKILL timers, and killTimer, the last of those
    outcome,  \* what runVerify will resolve with
    records,  \* what the gate observed at each stage
    failure, cancelled, blocked, \* the variables of runRuntimeVerification
    row,      \* agent_run of the gate
    left      \* processes that outlived their command

vars == <<kind, at, check, aborted, proc, timers, outcome, records, failure, cancelled,
          blocked, row, left>>
gate == <<records, failure, cancelled, blocked>>

CommandStages == {"command", "up", "checks", "down"}
Stages == {"command", "up", "health", "checks", "verifier", "down"}
Verdicts == {"none", "PASS", "FAIL", "BLOCKED"}
Processes == {"shell", "started"}

InCommand == at \in CommandStages
Alive(p) == proc[p].state = "alive"

\* The processes a signal to the group reaches.
Group == {p \in Processes : Alive(p) /\ ~proc[p].away}

NoProcess == [state |-> "none", deaf |-> FALSE, pipe |-> FALSE, away |-> FALSE, late |-> FALSE]
NoTimers == [timeout |-> FALSE, kills |-> {}, last |-> "none"]
NoOutcome == [code |-> "null", timedOut |-> FALSE, cancelled |-> FALSE]

-----------------------------------------------------------------------------
(* runVerify *)

BeingKilled == outcome.timedOut \/ outcome.cancelled
Passed(out) == out.code = "zero" /\ ~out.timedOut /\ ~out.cancelled

\* A shell for the next stage.  A signal already aborted is taken at once: SIGTERM to
\* the new group and the SIGKILL timer.
SpawnAt(stage, signal) ==
    /\ at' = stage
    /\ \E deaf \in BOOLEAN :
        proc' = [shell |-> [state |-> IF signal /\ ~deaf THEN "gone" ELSE "alive",
                            deaf |-> deaf, pipe |-> TRUE, away |-> FALSE, late |-> FALSE],
                 started |-> NoProcess]
    /\ timers' = [timeout |-> TRUE, kills |-> IF signal THEN {"abort"} ELSE {},
                  last |-> IF signal THEN "abort" ELSE "none"]
    /\ outcome' = [NoOutcome EXCEPT !.cancelled = signal]

Quiet == UNCHANGED <<proc, timers, outcome>>

\* The group gets the signal: every member with SIGKILL, those not deaf with SIGTERM.
Signalled(hard) ==
    [p \in Processes |->
        IF p \in Group /\ (hard \/ ~proc[p].deaf) THEN [proc[p] EXCEPT !.state = "gone"]
                                                   ELSE proc[p]]

\* Fault: the SIGKILL timer is not set.
KillGroupOnce(why) ==
    proc' = Signalled(FALSE) /\ timers' = [timers EXCEPT !.timeout = why # "timeout" /\ @]

\* SIGTERM now, SIGKILL after the grace period.
KillGroup(why) ==
    /\ proc' = Signalled(FALSE)
    /\ timers' = [timeout |-> why # "timeout" /\ timers.timeout,
                  kills |-> timers.kills \cup {why}, last |-> why]

TimeoutFires ==
    /\ InCommand /\ timers.timeout
    /\ KillGroup("timeout")
    /\ outcome' = [outcome EXCEPT !.timedOut = TRUE]
    /\ UNCHANGED <<kind, at, check, aborted, gate, row, left>>

KillTimerFires ==
    /\ InCommand
    /\ \E why \in timers.kills : timers' = [timers EXCEPT !.kills = @ \ {why}]
    /\ proc' = Signalled(TRUE)
    /\ UNCHANGED <<kind, at, check, aborted, outcome, gate, row, left>>

\* What the command does: start a process, and end.
ShellStarts ==
    /\ InCommand /\ Alive("shell") /\ proc["started"].state = "none"
    /\ \E deaf, pipe, away \in BOOLEAN :
        proc' = [proc EXCEPT !["started"] =
                    [state |-> "alive", deaf |-> deaf, pipe |-> pipe, away |-> away,
                     late |-> BeingKilled]]
    /\ UNCHANGED <<kind, at, check, aborted, timers, outcome, gate, row, left>>

ShellExits ==
    /\ InCommand /\ Alive("shell")
    /\ proc' = [proc EXCEPT !["shell"].state = "gone"]
    /\ \E code \in {"zero", "nonzero", "notRun", "null"} : outcome' = [outcome EXCEPT !.code = code]
    /\ UNCHANGED <<kind, at, check, aborted, timers, gate, row, left>>

StartedExits ==
    /\ InCommand /\ Alive("started")
    /\ proc' = [proc EXCEPT !["started"].state = "gone"]
    /\ UNCHANGED <<kind, at, check, aborted, timers, outcome, gate, row, left>>

\* "close": the shell is gone and nobody holds its pipe; or "error": it never ran.
Closes == proc["shell"].state = "gone" /\ ~(Alive("started") /\ proc["started"].pipe)

\* settle clears the timeout and killTimer.  What is still alive has outlived the
\* command; an earlier SIGKILL timer than killTimer may still be set.
Outlives ==
    left' = IF Alive("started")
            THEN left \cup {[stage |-> at, deaf |-> proc["started"].deaf,
                             away |-> proc["started"].away, late |-> proc["started"].late,
                             killed |-> BeingKilled,
                             timer |-> timers.kills \ {timers.last} # {}]}
            ELSE left

LateKill ==
    /\ \E s \in left : s.timer /\ left' = (left \ {s}) \cup (IF s.away THEN {[s EXCEPT !.timer = FALSE]} ELSE {})
    /\ UNCHANGED <<kind, at, check, aborted, proc, timers, outcome, gate, row>>

-----------------------------------------------------------------------------
(* The verify gate, and the reproduction of a bug, which expects a failure *)

Begin ==
    /\ at = "start"
    /\ row' = "RUNNING"
    /\ IF kind # "runtime"
       THEN SpawnAt("command", aborted) /\ UNCHANGED <<failure, cancelled>>
       ELSE IF aborted
            THEN SpawnAt("down", FALSE) /\ cancelled' = TRUE /\ failure' = TRUE
            ELSE SpawnAt("up", FALSE) /\ UNCHANGED <<failure, cancelled>>
    /\ UNCHANGED <<kind, check, aborted, records, blocked, left>>

\* Fault: any failure reproduces the bug, a command that could not be run included.
ReproducedByAnyFailure(out) == out.code \in {"nonzero", "notRun"} /\ ~out.timedOut /\ ~out.cancelled

Reproduced(out) == out.code = "nonzero" /\ ~out.timedOut /\ ~out.cancelled

Verdict(out) ==
    IF kind = "verify" THEN (IF Passed(out) THEN "DONE" ELSE "FAILED")
    ELSE CASE Reproduced(out) -> "DONE"
           [] Passed(out) \/ out.timedOut \/ out.cancelled -> "BLOCKED"
           [] OTHER -> "FAILED"

VerifyEnds ==
    /\ at = "command" /\ Closes
    /\ at' = "over"
    /\ row' = Verdict(outcome)
    /\ Outlives
    /\ UNCHANGED <<kind, check, aborted, proc, timers, outcome, gate>>

-----------------------------------------------------------------------------
(* The runtime gate *)

Recorded(stage, verdict) == records' = [records EXCEPT ![stage] = verdict]
CommandVerdict == IF Passed(outcome) THEN "PASS" ELSE IF outcome.cancelled THEN "BLOCKED" ELSE "FAIL"

\* The rest of the stages is skipped: the service is brought down.  `down` runs without
\* the gate's signal.
ToDown(fails) ==
    /\ failure' = (failure \/ fails)
    /\ SpawnAt("down", FALSE)

CommandEnds ==
    /\ at \in {"up", "checks"} /\ Closes
    /\ Outlives
    /\ Recorded(at, CommandVerdict)
    /\ cancelled' = (cancelled \/ outcome.cancelled)
    /\ \/ /\ ~Passed(outcome)
          /\ ToDown(TRUE)
          /\ check' = check
       \/ /\ Passed(outcome) /\ at = "up"
          /\ at' = "health"
          /\ Quiet /\ UNCHANGED <<failure, check>>
       \/ /\ Passed(outcome) /\ at = "checks"
          /\ check' = check + 1
          /\ failure' = failure
          /\ IF check < Checks THEN SpawnAt("checks", aborted)
                               ELSE at' = "verifier" /\ Quiet
    /\ UNCHANGED <<kind, aborted, blocked, row>>

\* The healthcheck polls until an answer is ok, the deadline or the abort; the answer
\* may be complete before the abort is seen.
HealthEnds ==
    /\ at = "health"
    /\ check' = 1
    /\ \/ /\ Recorded("health", "PASS")
          /\ IF aborted
             THEN ToDown(FALSE) /\ cancelled' = TRUE
             ELSE /\ UNCHANGED <<failure, cancelled>>
                  /\ IF Checks > 0 THEN SpawnAt("checks", FALSE) ELSE at' = "verifier" /\ Quiet
       \/ /\ Recorded("health", IF aborted THEN "BLOCKED" ELSE "FAIL")
          /\ cancelled' = (cancelled \/ aborted)
          /\ ToDown(TRUE)
    /\ UNCHANGED <<kind, aborted, blocked, row, left>>

\* What the verifier comes back with: its status, or "thrown"; its last marker; and
\* whether files changed between the snapshots around it.
VerifierAnswers ==
    [status : {"DONE", "FAILED", "BLOCKED", "CANCELLED", "thrown"},
     marker : {"PASS", "FAIL", "BLOCKED", "none"}, changed : BOOLEAN]

Fits(v) == v.status = "DONE" /\ v.marker = "PASS" /\ ~v.changed
CouldNot(v) == v.status # "thrown" /\ ~v.changed /\ (v.marker = "BLOCKED" \/ v.status = "BLOCKED")

VerifierEnds ==
    /\ at = "verifier"
    /\ \/ \E v \in VerifierAnswers :
            /\ v.status = "thrown" => v.marker = "none"
            /\ Recorded("verifier", IF Fits(v) THEN "PASS" ELSE IF CouldNot(v) THEN "BLOCKED" ELSE "FAIL")
            /\ cancelled' = (cancelled \/ (v.status # "thrown" /\ (aborted \/ v.status = "CANCELLED")))
            /\ blocked' = CouldNot(v)
            /\ ToDown(~Fits(v))
       \/ \* not called, or not judged: aborted before it, or a snapshot failed
          /\ \/ aborted /\ ToDown(FALSE)
             \/ ToDown(TRUE)
          /\ cancelled' = (cancelled \/ aborted)
          /\ UNCHANGED <<records, blocked>>
    /\ UNCHANGED <<kind, check, aborted, row, left>>

DownEnds ==
    /\ at = "down" /\ Closes
    /\ at' = "evidence"
    /\ Outlives
    /\ Recorded("down", CommandVerdict)
    /\ failure' = (failure \/ ~Passed(outcome))
    /\ Quiet
    /\ UNCHANGED <<kind, check, aborted, cancelled, blocked, row>>

\* Fault: a failure stands whatever was cancelled; the abort is not looked at again.
RuntimeEndsAsSeen ==
    /\ at = "evidence"
    /\ at' = "over"
    /\ \E written \in BOOLEAN : failure' = (failure \/ ~written)
    /\ row' = IF failure' \/ cancelled \/ blocked THEN "FAILED" ELSE "DONE"
    /\ Quiet
    /\ UNCHANGED <<kind, check, aborted, records, cancelled, blocked, left>>

\* The evidence is written or not, and the row ends.
RuntimeEnds ==
    /\ at = "evidence"
    /\ at' = "over"
    /\ cancelled' = (cancelled \/ aborted)
    /\ \E written \in BOOLEAN : failure' = (failure \/ ~written \/ cancelled')
    /\ row' = IF failure' \/ cancelled' \/ blocked THEN "FAILED" ELSE "DONE"
    /\ Quiet
    /\ UNCHANGED <<kind, check, aborted, records, blocked, left>>

-----------------------------------------------------------------------------
\* Fault: `down` gets the gate's signal.
AbortReachesDown ==
    /\ ~aborted /\ at # "over"
    /\ aborted' = TRUE
    /\ IF InCommand
       THEN KillGroup("abort") /\ outcome' = [outcome EXCEPT !.cancelled = TRUE]
       ELSE Quiet
    /\ UNCHANGED <<kind, at, check, gate, row, left>>

\* The user cancels the gate's run or its workflow.
Abort ==
    /\ ~aborted /\ at # "over"
    /\ aborted' = TRUE
    /\ IF InCommand /\ at # "down"
       THEN KillGroup("abort") /\ outcome' = [outcome EXCEPT !.cancelled = TRUE]
       ELSE Quiet
    /\ UNCHANGED <<kind, at, check, gate, row, left>>

Init ==
    /\ kind \in Kinds
    /\ at = "start" /\ check = 0 /\ aborted = FALSE /\ row = "none"
    /\ proc = [p \in Processes |-> NoProcess]
    /\ timers = NoTimers /\ outcome = NoOutcome
    /\ records = [s \in Stages |-> "none"]
    /\ failure = FALSE /\ cancelled = FALSE /\ blocked = FALSE
    /\ left = {}

\* What the gate does by itself; the command may also end, or go on for ever.
GateStep ==
    \/ Begin \/ TimeoutFires \/ KillTimerFires
    \/ VerifyEnds \/ CommandEnds \/ HealthEnds \/ VerifierEnds \/ DownEnds \/ RuntimeEnds

Next == GateStep \/ ShellStarts \/ ShellExits \/ StartedExits \/ LateKill \/ Abort

Spec == Init /\ [][Next]_vars

\* Timers fire, and what has ended is looked at.  No command need end by itself, nor need the
\* verifier agent, which nothing limits.
FairSpec == Spec /\ WF_vars(GateStep /\ at # "verifier")

-----------------------------------------------------------------------------
(* Properties *)

Ended == at = "over"

TypeOK ==
    /\ kind \in Kinds /\ aborted \in BOOLEAN /\ check \in 0..(Checks + 1)
    /\ at \in {"start", "health", "verifier", "evidence", "over"} \cup CommandStages
    /\ proc \in [Processes -> [state : {"none", "alive", "gone"}, deaf : BOOLEAN,
                               pipe : BOOLEAN, away : BOOLEAN, late : BOOLEAN]]
    /\ timers \in [timeout : BOOLEAN, kills : SUBSET {"timeout", "abort"},
                   last : {"none", "timeout", "abort"}]
    /\ outcome \in [code : {"null", "zero", "nonzero", "notRun"}, timedOut : BOOLEAN,
                    cancelled : BOOLEAN]
    /\ records \in [Stages -> Verdicts]
    /\ failure \in BOOLEAN /\ cancelled \in BOOLEAN /\ blocked \in BOOLEAN
    /\ row \in {"none", "RUNNING", "DONE", "FAILED", "BLOCKED"}
    /\ left \in SUBSET [stage : CommandStages, deaf : BOOLEAN, away : BOOLEAN,
                        late : BOOLEAN, killed : BOOLEAN, timer : BOOLEAN]

\* A gate that passed has seen it with its own eyes: the exit code of a command that
\* ended by itself, every stage of the runtime, and no cancellation before its end.
PassMeansObserved ==
    row = "DONE" =>
        /\ kind = "verify" => outcome.code = "zero"
        /\ kind = "repro" => outcome.code = "nonzero"
        /\ kind # "runtime" => ~outcome.timedOut /\ ~aborted
        /\ kind = "runtime" =>
            /\ \A s \in Stages \ {"command", "checks"} : records[s] = "PASS"
            /\ records["checks"] = (IF Checks = 0 THEN "none" ELSE "PASS")
            /\ ~aborted

\* Once a runtime gate has begun, its service is brought down before its row ends, also when
\* it was cancelled before, while or after it came up; and no cancellation, of whatever moment,
\* cuts that short: the command that does it ends by itself or by its own timeout.
DownBeforeEnd == kind = "runtime" /\ Ended => records["down"] \in {"PASS", "FAIL"}

\* A process that outlives a command that was killed has left the group, or ignored
\* SIGTERM, or was started after it: settling clears the timer of its SIGKILL.
SurvivorsKnown == \A s \in left : s.killed => s.deaf \/ s.away \/ s.late

\* A command being killed still has its SIGKILL to come, or nobody left to get it.
KillPending ==
    InCommand /\ BeingKilled => timers.kills # {} \/ Group = {}

\* What holds of a gate at any time.
GateInvariant ==
    TypeOK /\ PassMeansObserved /\ DownBeforeEnd /\ SurvivorsKnown /\ KillPending

\* Every gate ends, unless a process that left the group keeps the output open, when the
\* command never closes, whatever the timeout; or the verifier agent never answers (fairness:
\* timers fire).
Stuck ==
    \/ InCommand /\ Alive("started") /\ proc["started"].away /\ proc["started"].pipe
    \/ at = "verifier"
GateEnds == []<>~Stuck => <>Ended
=============================================================================
