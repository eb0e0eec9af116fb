-------------------------- MODULE GateProcessProofs --------------------------
(***************************************************************************)
(* Proofs about GateProcess, for any of the gates and any number of check  *)
(* scripts: a gate that passed has observed it, a runtime is brought down  *)
(* before its gate ends, uncut by cancellations, and a process that        *)
(* outlives a killed command is one of three kinds.                        *)
(***************************************************************************)
EXTENDS GateProcess, TLAPS

-----------------------------------------------------------------------------
(* The inductive invariant. *)

RuntimeStages == {"up", "health", "checks", "verifier", "down", "evidence"}

\* The stages of the runtime gate are its own, and so is the command of the others.
OwnStages ==
    /\ at \in RuntimeStages => kind = "runtime"
    /\ at = "command" => kind # "runtime"
    /\ row = "DONE" => at = "over"
    /\ at = "checks" => check \in 1..Checks
    /\ Checks = 0 => records["checks"] = "none"

ChecksPassed == records["checks"] = (IF Checks = 0 THEN "none" ELSE "PASS")

\* What a stage has behind it was seen to pass.
Seen ==
    /\ at \in {"health", "checks", "verifier"} => records["up"] = "PASS"
    /\ at \in {"checks", "verifier"} => records["health"] = "PASS"
    /\ at = "verifier" => ChecksPassed
    /\ at \in {"down", "evidence"} /\ ~failure /\ ~cancelled /\ ~blocked =>
            /\ records["up"] = "PASS" /\ records["health"] = "PASS" /\ ChecksPassed
            /\ records["verifier"] = "PASS"
    /\ at = "down" => ~outcome.cancelled
    /\ at = "evidence" => records["down"] \in {"PASS", "FAIL"}
    /\ at = "evidence" /\ ~failure => records["down"] = "PASS"
    /\ at = "command" /\ aborted => outcome.cancelled

\* The shell leads its group; what else is alive of a command being killed is known.
Killed ==
    /\ ~proc["shell"].away
    /\ InCommand /\ BeingKilled /\ Alive("started") =>
            proc["started"].deaf \/ proc["started"].away \/ proc["started"].late

ProcType == [state : {"none", "alive", "gone"}, deaf : BOOLEAN, pipe : BOOLEAN,
             away : BOOLEAN, late : BOOLEAN]

\* What the invariant says of a command and of what outlived one.
CommandInv ==
    /\ proc \in [Processes -> ProcType]
    /\ timers \in [timeout : BOOLEAN, kills : SUBSET {"timeout", "abort"},
                   last : {"none", "timeout", "abort"}]
    /\ outcome \in [code : {"null", "zero", "nonzero", "notRun"}, timedOut : BOOLEAN,
                    cancelled : BOOLEAN]
    /\ left \in SUBSET [stage : CommandStages, deaf : BOOLEAN, away : BOOLEAN,
                        late : BOOLEAN, killed : BOOLEAN, timer : BOOLEAN]
    /\ SurvivorsKnown /\ KillPending /\ Killed

\* What it says of the gate around it.
GateInv ==
    /\ kind \in Kinds /\ aborted \in BOOLEAN /\ check \in 0..(Checks + 1)
    /\ at \in {"start", "health", "verifier", "evidence", "over"} \cup CommandStages
    /\ records \in [Stages -> Verdicts]
    /\ failure \in BOOLEAN /\ cancelled \in BOOLEAN /\ blocked \in BOOLEAN
    /\ row \in {"none", "RUNNING", "DONE", "FAILED", "BLOCKED"}
    /\ PassMeansObserved /\ DownBeforeEnd /\ OwnStages /\ Seen

IInv == CommandInv /\ GateInv

LEMMA PartsSuffice == IInv => GateInvariant
BY DEF IInv, GateInvariant, TypeOK, CommandInv, GateInv, ProcType

-----------------------------------------------------------------------------
(* A command and its signals. *)

LEMMA NoProcessType == NoProcess \in ProcType
BY DEF NoProcess, ProcType

LEMMA InitInv == Init => IInv
<1> SUFFICES ASSUME Init PROVE IInv
  OBVIOUS
<1>1. CommandInv
  <2>1. proc \in [Processes -> ProcType] /\ \A p \in Processes : proc[p] = NoProcess
    BY NoProcessType DEF Init
  <2>2. ~proc["shell"].away /\ ~InCommand
    BY <2>1 DEF Init, Processes, NoProcess, InCommand, CommandStages
  <2> QED BY <2>1, <2>2 DEF Init, CommandInv, NoTimers, NoOutcome, SurvivorsKnown, KillPending, Killed
<1>2. GateInv
  <2>1. /\ kind \in Kinds /\ at = "start" /\ check = 0 /\ aborted = FALSE /\ row = "none"
        /\ failure = FALSE /\ cancelled = FALSE /\ blocked = FALSE
        /\ records = [s \in Stages |-> "none"]
    BY DEF Init
  <2>2. records \in [Stages -> Verdicts] /\ records["checks"] = "none"
    BY <2>1 DEF Stages, Verdicts
  <2>3. check \in 0..(Checks + 1)
    BY <2>1, GateAssumption
  <2>4. PassMeansObserved /\ DownBeforeEnd
    BY <2>1 DEF PassMeansObserved, DownBeforeEnd, Ended
  <2>5. OwnStages /\ Seen
    BY <2>1, <2>2 DEF OwnStages, Seen, RuntimeStages
  <2> QED BY <2>1, <2>2, <2>3, <2>4, <2>5 DEF GateInv
<1> QED BY <1>1, <1>2 DEF IInv

\* A new shell has nothing to it that is not killed already.
LEMMA SpawnKeeps ==
  ASSUME CommandInv, NEW stage \in CommandStages, NEW signal \in BOOLEAN, SpawnAt(stage, signal),
         SurvivorsKnown',
         left' \in SUBSET [stage : CommandStages, deaf : BOOLEAN, away : BOOLEAN,
                           late : BOOLEAN, killed : BOOLEAN, timer : BOOLEAN]
  PROVE CommandInv' /\ at' = stage /\ outcome'.cancelled = signal /\ ~outcome'.timedOut
<1>1. PICK deaf \in BOOLEAN :
        proc' = [shell |-> [state |-> IF signal /\ ~deaf THEN "gone" ELSE "alive",
                            deaf |-> deaf, pipe |-> TRUE, away |-> FALSE, late |-> FALSE],
                 started |-> NoProcess]
  BY DEF SpawnAt
<1> DEFINE s == [state |-> IF signal /\ ~deaf THEN "gone" ELSE "alive",
                 deaf |-> deaf, pipe |-> TRUE, away |-> FALSE, late |-> FALSE]
<1>2. proc' \in [Processes -> ProcType] /\ ~proc'["shell"].away /\ proc'["started"].state = "none"
  <2>1. s \in ProcType /\ ~s.away
    BY DEF ProcType
  <2>2. proc' = [shell |-> s, started |-> NoProcess]
    BY <1>1
  <2> HIDE DEF s
  <2>3. proc' \in [{"shell", "started"} -> ProcType] /\ proc'["shell"] = s /\ proc'["started"] = NoProcess
    BY <2>1, <2>2, NoProcessType
  <2> QED BY <2>1, <2>3 DEF Processes, NoProcess
<1>3. /\ at' = stage
      /\ timers' = [timeout |-> TRUE, kills |-> IF signal THEN {"abort"} ELSE {},
                    last |-> IF signal THEN "abort" ELSE "none"]
      /\ outcome' = [code |-> "null", timedOut |-> FALSE, cancelled |-> signal]
  BY DEF SpawnAt, NoOutcome
<1>4. KillPending'
  BY <1>3 DEF KillPending, BeingKilled
<1>5. Killed'
  BY <1>2 DEF Killed, Alive
<1> QED BY <1>2, <1>3, <1>4, <1>5 DEF CommandInv

\* A signal ends members of the group; those it leaves are deaf or away.
LEMMA SignalKeeps ==
  ASSUME proc \in [Processes -> ProcType], NEW hard \in BOOLEAN, proc' = Signalled(hard)
  PROVE /\ proc' \in [Processes -> ProcType]
        /\ \A p \in Processes :
              /\ proc'[p].deaf = proc[p].deaf /\ proc'[p].away = proc[p].away
              /\ proc'[p].late = proc[p].late /\ proc'[p].pipe = proc[p].pipe
              /\ proc'[p].state = "alive" =>
                    proc[p].state = "alive" /\ (proc[p].away \/ (~hard /\ proc[p].deaf))
<1>1. ASSUME NEW p \in Processes
      PROVE /\ proc'[p] \in ProcType
            /\ proc'[p].deaf = proc[p].deaf /\ proc'[p].away = proc[p].away
            /\ proc'[p].late = proc[p].late /\ proc'[p].pipe = proc[p].pipe
            /\ proc'[p].state = "alive" =>
                    proc[p].state = "alive" /\ (proc[p].away \/ (~hard /\ proc[p].deaf))
  <2>1. proc[p] \in ProcType
    OBVIOUS
  <2>2. proc'[p] = IF p \in Group /\ (hard \/ ~proc[p].deaf) THEN [proc[p] EXCEPT !.state = "gone"]
                                                            ELSE proc[p]
    BY DEF Signalled
  <2>3. p \in Group <=> proc[p].state = "alive" /\ ~proc[p].away
    BY DEF Group, Alive
  <2> QED BY <2>1, <2>2, <2>3 DEF ProcType
<1>2. proc' = [p \in Processes |-> proc'[p]]
  BY DEF Signalled
<1>3. proc' \in [Processes -> ProcType]
  BY <1>1, <1>2
<1> QED BY <1>1, <1>3

\* Outside a command the two processes and their timers do not matter.
LEMMA QuietKeeps ==
  ASSUME CommandInv, Quiet, ~InCommand', SurvivorsKnown',
         left' \in SUBSET [stage : CommandStages, deaf : BOOLEAN, away : BOOLEAN,
                           late : BOOLEAN, killed : BOOLEAN, timer : BOOLEAN]
  PROVE CommandInv'
<1>1. proc' = proc /\ timers' = timers /\ outcome' = outcome
  BY DEF Quiet
<1>2. KillPending' /\ Killed'
  BY <1>1 DEF CommandInv, KillPending, Killed
<1> QED BY <1>1, <1>2 DEF CommandInv

\* A process that is alive when its command settles is known.
LEMMA OutlivesKeeps ==
  ASSUME CommandInv, InCommand, Outlives
  PROVE /\ SurvivorsKnown'
        /\ left' \in SUBSET [stage : CommandStages, deaf : BOOLEAN, away : BOOLEAN,
                             late : BOOLEAN, killed : BOOLEAN, timer : BOOLEAN]
<1> DEFINE s == [stage |-> at, deaf |-> proc["started"].deaf,
                 away |-> proc["started"].away, late |-> proc["started"].late,
                 killed |-> BeingKilled, timer |-> timers.kills \ {timers.last} # {}]
<1>1. proc["started"] \in ProcType /\ at \in CommandStages /\ BeingKilled \in BOOLEAN
  BY DEF CommandInv, Processes, InCommand, BeingKilled
<1>2. /\ s \in [stage : CommandStages, deaf : BOOLEAN, away : BOOLEAN,
                late : BOOLEAN, killed : BOOLEAN, timer : BOOLEAN]
      /\ s.killed = BeingKilled /\ s.deaf = proc["started"].deaf
      /\ s.away = proc["started"].away /\ s.late = proc["started"].late
  BY <1>1 DEF ProcType
<1>3. left' = left \/ (Alive("started") /\ left' = left \cup {s})
  BY DEF Outlives
<1> HIDE DEF s
<1>4. CASE left' = left
  BY <1>4 DEF CommandInv, SurvivorsKnown
<1>5. CASE Alive("started") /\ left' = left \cup {s}
  <2>1. s.killed => s.deaf \/ s.away \/ s.late
    BY <1>2, <1>5 DEF CommandInv, Killed
  <2> QED BY <1>2, <1>5, <2>1 DEF CommandInv, SurvivorsKnown
<1> QED BY <1>3, <1>4, <1>5

LEMMA KillGroupKeeps ==
  ASSUME CommandInv, NEW why \in {"timeout", "abort"}, KillGroup(why), at' = at, left' = left,
         outcome' \in [code : {"null", "zero", "nonzero", "notRun"}, timedOut : BOOLEAN,
                       cancelled : BOOLEAN]
  PROVE CommandInv'
<1>1. proc' = Signalled(FALSE)
  BY DEF KillGroup
<1>2. /\ proc' \in [Processes -> ProcType]
      /\ \A p \in Processes :
            /\ proc'[p].deaf = proc[p].deaf /\ proc'[p].away = proc[p].away
            /\ proc'[p].late = proc[p].late
            /\ proc'[p].state = "alive" => proc[p].away \/ proc[p].deaf
  BY <1>1, SignalKeeps DEF CommandInv
<1>3. /\ timers' \in [timeout : BOOLEAN, kills : SUBSET {"timeout", "abort"},
                      last : {"none", "timeout", "abort"}]
      /\ timers'.kills # {}
  BY DEF CommandInv, KillGroup
<1>4. Killed'
  BY <1>2 DEF CommandInv, Killed, Alive, Processes
<1>5. KillPending'
  BY <1>3 DEF KillPending
<1>6. SurvivorsKnown'
  BY DEF CommandInv, SurvivorsKnown
<1> QED BY <1>2, <1>3, <1>4, <1>5, <1>6 DEF CommandInv

-----------------------------------------------------------------------------
(* The steps of a command. *)

\* The invariant of the gate does not look at processes and timers.
LEMMA GateKeeps ==
  ASSUME GateInv,
         UNCHANGED <<kind, at, check, records, failure, cancelled, blocked, row>>,
         UNCHANGED <<aborted, outcome>> \/ at # "over",
         UNCHANGED aborted \/ (aborted' = TRUE /\ (at = "command" => outcome'.cancelled)),
         at = "command" /\ outcome.cancelled => outcome'.cancelled,
         at = "down" => outcome'.cancelled = outcome.cancelled
  PROVE GateInv'
<1>1. PassMeansObserved'
  <2>1. CASE UNCHANGED <<aborted, outcome>>
    BY <2>1 DEF GateInv, PassMeansObserved
  <2>2. CASE at # "over"
    <3>1. row' # "DONE"
      BY <2>2 DEF GateInv, OwnStages
    <3> QED BY <3>1 DEF PassMeansObserved
  <2> QED BY <2>1, <2>2
<1>2. DownBeforeEnd' /\ OwnStages'
  BY DEF GateInv, DownBeforeEnd, OwnStages, Ended
<1>3. Seen'
  <2>1. at = "command" /\ aborted' => outcome'.cancelled
    BY DEF GateInv, Seen
  <2>2. ChecksPassed' <=> ChecksPassed
    BY DEF ChecksPassed
  <2> QED BY <2>1, <2>2 DEF GateInv, Seen
<1> QED BY <1>1, <1>2, <1>3 DEF GateInv

LEMMA TimeoutFiresInv == IInv /\ TimeoutFires => IInv'
<1> SUFFICES ASSUME CommandInv, GateInv, TimeoutFires PROVE IInv'
  BY DEF IInv
<1>1. /\ InCommand /\ KillGroup("timeout") /\ outcome' = [outcome EXCEPT !.timedOut = TRUE]
      /\ UNCHANGED <<kind, at, check, aborted, records, failure, cancelled, blocked, row, left>>
  BY DEF TimeoutFires, gate
<1>2. CommandInv'
  BY <1>1, KillGroupKeeps DEF CommandInv
<1>3. GateInv'
  BY <1>1, GateKeeps DEF CommandInv, InCommand, CommandStages
<1> QED BY <1>2, <1>3 DEF IInv

LEMMA AbortInv == IInv /\ Abort => IInv'
<1> SUFFICES ASSUME CommandInv, GateInv, Abort PROVE IInv'
  BY DEF IInv
<1>1. /\ at # "over" /\ aborted' = TRUE
      /\ UNCHANGED <<kind, at, check, records, failure, cancelled, blocked, row, left>>
  BY DEF Abort, gate
<1>2. CASE InCommand /\ at # "down"
  <2>1. KillGroup("abort") /\ outcome' = [outcome EXCEPT !.cancelled = TRUE]
    BY <1>2 DEF Abort
  <2>2. CommandInv'
    BY <1>1, <2>1, KillGroupKeeps DEF CommandInv
  <2>3. GateInv'
    BY <1>1, <1>2, <2>1, GateKeeps DEF CommandInv
  <2> QED BY <2>2, <2>3 DEF IInv
<1>3. CASE ~(InCommand /\ at # "down")
  <2>1. proc' = proc /\ timers' = timers /\ outcome' = outcome
    BY <1>3 DEF Abort, Quiet
  <2>2. CommandInv'
    BY <1>1, <2>1 DEF CommandInv, SurvivorsKnown, KillPending, Killed, InCommand, BeingKilled, Group, Alive
  <2>3. at # "command"
    BY <1>3 DEF InCommand, CommandStages
  <2>4. GateInv'
    BY <1>1, <2>1, <2>3, GateKeeps
  <2> QED BY <2>2, <2>4 DEF IInv
<1> QED BY <1>2, <1>3

LEMMA KillTimerFiresInv == IInv /\ KillTimerFires => IInv'
<1> SUFFICES ASSUME CommandInv, GateInv, KillTimerFires PROVE IInv'
  BY DEF IInv
<1>1. /\ proc' = Signalled(TRUE) /\ \E why \in timers.kills : timers' = [timers EXCEPT !.kills = @ \ {why}]
      /\ UNCHANGED <<kind, at, check, aborted, outcome, records, failure, cancelled, blocked, row, left>>
  BY DEF KillTimerFires, gate
<1>2. /\ proc' \in [Processes -> ProcType]
      /\ \A p \in Processes :
            /\ proc'[p].deaf = proc[p].deaf /\ proc'[p].away = proc[p].away
            /\ proc'[p].late = proc[p].late
            /\ proc'[p].state = "alive" => proc[p].state = "alive" /\ proc[p].away
  BY <1>1, SignalKeeps DEF CommandInv
<1>3. timers' \in [timeout : BOOLEAN, kills : SUBSET {"timeout", "abort"},
                   last : {"none", "timeout", "abort"}]
  BY <1>1 DEF CommandInv
<1>4. Group' = {}
  BY <1>2 DEF Group, Alive
<1>5. Killed'
  BY <1>1, <1>2 DEF CommandInv, Killed, Alive, Processes
<1>6. CommandInv'
  BY <1>1, <1>2, <1>3, <1>4, <1>5 DEF CommandInv, KillPending, SurvivorsKnown
<1>7. GateInv'
  BY <1>1, GateKeeps
<1> QED BY <1>6, <1>7 DEF IInv

LEMMA ShellStartsInv == IInv /\ ShellStarts => IInv'
<1> SUFFICES ASSUME CommandInv, GateInv, ShellStarts PROVE IInv'
  BY DEF IInv
<1>1. /\ InCommand /\ Alive("shell")
      /\ UNCHANGED <<kind, at, check, aborted, timers, outcome, records, failure, cancelled, blocked, row, left>>
  BY DEF ShellStarts, gate
<1>2. PICK deaf \in BOOLEAN, pipe \in BOOLEAN, away \in BOOLEAN :
        proc' = [proc EXCEPT !["started"] =
                    [state |-> "alive", deaf |-> deaf, pipe |-> pipe, away |-> away,
                     late |-> BeingKilled]]
  BY DEF ShellStarts
<1>3. BeingKilled \in BOOLEAN
  BY DEF CommandInv, BeingKilled
<1>4. /\ proc' \in [Processes -> ProcType] /\ proc'["shell"] = proc["shell"]
      /\ BeingKilled => proc'["started"].late
  BY <1>2, <1>3 DEF CommandInv, ProcType, Processes
<1>5. "shell" \in Group
  BY <1>1 DEF Group, Processes, CommandInv, Killed
<1>6. KillPending' /\ Killed' /\ SurvivorsKnown'
  <2>1. BeingKilled' = BeingKilled /\ timers' = timers /\ at' = at
    BY <1>1 DEF BeingKilled
  <2>2. KillPending'
    BY <1>1, <1>5, <2>1 DEF CommandInv, KillPending
  <2> QED BY <1>1, <1>4, <2>1, <2>2 DEF CommandInv, Killed, SurvivorsKnown
<1>7. CommandInv'
  BY <1>1, <1>4, <1>6 DEF CommandInv
<1>8. GateInv'
  BY <1>1, GateKeeps
<1> QED BY <1>7, <1>8 DEF IInv

\* Processes that end leave nobody new in the group.
LEMMA EndKeeps ==
  ASSUME CommandInv, NEW p \in Processes, proc' = [proc EXCEPT ![p].state = "gone"],
         UNCHANGED <<at, timers, left>>,
         outcome' \in [code : {"null", "zero", "nonzero", "notRun"}, timedOut : BOOLEAN,
                       cancelled : BOOLEAN],
         outcome'.timedOut = outcome.timedOut, outcome'.cancelled = outcome.cancelled
  PROVE CommandInv'
<1>1. /\ proc' \in [Processes -> ProcType]
      /\ \A q \in Processes :
            /\ proc'[q].deaf = proc[q].deaf /\ proc'[q].away = proc[q].away
            /\ proc'[q].late = proc[q].late
            /\ proc'[q].state = "alive" => proc[q].state = "alive"
  <2>1. proc \in [Processes -> ProcType]
    BY DEF CommandInv
  <2>2. \A q \in Processes : proc'[q] = IF q = p THEN [proc[q] EXCEPT !.state = "gone"] ELSE proc[q]
    BY <2>1
  <2>3. proc' = [q \in Processes |-> proc'[q]]
    BY <2>1
  <2>4. \A q \in Processes : proc'[q] \in ProcType
    BY <2>1, <2>2 DEF ProcType
  <2>5. proc' \in [Processes -> ProcType]
    BY <2>3, <2>4
  <2> QED BY <2>1, <2>2, <2>5 DEF ProcType
<1>2. Group' \subseteq Group
  BY <1>1 DEF Group, Alive
<1>3. BeingKilled' = BeingKilled
  BY DEF BeingKilled
<1>4. KillPending' /\ SurvivorsKnown'
  BY <1>2, <1>3 DEF CommandInv, KillPending, SurvivorsKnown, InCommand
<1>5. Killed'
  BY <1>1, <1>3 DEF CommandInv, Killed, InCommand, Alive, Processes
<1> QED BY <1>1, <1>4, <1>5 DEF CommandInv

LEMMA ShellExitsInv == IInv /\ ShellExits => IInv'
<1> SUFFICES ASSUME CommandInv, GateInv, ShellExits PROVE IInv'
  BY DEF IInv
<1>1. /\ InCommand /\ proc' = [proc EXCEPT !["shell"].state = "gone"]
      /\ \E code \in {"zero", "nonzero", "notRun", "null"} : outcome' = [outcome EXCEPT !.code = code]
      /\ UNCHANGED <<kind, at, check, aborted, timers, records, failure, cancelled, blocked, row, left>>
  BY DEF ShellExits, gate
<1>2. /\ outcome' \in [code : {"null", "zero", "nonzero", "notRun"}, timedOut : BOOLEAN,
                       cancelled : BOOLEAN]
      /\ outcome'.timedOut = outcome.timedOut /\ outcome'.cancelled = outcome.cancelled
  BY <1>1 DEF CommandInv
<1>3. CommandInv'
  BY <1>1, <1>2, EndKeeps DEF Processes
<1>4. GateInv'
  BY <1>1, <1>2, GateKeeps DEF InCommand, CommandStages
<1> QED BY <1>3, <1>4 DEF IInv

LEMMA StartedExitsInv == IInv /\ StartedExits => IInv'
<1> SUFFICES ASSUME CommandInv, GateInv, StartedExits PROVE IInv'
  BY DEF IInv
<1>1. /\ proc' = [proc EXCEPT !["started"].state = "gone"]
      /\ UNCHANGED <<kind, at, check, aborted, timers, outcome, records, failure, cancelled, blocked, row, left>>
  BY DEF StartedExits, gate
<1>2. CommandInv'
  BY <1>1, EndKeeps DEF Processes, CommandInv
<1>3. GateInv'
  BY <1>1, GateKeeps
<1> QED BY <1>2, <1>3 DEF IInv

LEMMA LateKillInv == IInv /\ LateKill => IInv'
<1> SUFFICES ASSUME CommandInv, GateInv, LateKill PROVE IInv'
  BY DEF IInv
<1>1. UNCHANGED <<kind, at, check, aborted, proc, timers, outcome, records, failure, cancelled, blocked, row>>
  BY DEF LateKill, gate
<1>2. PICK s \in left : left' = (left \ {s}) \cup (IF s.away THEN {[s EXCEPT !.timer = FALSE]} ELSE {})
  BY DEF LateKill
<1> DEFINE S == [stage : CommandStages, deaf : BOOLEAN, away : BOOLEAN,
                 late : BOOLEAN, killed : BOOLEAN, timer : BOOLEAN]
           r == [s EXCEPT !.timer = FALSE]
<1>3. s \in S /\ left \subseteq S
  BY DEF CommandInv
<1>4. r \in S /\ r.away = s.away
  BY <1>3
<1>5. left' \subseteq left \/ (s.away /\ left' \subseteq left \cup {r})
  BY <1>2
<1> HIDE DEF r
<1>6. left' \subseteq S
  <2> HIDE DEF S
  <2> QED BY <1>3, <1>4, <1>5
<1>7. SurvivorsKnown'
  BY <1>4, <1>5 DEF CommandInv, SurvivorsKnown
<1>8. KillPending' /\ Killed'
  BY <1>1 DEF CommandInv, KillPending, Killed, InCommand, BeingKilled, Group, Alive
<1>9. CommandInv'
  BY <1>1, <1>6, <1>7, <1>8 DEF CommandInv
<1>10. GateInv'
  BY <1>1, GateKeeps
<1> QED BY <1>9, <1>10 DEF IInv

-----------------------------------------------------------------------------
(* The steps of the gates. *)


LEMMA KnownKept ==
  ASSUME CommandInv, left' = left PROVE
    /\ SurvivorsKnown'
    /\ left' \in SUBSET [stage : CommandStages, deaf : BOOLEAN, away : BOOLEAN,
                         late : BOOLEAN, killed : BOOLEAN, timer : BOOLEAN]
BY DEF CommandInv, SurvivorsKnown

\* To down, with what was seen so far unless the gate fails, was cancelled or is blocked.
LEMMA ToDownKeeps ==
  ASSUME CommandInv, GateInv, NEW fails \in BOOLEAN, ToDown(fails), kind = "runtime", row # "DONE",
         SurvivorsKnown',
         left' \in SUBSET [stage : CommandStages, deaf : BOOLEAN, away : BOOLEAN,
                           late : BOOLEAN, killed : BOOLEAN, timer : BOOLEAN],
         UNCHANGED <<kind, aborted, row>>, check' \in 0..(Checks + 1),
         cancelled' \in BOOLEAN, blocked' \in BOOLEAN, records' \in [Stages -> Verdicts],
         Checks = 0 => records'["checks"] = "none",
         ~fails /\ ~cancelled' /\ ~blocked' =>
            /\ records'["up"] = "PASS" /\ records'["health"] = "PASS" /\ ChecksPassed'
            /\ records'["verifier"] = "PASS"
  PROVE IInv'
<1>1. SpawnAt("down", FALSE) /\ failure' = (failure \/ fails)
  BY DEF ToDown
<1>2. CommandInv' /\ at' = "down" /\ ~outcome'.cancelled
  BY <1>1, SpawnKeeps DEF CommandStages
<1>3. failure' \in BOOLEAN /\ (~failure' => ~fails)
  BY <1>1 DEF GateInv
<1>4. Seen'
  BY <1>2, <1>3 DEF Seen
<1>5. OwnStages' /\ PassMeansObserved' /\ DownBeforeEnd'
  BY <1>2 DEF OwnStages, PassMeansObserved, DownBeforeEnd, Ended, RuntimeStages
<1>6. GateInv'
  BY <1>2, <1>3, <1>4, <1>5 DEF GateInv, CommandStages
<1> QED BY <1>2, <1>6 DEF IInv

LEMMA BeginInv == IInv /\ Begin => IInv'
<1> SUFFICES ASSUME CommandInv, GateInv, Begin PROVE IInv'
  BY DEF IInv
<1>1. /\ at = "start" /\ row' = "RUNNING"
      /\ UNCHANGED <<kind, check, aborted, records, blocked, left>>
  BY DEF Begin
<1>2. kind \in {"verify", "repro", "runtime"} /\ aborted \in BOOLEAN
  BY GateAssumption DEF GateInv
<1>3. SurvivorsKnown' /\ left' \in SUBSET [stage : CommandStages, deaf : BOOLEAN, away : BOOLEAN,
                         late : BOOLEAN, killed : BOOLEAN, timer : BOOLEAN]
  BY <1>1, KnownKept
<1>4. CASE kind # "runtime"
  <2>1. SpawnAt("command", aborted) /\ UNCHANGED <<failure, cancelled>>
    BY <1>4 DEF Begin
  <2>2. CommandInv' /\ at' = "command" /\ outcome'.cancelled = aborted
    BY <1>2, <1>3, <2>1, SpawnKeeps DEF CommandStages
  <2>3. GateInv'
    BY <1>1, <1>4, <2>1, <2>2 DEF GateInv, PassMeansObserved, DownBeforeEnd, OwnStages, Seen, Ended,
       RuntimeStages, CommandStages
  <2> QED BY <2>2, <2>3 DEF IInv
<1>5. CASE kind = "runtime" /\ aborted
  <2>1. SpawnAt("down", FALSE) /\ cancelled' = TRUE /\ failure' = TRUE
    BY <1>5 DEF Begin
  <2>2. CommandInv' /\ at' = "down" /\ ~outcome'.cancelled
    BY <1>3, <2>1, SpawnKeeps DEF CommandStages
  <2>3. GateInv'
    BY <1>1, <1>5, <2>1, <2>2 DEF GateInv, PassMeansObserved, DownBeforeEnd, OwnStages, Seen, Ended,
       RuntimeStages, CommandStages
  <2> QED BY <2>2, <2>3 DEF IInv
<1>6. CASE kind = "runtime" /\ ~aborted
  <2>1. SpawnAt("up", FALSE) /\ UNCHANGED <<failure, cancelled>>
    BY <1>6 DEF Begin
  <2>2. CommandInv' /\ at' = "up"
    BY <1>3, <2>1, SpawnKeeps DEF CommandStages
  <2>3. GateInv'
    BY <1>1, <1>6, <2>1, <2>2 DEF GateInv, PassMeansObserved, DownBeforeEnd, OwnStages, Seen, Ended,
       RuntimeStages, CommandStages
  <2> QED BY <2>2, <2>3 DEF IInv
<1> QED BY <1>4, <1>5, <1>6

LEMMA VerifyEndsInv == IInv /\ VerifyEnds => IInv'
<1> SUFFICES ASSUME CommandInv, GateInv, VerifyEnds PROVE IInv'
  BY DEF IInv
<1>1. /\ at = "command" /\ at' = "over" /\ Outlives /\ row' = Verdict(outcome)
      /\ UNCHANGED <<kind, check, aborted, proc, timers, outcome, records, failure, cancelled, blocked>>
  BY DEF VerifyEnds, gate
<1>2. InCommand /\ ~InCommand'
  BY <1>1 DEF InCommand, CommandStages
<1>3. CommandInv'
  BY <1>1, <1>2, OutlivesKeeps, QuietKeeps DEF Quiet
<1>4. kind # "runtime" /\ (aborted => outcome.cancelled)
  BY <1>1 DEF GateInv, OwnStages, Seen
<1>5. row' = "DONE" => /\ kind = "verify" => outcome.code = "zero"
                       /\ kind # "verify" => outcome.code = "nonzero"
                       /\ ~outcome.timedOut /\ ~outcome.cancelled
  BY <1>1 DEF Verdict, Passed, Reproduced
<1>6. row' \in {"DONE", "FAILED", "BLOCKED"}
  BY <1>1 DEF Verdict
<1>7. PassMeansObserved' /\ DownBeforeEnd'
  BY <1>1, <1>4, <1>5 DEF PassMeansObserved, DownBeforeEnd
<1>8. OwnStages' /\ Seen'
  BY <1>1 DEF GateInv, OwnStages, Seen, RuntimeStages
<1>9. GateInv'
  BY <1>1, <1>6, <1>7, <1>8 DEF GateInv
<1> QED BY <1>3, <1>9 DEF IInv

LEMMA CommandEndsInv == IInv /\ CommandEnds => IInv'
<1> SUFFICES ASSUME CommandInv, GateInv, CommandEnds PROVE IInv'
  BY DEF IInv
<1>1. /\ at \in {"up", "checks"} /\ Outlives
      /\ records' = [records EXCEPT ![at] = CommandVerdict]
      /\ cancelled' = (cancelled \/ outcome.cancelled)
      /\ UNCHANGED <<kind, aborted, blocked, row>>
  BY DEF CommandEnds, Recorded
<1>2. InCommand /\ kind = "runtime" /\ row # "DONE"
  BY <1>1 DEF InCommand, CommandStages, GateInv, OwnStages, RuntimeStages
<1>3. SurvivorsKnown' /\ left' \in SUBSET [stage : CommandStages, deaf : BOOLEAN, away : BOOLEAN,
                         late : BOOLEAN, killed : BOOLEAN, timer : BOOLEAN]
  BY <1>1, <1>2, OutlivesKeeps
<1>4. /\ cancelled' \in BOOLEAN /\ blocked' \in BOOLEAN /\ CommandVerdict \in Verdicts
      /\ Passed(outcome) => CommandVerdict = "PASS"
  BY <1>1 DEF CommandInv, GateInv, CommandVerdict, Verdicts, Passed
<1>5. /\ records' \in [Stages -> Verdicts] /\ records'[at] = CommandVerdict
      /\ \A s \in Stages \ {at} : records'[s] = records[s]
  BY <1>1, <1>4 DEF GateInv, Stages
<1>6. at = "checks" => check \in 1..Checks
  BY DEF GateInv, OwnStages
<1>7. Checks = 0 => records'["checks"] = "none"
  BY <1>1, <1>5, <1>6, GateAssumption DEF GateInv, OwnStages, Stages
<1>8. CASE ~Passed(outcome)
  <2>1. ToDown(TRUE) /\ check' = check
    BY <1>8 DEF CommandEnds
  <2> QED BY <1>1, <1>2, <1>3, <1>4, <1>5, <1>7, <2>1, ToDownKeeps DEF GateInv
<1>9. CASE Passed(outcome) /\ at = "up"
  <2>1. at' = "health" /\ Quiet /\ UNCHANGED <<failure, check>>
    BY <1>9 DEF CommandEnds
  <2>2. CommandInv'
    BY <1>3, <2>1, QuietKeeps DEF InCommand, CommandStages
  <2>3. Seen'
    BY <1>4, <1>5, <1>9, <2>1 DEF Seen
  <2>4. OwnStages' /\ PassMeansObserved' /\ DownBeforeEnd'
    BY <1>1, <1>2, <1>7, <2>1 DEF OwnStages, PassMeansObserved, DownBeforeEnd, Ended, RuntimeStages
  <2>5. GateInv'
    BY <1>1, <1>4, <1>5, <2>1, <2>3, <2>4 DEF GateInv
  <2> QED BY <2>2, <2>5 DEF IInv
<1>10. CASE Passed(outcome) /\ at = "checks"
  <2>1. /\ check' = check + 1 /\ failure' = failure
        /\ IF check < Checks THEN SpawnAt("checks", aborted) ELSE at' = "verifier" /\ Quiet
    BY <1>10 DEF CommandEnds
  <2>2. /\ records'["up"] = "PASS" /\ records'["health"] = "PASS" /\ records'["checks"] = "PASS"
        /\ check \in 1..Checks /\ Checks # 0 /\ check' \in 0..(Checks + 1)
    BY <1>4, <1>5, <1>6, <1>10, <2>1, GateAssumption DEF GateInv, Seen, Stages
  <2>3. CASE check < Checks
    <3>1. CommandInv' /\ at' = "checks"
      BY <1>3, <2>1, <2>3, SpawnKeeps DEF GateInv, CommandStages
    <3>2. check' \in 1..Checks
      BY <2>1, <2>2, <2>3, GateAssumption
    <3>3. Seen' /\ OwnStages' /\ PassMeansObserved' /\ DownBeforeEnd'
      BY <1>1, <1>2, <1>7, <2>2, <3>1, <3>2 DEF Seen, OwnStages, PassMeansObserved, DownBeforeEnd, Ended, RuntimeStages
    <3>4. GateInv'
      BY <1>1, <1>4, <1>5, <2>1, <2>2, <3>1, <3>3 DEF GateInv, CommandStages
    <3> QED BY <3>1, <3>4 DEF IInv
  <2>4. CASE ~(check < Checks)
    <3>1. at' = "verifier" /\ Quiet
      BY <2>1, <2>4
    <3>2. CommandInv'
      BY <1>3, <3>1, QuietKeeps DEF InCommand, CommandStages
    <3>3. Seen' /\ OwnStages' /\ PassMeansObserved' /\ DownBeforeEnd'
      BY <1>1, <1>2, <1>7, <2>2, <3>1 DEF Seen, ChecksPassed, OwnStages, PassMeansObserved, DownBeforeEnd, Ended, RuntimeStages
    <3>4. GateInv'
      BY <1>1, <1>4, <1>5, <2>1, <2>2, <3>1, <3>3 DEF GateInv
    <3> QED BY <3>2, <3>4 DEF IInv
  <2> QED BY <2>3, <2>4
<1> QED BY <1>1, <1>8, <1>9, <1>10

LEMMA HealthEndsInv == IInv /\ HealthEnds => IInv'
<1> SUFFICES ASSUME CommandInv, GateInv, HealthEnds PROVE IInv'
  BY DEF IInv
<1>1. /\ at = "health" /\ check' = 1 /\ UNCHANGED <<kind, aborted, blocked, row, left>>
  BY DEF HealthEnds
<1>2. kind = "runtime" /\ row # "DONE" /\ check' \in 0..(Checks + 1)
  BY <1>1, GateAssumption DEF GateInv, OwnStages, RuntimeStages
<1>3. SurvivorsKnown' /\ left' \in SUBSET [stage : CommandStages, deaf : BOOLEAN, away : BOOLEAN,
                         late : BOOLEAN, killed : BOOLEAN, timer : BOOLEAN]
  BY <1>1, KnownKept
<1>4. ASSUME NEW verdict \in {"PASS", "BLOCKED", "FAIL"}, Recorded("health", verdict)
      PROVE /\ records' \in [Stages -> Verdicts] /\ records'["health"] = verdict
            /\ \A s \in Stages \ {"health"} : records'[s] = records[s]
            /\ Checks = 0 => records'["checks"] = "none"
  BY <1>4 DEF GateInv, OwnStages, Recorded, Stages, Verdicts
<1>5. CASE Recorded("health", "PASS") /\ aborted /\ ToDown(FALSE) /\ cancelled' = TRUE
  BY <1>1, <1>2, <1>3, <1>4, <1>5, ToDownKeeps DEF GateInv
<1>6. CASE /\ Recorded("health", "PASS") /\ ~aborted /\ UNCHANGED <<failure, cancelled>>
           /\ Checks > 0 /\ SpawnAt("checks", FALSE)
  <2>1. CommandInv' /\ at' = "checks"
    BY <1>3, <1>6, SpawnKeeps DEF CommandStages
  <2>2. check' \in 1..Checks
    BY <1>1, <1>6, GateAssumption
  <2>3. Seen' /\ OwnStages' /\ PassMeansObserved' /\ DownBeforeEnd'
    BY <1>1, <1>2, <1>4, <1>6, <2>1, <2>2 DEF GateInv, Seen, OwnStages, PassMeansObserved, DownBeforeEnd, Ended, RuntimeStages, Stages
  <2>4. GateInv'
    BY <1>1, <1>2, <1>4, <1>6, <2>1, <2>3 DEF GateInv, CommandStages
  <2> QED BY <2>1, <2>4 DEF IInv
<1>7. CASE /\ Recorded("health", "PASS") /\ ~aborted /\ UNCHANGED <<failure, cancelled>>
           /\ ~(Checks > 0) /\ at' = "verifier" /\ Quiet
  <2>1. CommandInv'
    BY <1>3, <1>7, QuietKeeps DEF InCommand, CommandStages
  <2>2. Checks = 0
    BY <1>7, GateAssumption
  <2>3. Seen' /\ OwnStages' /\ PassMeansObserved' /\ DownBeforeEnd'
    BY <1>1, <1>2, <1>4, <1>7, <2>2 DEF GateInv, Seen, ChecksPassed, OwnStages, PassMeansObserved, DownBeforeEnd, Ended, RuntimeStages, Stages
  <2>4. GateInv'
    BY <1>1, <1>2, <1>4, <1>7, <2>3 DEF GateInv
  <2> QED BY <2>1, <2>4 DEF IInv
<1>8. CASE /\ Recorded("health", IF aborted THEN "BLOCKED" ELSE "FAIL")
           /\ cancelled' = (cancelled \/ aborted) /\ ToDown(TRUE)
  <2>1. cancelled' \in BOOLEAN
    BY <1>8 DEF GateInv
  <2>2. /\ records' \in [Stages -> Verdicts]
        /\ Checks = 0 => records'["checks"] = "none"
    BY <1>4, <1>8
  <2> QED BY <1>1, <1>2, <1>3, <1>8, <2>1, <2>2, ToDownKeeps DEF GateInv
<1> QED BY <1>5, <1>6, <1>7, <1>8 DEF HealthEnds

LEMMA VerifierEndsInv == IInv /\ VerifierEnds => IInv'
<1> SUFFICES ASSUME CommandInv, GateInv, VerifierEnds PROVE IInv'
  BY DEF IInv
<1>1. at = "verifier" /\ UNCHANGED <<kind, check, aborted, row, left>>
  BY DEF VerifierEnds
<1>2. kind = "runtime" /\ row # "DONE" /\ check' \in 0..(Checks + 1)
  BY <1>1 DEF GateInv, OwnStages, RuntimeStages
<1>3. SurvivorsKnown' /\ left' \in SUBSET [stage : CommandStages, deaf : BOOLEAN, away : BOOLEAN,
                         late : BOOLEAN, killed : BOOLEAN, timer : BOOLEAN]
  BY <1>1, KnownKept
<1>4. /\ records["up"] = "PASS" /\ records["health"] = "PASS" /\ ChecksPassed
      /\ Checks = 0 => records["checks"] = "none"
      /\ records \in [Stages -> Verdicts] /\ cancelled \in BOOLEAN /\ aborted \in BOOLEAN
      /\ blocked \in BOOLEAN
  BY <1>1 DEF GateInv, Seen, OwnStages
<1>5. ASSUME NEW v \in VerifierAnswers,
             Recorded("verifier", IF Fits(v) THEN "PASS" ELSE IF CouldNot(v) THEN "BLOCKED" ELSE "FAIL"),
             cancelled' = (cancelled \/ (v.status # "thrown" /\ (aborted \/ v.status = "CANCELLED"))),
             blocked' = CouldNot(v), ToDown(~Fits(v))
      PROVE IInv'
  <2>1. Fits(v) \in BOOLEAN /\ CouldNot(v) \in BOOLEAN
    BY DEF Fits, CouldNot, VerifierAnswers
  <2>2. cancelled' \in BOOLEAN /\ blocked' \in BOOLEAN
    BY <1>4, <1>5, <2>1
  <2>3. /\ records' \in [Stages -> Verdicts] /\ records'["checks"] = records["checks"]
        /\ records'["up"] = "PASS" /\ records'["health"] = "PASS"
        /\ Fits(v) => records'["verifier"] = "PASS"
    BY <1>4, <1>5 DEF Recorded, Stages, Verdicts
  <2>4. ChecksPassed'
    BY <1>4, <2>3 DEF ChecksPassed
  <2> QED BY <1>1, <1>2, <1>3, <1>4, <1>5, <2>1, <2>2, <2>3, <2>4, ToDownKeeps
<1>6. ASSUME UNCHANGED <<records, blocked>>, cancelled' = (cancelled \/ aborted),
             NEW fails \in BOOLEAN, ToDown(fails), fails \/ aborted
      PROVE IInv'
  <2>1. cancelled' \in BOOLEAN
    BY <1>4, <1>6
  <2> QED BY <1>1, <1>2, <1>3, <1>4, <1>6, <2>1, ToDownKeeps
<1> QED BY <1>5, <1>6 DEF VerifierEnds

LEMMA DownEndsInv == IInv /\ DownEnds => IInv'
<1> SUFFICES ASSUME CommandInv, GateInv, DownEnds PROVE IInv'
  BY DEF IInv
<1>1. /\ at = "down" /\ at' = "evidence" /\ Outlives /\ Quiet
      /\ records' = [records EXCEPT !["down"] = CommandVerdict]
      /\ failure' = (failure \/ ~Passed(outcome))
      /\ UNCHANGED <<kind, check, aborted, cancelled, blocked, row>>
  BY DEF DownEnds, Recorded
<1>2. InCommand /\ ~InCommand'
  BY <1>1 DEF InCommand, CommandStages
<1>3. CommandInv'
  BY <1>1, <1>2, OutlivesKeeps, QuietKeeps
<1>4. /\ CommandVerdict \in {"PASS", "FAIL"} /\ CommandVerdict \in Verdicts /\ Passed(outcome) \in BOOLEAN
      /\ Passed(outcome) => CommandVerdict = "PASS"
  BY <1>1 DEF CommandInv, GateInv, Seen, CommandVerdict, Verdicts, Passed
<1>5. /\ records' \in [Stages -> Verdicts] /\ records'["down"] = CommandVerdict
      /\ \A s \in Stages \ {"down"} : records'[s] = records[s]
  BY <1>1, <1>4 DEF GateInv, Stages
<1>6. failure' \in BOOLEAN /\ (~failure' => ~failure /\ Passed(outcome))
  BY <1>1, <1>4 DEF GateInv
<1>7. kind = "runtime" /\ row # "DONE"
  BY <1>1 DEF GateInv, OwnStages, RuntimeStages
<1>8. Seen'
  BY <1>1, <1>4, <1>5, <1>6 DEF GateInv, Seen, ChecksPassed, Stages
<1>9. OwnStages' /\ PassMeansObserved' /\ DownBeforeEnd'
  BY <1>1, <1>5, <1>7 DEF GateInv, OwnStages, PassMeansObserved, DownBeforeEnd, Ended, RuntimeStages, Stages
<1>10. GateInv'
  BY <1>1, <1>5, <1>6, <1>8, <1>9 DEF GateInv
<1> QED BY <1>3, <1>10 DEF IInv

LEMMA RuntimeEndsInv == IInv /\ RuntimeEnds => IInv'
<1> SUFFICES ASSUME CommandInv, GateInv, RuntimeEnds PROVE IInv'
  BY DEF IInv
<1>1. /\ at = "evidence" /\ at' = "over" /\ Quiet
      /\ cancelled' = (cancelled \/ aborted)
      /\ \E written \in BOOLEAN : failure' = (failure \/ ~written \/ cancelled')
      /\ row' = IF failure' \/ cancelled' \/ blocked THEN "FAILED" ELSE "DONE"
      /\ UNCHANGED <<kind, check, aborted, records, blocked, left>>
  BY DEF RuntimeEnds
<1>2. CommandInv'
  BY <1>1, KnownKept, QuietKeeps DEF InCommand, CommandStages
<1>3. /\ failure \in BOOLEAN /\ cancelled \in BOOLEAN /\ aborted \in BOOLEAN /\ blocked \in BOOLEAN
  BY DEF GateInv
<1>4. cancelled' \in BOOLEAN /\ failure' \in BOOLEAN
  BY <1>1, <1>3
<1>5. row' = "DONE" => ~failure /\ ~cancelled /\ ~blocked /\ ~aborted
  BY <1>1, <1>3
<1>6. /\ kind = "runtime" /\ records["down"] # "none"
      /\ ~failure => records["down"] = "PASS"
      /\ ~failure /\ ~cancelled /\ ~blocked =>
            /\ records["up"] = "PASS" /\ records["health"] = "PASS" /\ ChecksPassed
            /\ records["verifier"] = "PASS"
  BY <1>1 DEF GateInv, OwnStages, Seen, RuntimeStages
<1>7. PassMeansObserved'
  BY <1>1, <1>5, <1>6 DEF PassMeansObserved, ChecksPassed, Stages
<1>8. DownBeforeEnd' /\ OwnStages' /\ Seen'
  BY <1>1, <1>6 DEF GateInv, DownBeforeEnd, OwnStages, Seen, RuntimeStages
<1>9. GateInv'
  BY <1>1, <1>4, <1>7, <1>8 DEF GateInv
<1> QED BY <1>2, <1>9 DEF IInv

LEMMA StutterInv == IInv /\ UNCHANGED vars => IInv'
<1> SUFFICES ASSUME CommandInv, GateInv, UNCHANGED vars PROVE IInv'
  BY DEF IInv
<1>1. UNCHANGED <<kind, at, check, aborted, proc, timers, outcome, records, failure, cancelled, blocked, row, left>>
  BY DEF vars
<1>2. CommandInv'
  BY <1>1 DEF CommandInv, SurvivorsKnown, KillPending, Killed, InCommand, BeingKilled, Group, Alive
<1>3. GateInv'
  BY <1>1, GateKeeps
<1> QED BY <1>2, <1>3 DEF IInv

-----------------------------------------------------------------------------
(* What a gate promises. *)

\* Along every run of a gate: what it has behind it was seen, and of a command that is
\* being killed only what is deaf, has left or came late is still alive.
THEOREM GateInvariance == Spec => []IInv
<1>1. IInv /\ [Next]_vars => IInv'
  BY BeginInv, TimeoutFiresInv, KillTimerFiresInv, ShellStartsInv, ShellExitsInv, StartedExitsInv,
     VerifyEndsInv, CommandEndsInv, HealthEndsInv, VerifierEndsInv, DownEndsInv, RuntimeEndsInv,
     LateKillInv, AbortInv, StutterInv DEF Next, GateStep
<1> QED BY <1>1, InitInv, PTL DEF Spec

\* A gate that passed has seen it, its service was brought down before it ended and no
\* cancellation cut that short, and a process that outlives a killed command is deaf, has left
\* the group or was started late.
THEOREM GateSound == Spec => []GateInvariant
<1> QED BY GateInvariance, PartsSuffice, PTL
=============================================================================
