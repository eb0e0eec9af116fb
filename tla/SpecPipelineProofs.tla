------------------------- MODULE SpecPipelineProofs -------------------------
(***************************************************************************)
(* Proofs about SpecPipeline and SpecRecovery, for any options of a run,   *)
(* any number of restarts and any edits between them.                      *)
(*                                                                         *)
(* BudgetInvariant: every agent call is paid for, so that the safety cap   *)
(* of the loop is never reached.                                           *)
(*                                                                         *)
(* PathInvariant: what a run has established at each place it can be at;   *)
(* from it the verdicts, the freshness of what agents read, the intact     *)
(* files and the gates of what is delivered, the role boundary, and that   *)
(* the workflow implements GatedDelivery.                                  *)
(*                                                                         *)
(* RestartInvariant: the budget of a run whose process dies, and what its  *)
(* checkpoint says of the piece of work under way; beside it Owing, where  *)
(* an answer is that no step has taken, and Remembered, where the reason   *)
(* of a rework is.                                                         *)
(***************************************************************************)
EXTENDS SpecRecovery, TLAPS

-----------------------------------------------------------------------------
(* The inductive invariant. *)

\* A state of the workflow inside the limits of its options.
Sound(m) == m \in Memories /\ m.routes <= opts.maxRoutes /\ m.rounds <= opts.clarifyRounds

\* The cursor, the routes and the rounds of m, and k restarts, pay for its calls and for n more.
Paid(k, m, n) == m.executed + n <= 6 * m.routes + m.rounds + m.cursor + k

Unentered == {"head", "step", "baselining"}

\* The answer that is looked at is one, and the reproduction command runs on a verdict of the test.
Ended == {"DONE", "FAILED", "BLOCKED", "CANCELLED"}
Judged == {"pass"} \cup RouteTargets

AnswersHeld ==
    /\ run.pc = "answered" => run.answer.status \in Ended
    /\ run.pc = "reproducing" => run.answer.out \in Judged
    /\ run.recovered = NoAnswer \/ run.recovered.status \in Ended

\* What the loop keeps of its own variables, and the types of the others.
LoopHeld ==
    /\ Sound(mem)
    /\ run \in Controls
    /\ run.pc \in InLoop => mem.cursor <= 6
    /\ AnswersHeld

Surroundings ==
    /\ opts \in Options
    /\ ckpt.mem \in Memories
    /\ child \in Answers
    /\ work \in Workspaces
    /\ aborted \in BOOLEAN
    /\ row \in Rows

\* A step about to call its agent is below the loop's safety cap of 6 * (maxRoutes + 2) calls plus
\* the clarification rounds: the rework budget ends a run of spec.ts before its cap can.
CapUnreached == run.pc = "step" => Counted.executed < Cap

BudgetInvariant == LoopHeld /\ Surroundings /\ CapUnreached

\* Its calls are paid for, and so are those of the state that a restart would go on from.
LoopPaid(k) == LoopHeld /\ Paid(k, mem, IF run.pc \in Unentered THEN 1 ELSE 0)
Backed(k, m) == Sound(m) /\ Paid(k, m, 0)
Budgeted(k) == LoopPaid(k) /\ Surroundings /\ Backed(k, ckpt.mem)

-----------------------------------------------------------------------------
(* The helpers of the loop. *)

LEMMA StepsAre == Steps = {"clarifier", "planner", "scaffold", "test", "review", "cicd"}
  BY DEF Steps, Index

LEMMA OptionFields ==
  ASSUME NEW o \in Options
  PROVE o.maxRoutes \in Nat /\ o.clarifyRounds \in Nat
  BY OptionsAssumption DEF OptionSet

LEMMA MemoryFields ==
  ASSUME NEW m \in Memories
  PROVE /\ m.cursor \in 1..7 /\ m.executed \in Nat /\ m.routes \in Nat /\ m.rounds \in Nat
        /\ m.violations \in Nat /\ m.feedback \in Sources /\ m.results \in ResultSets /\ m.evidence \in EvidenceSets
  BY DEF Memories

LEMMA ControlFields ==
  ASSUME run \in Controls
  PROVE /\ run.pc \in Places /\ run.verdict \in Verdicts /\ run.failure \in BOOLEAN
        /\ run.answer \in Answers /\ run.recovered \in Answers
  BY DEF Controls

\* A rework keeps the memory typed.
LEMMA RoutedTyped ==
  ASSUME NEW m \in Memories, NEW target \in RouteTargets, NEW source \in Sources
  PROVE Routed(m, target, source) \in Memories
<1> DEFINE left == IF target = "clarifier" THEN m.results \ (Steps \cup {"verify"}) ELSE m.results \cap {"clarifier"}
<1> DEFINE shown == IF target = "planner" THEN {} ELSE m.evidence
<1>1. left \in ResultSets
  BY MemoryFields DEF ResultSets
<1>2. shown \in EvidenceSets
  BY MemoryFields DEF EvidenceSets
<1>3. Index[target] \in 1..7
  BY DEF Index, RouteTargets
<1>4. m.routes + 1 \in Nat
  BY MemoryFields
<1> HIDE DEF left, shown
<1>5. ASSUME NEW i \in 1..7, NEW r \in Nat
      PROVE [m EXCEPT !.routes = r, !.feedback = source, !.results = left, !.evidence = shown,
                      !.cursor = i] \in Memories
  BY <1>1, <1>2 DEF Memories
<1>6. [m EXCEPT !.routes = m.routes + 1, !.feedback = source, !.results = left, !.evidence = shown,
                !.cursor = Index[target]] \in Memories
  BY <1>3, <1>4, <1>5
<1> QED BY <1>6 DEF Routed, left, shown

\* A rework pays for the calls up to the next one of its step: a pass through the loop makes six.
LEMMA RoutedPaid ==
  ASSUME NEW k \in Nat, NEW m \in Memories, NEW target \in RouteTargets, NEW source \in Sources, m.cursor <= 6, Paid(k, m, 0)
  PROVE /\ Paid(k, Routed(m, target, source), 1)
        /\ Routed(m, target, source).routes = m.routes + 1
        /\ Routed(m, target, source).rounds = m.rounds
<1> DEFINE n == Routed(m, target, source)
<1>1. n.routes = m.routes + 1 /\ n.rounds = m.rounds /\ n.executed = m.executed /\ n.cursor = Index[target]
  BY DEF Routed, Memories
<1>2. Index[target] \in Nat /\ Index[target] >= 1
  BY DEF Index, RouteTargets
<1> HIDE DEF n
<1>3. m.executed + 1 <= 6 * (m.routes + 1) + m.rounds + Index[target] + k
  BY <1>2, MemoryFields DEF Paid
<1> QED BY <1>1, <1>3 DEF Paid, n

LEMMA MovedOn ==
  ASSUME NEW k \in Nat, NEW m, Sound(m), m.cursor <= 6
  PROVE LET n == [m EXCEPT !.cursor = @ + 1] IN Sound(n) /\ (Paid(k, m, 0) => Paid(k, n, 1))
  BY MemoryFields DEF Sound, Memories, Paid

-----------------------------------------------------------------------------
(* Every way on from a point of the loop keeps what the loop keeps. *)

LEMMA GotoHeld ==
  ASSUME NEW k \in Nat, LoopPaid(k), opts' = opts, NEW m, Sound(m), NEW pc \in Places, pc \in InLoop => m.cursor <= 6,
         pc # "answered", pc = "reproducing" => run.answer.out \in Judged,
         Paid(k, m, IF pc \in Unentered THEN 1 ELSE 0), Goto(m, pc)
  PROVE LoopPaid(k)'
<1>1. /\ run' \in Controls /\ run'.pc = pc
      /\ run'.answer = run.answer /\ run'.recovered = run.recovered
  BY DEF Goto, LoopPaid, LoopHeld, Controls
<1>2. mem' = m
  BY DEF Goto
<1> QED BY <1>1, <1>2 DEF LoopPaid, LoopHeld, AnswersHeld, Sound, Paid

LEMMA AgainHeld ==
  ASSUME NEW k \in Nat, LoopPaid(k), opts' = opts, NEW m, Sound(m), NEW v \in Verdicts, Paid(k, m, 1), Again(m, v)
  PROVE LoopPaid(k)'
<1>1. /\ run' \in Controls /\ run'.pc = "head"
      /\ run'.answer = run.answer /\ run'.recovered = run.recovered
  BY DEF Again, LoopPaid, LoopHeld, Controls, Places
<1>2. mem' = m
  BY DEF Again
<1> QED BY <1>1, <1>2 DEF LoopPaid, LoopHeld, AnswersHeld, Sound, Paid, Unentered, InLoop

LEMMA StopHeld ==
  ASSUME NEW k \in Nat, LoopPaid(k), opts' = opts, NEW m, Sound(m), NEW v \in Verdicts, NEW f \in BOOLEAN, Paid(k, m, 0), Stop(m, v, f)
  PROVE LoopPaid(k)'
<1>1. /\ run' \in Controls /\ run'.pc \in {"finish", "returned"}
      /\ run'.answer = run.answer /\ run'.recovered = run.recovered
  BY DEF Stop, LoopPaid, LoopHeld, Controls, Places
<1>2. mem' = m
  BY DEF Stop
<1> QED BY <1>1, <1>2 DEF LoopPaid, LoopHeld, AnswersHeld, Sound, Paid, Unentered, InLoop

LEMMA ThrowHeld ==
  ASSUME NEW k \in Nat, LoopPaid(k), opts' = opts, NEW m, Sound(m), Paid(k, m, 0), Throw(m)
  PROVE LoopPaid(k)'
<1>1. /\ run' \in Controls /\ run'.pc = "returned"
      /\ run'.answer = run.answer /\ run'.recovered = run.recovered
  BY DEF Throw, LoopPaid, LoopHeld, Controls, Places, Verdicts
<1>2. mem' = m
  BY DEF Throw
<1> QED BY <1>1, <1>2 DEF LoopPaid, LoopHeld, AnswersHeld, Sound, Paid, Unentered, InLoop

LEMMA RouteHeld ==
  ASSUME NEW k \in Nat, Budgeted(k), opts' = opts, NEW m, Sound(m), m.cursor <= 6, Paid(k, m, 0), NEW target \in RouteTargets,
         NEW source \in Sources, NEW carried \in Verdicts, NEW v \in Verdicts, RouteTo(m, target, source, carried, v)
  PROVE LoopPaid(k)'
<1>1. CASE CanRoute(m, target)
  <2> DEFINE n == Routed(m, target, source)
  <2>1. Again(n, carried)
    BY <1>1 DEF RouteTo
  <2>2. n \in Memories /\ Paid(k, n, 1) /\ n.routes = m.routes + 1 /\ n.rounds = m.rounds
    BY RoutedTyped, RoutedPaid DEF Sound
  <2>3. m.routes < opts.maxRoutes /\ m.routes \in Nat /\ opts.maxRoutes \in Nat
    BY <1>1, MemoryFields, OptionFields DEF CanRoute, Sound, Budgeted, Surroundings
  <2> HIDE DEF n
  <2>4. Sound(n)
    BY <2>2, <2>3 DEF Sound
  <2> QED BY <2>1, <2>2, <2>4, AgainHeld DEF Budgeted
<1>2. CASE ~CanRoute(m, target)
  BY <1>2, StopHeld DEF RouteTo, Budgeted
<1> QED BY <1>1, <1>2

LEMMA CountedViolation ==
  ASSUME NEW k \in Nat, NEW m, Sound(m)
  PROVE LET n == [m EXCEPT !.violations = @ + 1] IN
          Sound(n) /\ n.cursor = m.cursor /\ (Paid(k, m, 0) <=> Paid(k, n, 0))
  BY DEF Sound, Memories, Paid

\* An integrity issue, routed or not, and an integrity check that could not be made.
LEMMA IssueHeld ==
  ASSUME NEW k \in Nat, Budgeted(k), opts' = opts, NEW m, Sound(m), m.cursor <= 6, Paid(k, m, 0), NEW routed \in BOOLEAN,
         IntegrityIssue(m, routed)
  PROVE LoopPaid(k)' /\ Backed(k, ckpt'.mem)
<1> DEFINE n == [m EXCEPT !.violations = @ + 1]
<1>1. Sound(n) /\ n.cursor <= 6 /\ Paid(k, n, 0)
  BY CountedViolation
<1>2. ckpt' = Published(n, NoCall)
  BY DEF IntegrityIssue
<1>3. CASE routed
  <2>1. RouteTo(n, "planner", "role-boundary", run.verdict, "FAILED")
    BY <1>3 DEF IntegrityIssue
  <2>2. "planner" \in RouteTargets /\ "role-boundary" \in Sources /\ "FAILED" \in Verdicts /\ run.verdict \in Verdicts
    BY ControlFields DEF RouteTargets, Sources, Verdicts, Budgeted, LoopPaid, LoopHeld
  <2> HIDE DEF n
  <2>3. LoopPaid(k)'
    BY <1>1, <2>1, <2>2, RouteHeld
  <2> QED BY <1>1, <1>2, <2>3 DEF Published, Budgeted, Backed
<1>4. CASE ~routed
  <2>1. Stop(n, "CANCELLED", TRUE) /\ "CANCELLED" \in Verdicts
    BY <1>4 DEF IntegrityIssue, Verdicts
  <2> HIDE DEF n
  <2>2. LoopPaid(k)'
    BY <1>1, <2>1, StopHeld DEF Budgeted
  <2> QED BY <1>1, <1>2, <2>2 DEF Published, Budgeted, Backed
<1> QED BY <1>3, <1>4

\* The rework asked for at the baseline is published with what it changed.
LEMMA BaselineIssueHeld ==
  ASSUME NEW k \in Nat, Budgeted(k), opts' = opts, NEW m, Sound(m), m.cursor <= 6, Paid(k, m, 0), BaselineIssue(m)
  PROVE LoopPaid(k)' /\ Backed(k, ckpt'.mem)
<1> DEFINE n == [m EXCEPT !.violations = @ + 1]
<1>1. Sound(n) /\ n.cursor <= 6 /\ Paid(k, n, 0)
  BY CountedViolation
<1>2. RouteTo(n, "planner", "role-boundary", run.verdict, "FAILED") /\ ckpt' = Published(mem', NoCall)
  BY DEF BaselineIssue
<1>3. "planner" \in RouteTargets /\ "role-boundary" \in Sources /\ "FAILED" \in Verdicts /\ run.verdict \in Verdicts
  BY ControlFields DEF RouteTargets, Sources, Verdicts, Budgeted, LoopPaid, LoopHeld
<1> HIDE DEF n
<1>4. LoopPaid(k)'
  BY <1>1, <1>2, <1>3, RouteHeld
<1>5. Sound(mem') /\ Paid(k, mem', 0)
  BY <1>4, MemoryFields DEF LoopPaid, LoopHeld, Sound, Paid
<1> QED BY <1>2, <1>4, <1>5 DEF Published, Budgeted, Backed

LEMMA UnknownHeld ==
  ASSUME NEW k \in Nat, Budgeted(k), opts' = opts, NEW m, Sound(m), Paid(k, m, 0), IntegrityUnknown(m)
  PROVE LoopPaid(k)' /\ ckpt' = ckpt
  BY StopHeld DEF IntegrityUnknown, Budgeted, Verdicts

LEMMA PassHeld ==
  ASSUME NEW k \in Nat, Budgeted(k), opts' = opts, NEW m, Sound(m), m.cursor <= 6, Paid(k, m, 0),
         NEW g \in {"start", "verify", "runtime"}, PassGate(m, g)
  PROVE LoopPaid(k)'
<1>1. GateAfter(g) \in {"verify", "runtime", "end"}
  BY DEF GateAfter
<1>2. CASE GateAfter(g) # "end"
  <2>1. Goto(m, GateAfter(g))
    BY <1>2 DEF PassGate
  <2>2. GateAfter(g) \in Places /\ GateAfter(g) \notin Unentered \cup {"answered", "reproducing"}
    BY <1>1, <1>2 DEF Places, Unentered
  <2> QED BY <2>1, <2>2, GotoHeld DEF Budgeted
<1>3. CASE GateAfter(g) = "end" /\ run.team = "no"
  <2> DEFINE n == [m EXCEPT !.cursor = @ + 1]
  <2>1. Again(n, run.verdict)
    BY <1>3 DEF PassGate
  <2>2. Sound(n) /\ Paid(k, n, 1)
    BY MovedOn
  <2> HIDE DEF n
  <2> QED BY <2>1, <2>2, AgainHeld, ControlFields DEF Budgeted, LoopPaid, LoopHeld
<1>4. CASE GateAfter(g) = "end" /\ run.team # "no"
  <2>1. Goto(m, "reviews") /\ "reviews" \in Places /\ "reviews" \notin Unentered
    BY <1>4 DEF PassGate, Places, Unentered
  <2> QED BY <2>1, GotoHeld DEF Budgeted
<1> QED BY <1>2, <1>3, <1>4

-----------------------------------------------------------------------------
(* Every action keeps what the loop keeps, and the checkpoint's memory typed. *)

Kept(k) == LoopPaid(k)' /\ Backed(k, ckpt'.mem)

LEMMA PublishedTyped ==
  ASSUME NEW k \in Nat, Budgeted(k), NEW m, Sound(m), Paid(k, m, 0), NEW call, ckpt' = Published(m, call)
  PROVE Backed(k, ckpt'.mem)
  BY DEF Published, Budgeted, Backed

LEMMA Here ==
  ASSUME NEW k \in Nat, Budgeted(k)
  PROVE /\ Sound(mem) /\ Paid(k, mem, 0)
        /\ run.pc \in InLoop => mem.cursor <= 6
        /\ run.pc \in Unentered => Paid(k, mem, 1)
  BY MemoryFields DEF Budgeted, LoopPaid, LoopHeld, Sound, Paid

\* A result that is added changes nothing of the accounts.
LEMMA ResultAdded ==
  ASSUME NEW k \in Nat, NEW m, Sound(m), NEW r \in Steps \cup {"verify-baseline", "verify", "repro", "team"}
  PROVE LET n == [m EXCEPT !.results = @ \cup {r}] IN
          Sound(n) /\ n.cursor = m.cursor /\ \A j \in {0, 1} : Paid(k, m, j) <=> Paid(k, n, j)
<1>1. m.results \cup {r} \in ResultSets
  BY MemoryFields DEF ResultSets, Sound
<1> QED BY <1>1 DEF Sound, Memories, Paid

LEMMA ConsumedTyped ==
  ASSUME LoopHeld, run.pc = "answered"
  PROVE /\ mem.cursor \in 1..6 /\ Step \in Steps
        /\ Sound(Consumed) /\ Consumed.cursor = mem.cursor /\ Consumed.executed = mem.executed
        /\ Consumed.routes = mem.routes /\ Consumed.rounds = mem.rounds
<1>1. mem.cursor \in 1..6 /\ Sound(mem)
  BY MemoryFields DEF LoopHeld, InLoop, Places, Sound
<1>2. Step \in Steps
  BY <1>1, StepsAre DEF STEP_ORDER, Step
<1>3. mem.results \cup {Step} \in ResultSets /\ "none" \in Sources
  BY <1>1, <1>2, MemoryFields DEF ResultSets, Sources, Sound
<1> HIDE DEF Step
<1> QED BY <1>1, <1>2, <1>3 DEF Consumed, Sound, Memories

LEMMA ConsumedHeld ==
  ASSUME NEW k \in Nat, Budgeted(k), run.pc = "answered"
  PROVE Step \in Steps /\ Sound(Consumed) /\ Paid(k, Consumed, 0) /\ Consumed.cursor = mem.cursor /\ mem.cursor <= 6
<1>1. Paid(k, mem, 0) /\ LoopHeld
  BY Here DEF Budgeted, LoopPaid
<1> QED BY <1>1, ConsumedTyped DEF Paid

LEMMA LoopHeadStep == ASSUME NEW k \in Nat PROVE Budgeted(k) /\ LoopHead => Kept(k)
<1> SUFFICES ASSUME Budgeted(k), LoopHead PROVE Kept(k)
  OBVIOUS
<1>1. Sound(mem) /\ run.pc = "head" /\ opts' = opts /\ ckpt' = ckpt /\ Paid(k, mem, 1) /\ Paid(k, mem, 0) /\ LoopPaid(k)
  BY Here DEF LoopHead, CancelAtHead, SkipStep, EnterStep, LeaveLoop, At, Unentered, Budgeted
<1>2. Backed(k, ckpt'.mem)
  BY <1>1 DEF Budgeted, Surroundings
<1>3. CASE CancelAtHead
  BY <1>1, <1>2, <1>3, StopHeld DEF CancelAtHead, Verdicts, Kept
<1>4. CASE SkipStep
  <2>1. Sound([mem EXCEPT !.cursor = @ + 1]) /\ Paid(k, [mem EXCEPT !.cursor = @ + 1], 1)
    BY <1>1, <1>4, MovedOn DEF SkipStep
  <2> QED BY <1>1, <1>2, <1>4, <2>1, AgainHeld, ControlFields DEF SkipStep, Kept, LoopPaid, LoopHeld
<1>5. CASE EnterStep
  BY <1>1, <1>2, <1>5, GotoHeld DEF EnterStep, Places, Unentered, Kept
<1>6. CASE LeaveLoop
  BY <1>1, <1>2, <1>6, GotoHeld DEF LeaveLoop, Places, Unentered, InLoop, Kept
<1> QED BY <1>3, <1>4, <1>5, <1>6 DEF LoopHead

LEMMA BaselineStep == ASSUME NEW k \in Nat PROVE Budgeted(k) /\ Baseline => Kept(k)
<1> SUFFICES ASSUME Budgeted(k), Baseline PROVE Kept(k)
  OBVIOUS
<1>1. /\ Sound(mem) /\ run.pc \in {"step", "baselining"} /\ opts' = opts /\ Paid(k, mem, 1) /\ Paid(k, mem, 0)
      /\ LoopPaid(k) /\ mem.cursor <= 6 /\ Backed(k, ckpt.mem)
  BY Here DEF Baseline, CaptureFails, CaptureBaseline, BaselineEnds, At, Unentered, InLoop, Places, Budgeted, Surroundings
<1>2. CASE CaptureFails
  BY <1>1, <1>2, StopHeld DEF CaptureFails, Verdicts, Kept
<1>3. CASE CaptureBaseline
  <2> DEFINE m == [mem EXCEPT !.baseline = TRUE]
  <2>1. Sound(m) /\ Paid(k, m, 1) /\ Paid(k, m, 0) /\ m.cursor <= 6
    BY <1>1 DEF Sound, Paid, Memories
  <2>2. PICK pc \in {"baselining", "step"} : Goto(m, pc) /\ \E call : ckpt' = Published(m, call)
    BY <1>3 DEF CaptureBaseline
  <2> HIDE DEF m
  <2> QED BY <1>1, <2>1, <2>2, GotoHeld, PublishedTyped DEF Places, Unentered, Kept
<1>4. CASE BaselineEnds
  <2> DEFINE m == [mem EXCEPT !.results = @ \cup {"verify-baseline"}]
  <2>1. Sound(m) /\ Paid(k, m, 1) /\ Paid(k, m, 0) /\ m.cursor <= 6
    BY <1>1, ResultAdded
  <2>2. \/ Stop(m, "CANCELLED", FALSE) /\ UNCHANGED ckpt
        \/ Throw(m) /\ UNCHANGED ckpt
        \/ BaselineIssue(m)
        \/ Stop(m, "BLOCKED", TRUE) /\ UNCHANGED ckpt
        \/ Goto(m, "step") /\ ckpt' = Published(m, NoCall)
    BY <1>4 DEF BaselineEnds
  <2> HIDE DEF m
  <2>3. CASE Stop(m, "CANCELLED", FALSE) /\ UNCHANGED ckpt
    BY <1>1, <2>1, <2>3, StopHeld DEF Verdicts, Kept
  <2>4. CASE Throw(m) /\ UNCHANGED ckpt
    BY <1>1, <2>1, <2>4, ThrowHeld DEF Kept
  <2>5. CASE BaselineIssue(m)
    BY <1>1, <2>1, <2>5, BaselineIssueHeld DEF Kept
  <2>6. CASE Stop(m, "BLOCKED", TRUE) /\ UNCHANGED ckpt
    BY <1>1, <2>1, <2>6, StopHeld DEF Verdicts, Kept
  <2>7. CASE Goto(m, "step") /\ ckpt' = Published(m, NoCall)
    BY <1>1, <2>1, <2>7, GotoHeld, PublishedTyped DEF Places, Unentered, Kept
  <2> QED BY <2>2, <2>3, <2>4, <2>5, <2>6, <2>7
<1> QED BY <1>2, <1>3, <1>4 DEF Baseline

LEMMA CountedHeld ==
  ASSUME NEW k \in Nat, Budgeted(k), run.pc = "step"
  PROVE Sound(Counted) /\ Paid(k, Counted, 0) /\ Counted.cursor = mem.cursor
<1>1. Sound(mem) /\ Paid(k, mem, 1) /\ Paid(k, mem, 0)
  BY Here DEF Unentered
<1> QED BY <1>1 DEF Counted, Sound, Paid, Memories

LEMMA InstructedHeld ==
  ASSUME NEW k \in Nat, NEW m, Sound(m), NEW b
  PROVE LET n == [m EXCEPT !.instructed = @ \/ b] IN
          Sound(n) /\ (Paid(k, m, 0) => Paid(k, n, 0)) /\ n.cursor = m.cursor /\ n.executed = m.executed
<1>1. (m.instructed \/ b) \in BOOLEAN
  OBVIOUS
<1> DEFINE c == m.instructed \/ b
<1> HIDE DEF c
<1>2. ASSUME NEW d \in BOOLEAN
      PROVE LET n == [m EXCEPT !.instructed = d] IN
              Sound(n) /\ (Paid(k, m, 0) => Paid(k, n, 0)) /\ n.cursor = m.cursor /\ n.executed = m.executed
  BY DEF Sound, Memories, Paid
<1> QED BY <1>1, <1>2

LEMMA StartHeld == ASSUME NEW k \in Nat PROVE Budgeted(k) /\ StartStep => Kept(k)
<1> SUFFICES ASSUME Budgeted(k), StartStep PROVE Kept(k)
  OBVIOUS
<1> DEFINE m == [Counted EXCEPT !.instructed = @ \/ opts.instruction]
           recovered == Resumed /\ run.recovered # NoAnswer
<1>1. /\ run.pc = "step" /\ mem.cursor \in 1..6 /\ opts' = opts /\ run \in Controls /\ LoopPaid(k) /\ Backed(k, ckpt.mem)
  BY Here, MemoryFields DEF StartStep, StepAllowed, StepReady, At, InLoop, Places, Budgeted, LoopPaid, LoopHeld, Surroundings, Sound
<1>2. Sound(Counted) /\ Paid(k, Counted, 0) /\ Counted.cursor = mem.cursor
  BY <1>1, CountedHeld
<1>3. Sound(m) /\ Paid(k, m, 0) /\ m.cursor = mem.cursor
  BY <1>2, InstructedHeld
<1>4. m.executed \in Nat /\ Cap \in Nat
  <2> HIDE DEF m
  <2>1. opts.maxRoutes \in Nat /\ opts.clarifyRounds \in Nat
    BY OptionFields DEF Budgeted, Surroundings
  <2> QED BY <1>3, <2>1, MemoryFields DEF Cap, Sound
<1>5. ASSUME run' \in Controls, run'.pc \in {"answered", "calling"}, mem' = m, AnswersHeld' PROVE LoopPaid(k)'
  BY <1>1, <1>3, <1>5 DEF LoopPaid, LoopHeld, Unentered, Sound, Paid
<1>6. CASE m.executed > Cap
  <2>1. Stop(Counted, run.verdict, run.failure) /\ ckpt' = ckpt
    BY <1>6, <1>4 DEF StartStep
  <2> QED BY <1>1, <1>2, <2>1, StopHeld, ControlFields DEF Kept
<1>7. CASE m.executed <= Cap /\ recovered
  <2>1. /\ mem' = m /\ ckpt' = ckpt
        /\ run' = [run EXCEPT !.pc = "answered", !.resumes = "none", !.before = "late",
                              !.answer = run.recovered, !.recovered = NoAnswer]
    BY <1>7, <1>4 DEF StartStep
  <2>2. run' \in Controls /\ run'.pc = "answered"
    BY <1>1, <2>1, ControlFields DEF Controls, Places, NoAnswer, Answers, AllOutputs
  <2>3. AnswersHeld'
    BY <1>1, <1>7, <2>1, <2>2 DEF AnswersHeld, LoopPaid, LoopHeld, Controls
  <2> QED BY <1>1, <1>5, <2>1, <2>2, <2>3 DEF Kept
<1>8. CASE m.executed <= Cap /\ ~recovered
  <2>1. /\ mem' = m
        /\ run' = [run EXCEPT !.pc = "calling", !.answer = NoAnswer, !.before = "own",
                              !.resumes = IF Resumed THEN "none" ELSE @]
        /\ ckpt' = Published(m, [Intent("agent", Step) EXCEPT !.input = InputFor(Counted, Step)])
    BY <1>8, <1>4 DEF StartStep
  <2>2. run' \in Controls /\ run'.pc = "calling"
    <3>1. NoAnswer \in Answers /\ "calling" \in Places
      BY DEF NoAnswer, Answers, AllOutputs, Places
    <3>2. PICK r \in Steps \cup {"none"} :
            run' = [run EXCEPT !.pc = "calling", !.answer = NoAnswer, !.before = "own", !.resumes = r]
      BY <1>1, <2>1 DEF Controls
    <3> QED BY <1>1, <3>1, <3>2 DEF Controls
  <2>3. Backed(k, ckpt'.mem)
    <3> HIDE DEF m
    <3> QED BY <1>3, <2>1, PublishedTyped
  <2>4. AnswersHeld'
    BY <1>1, <2>1, <2>2 DEF AnswersHeld, LoopPaid, LoopHeld, Controls
  <2> QED BY <1>5, <2>1, <2>2, <2>3, <2>4 DEF Kept
<1> QED BY <1>4, <1>6, <1>7, <1>8

LEMMA CallStartsHeld == ASSUME NEW k \in Nat PROVE Budgeted(k) /\ CallStarts => Kept(k)
<1> SUFFICES ASSUME Budgeted(k), CallStarts PROVE Kept(k)
  OBVIOUS
<1>1. /\ run.pc = "calling" /\ Sound(mem) /\ Paid(k, mem, 0) /\ mem.cursor \in 1..6 /\ mem' = mem /\ opts' = opts
      /\ run \in Controls
  BY Here, MemoryFields DEF CallStarts, At, InLoop, Places, Sound, Budgeted, LoopPaid, LoopHeld
<1>2. PICK status \in {"RUNNING", "BLOCKED"} :
        LET started == [NoChild EXCEPT !.step = Step, !.status = status, !.current = TRUE] IN
          run' = [run EXCEPT !.pc = IF status = "RUNNING" THEN "working" ELSE "answered",
                             !.answer = IF status = "RUNNING" THEN NoAnswer ELSE started,
                             !.recovered.current = IF Step \in {"scaffold", "test"} THEN FALSE ELSE @]
  BY DEF CallStarts
<1>3. Step \in Steps
  BY <1>1, StepsAre DEF Step, STEP_ORDER
<1> DEFINE started == [NoChild EXCEPT !.step = Step, !.status = status, !.current = TRUE]
           answer == IF status = "RUNNING" THEN NoAnswer ELSE started
           pc == IF status = "RUNNING" THEN "working" ELSE "answered"
           recovered == [run.recovered EXCEPT !.current = IF Step \in {"scaffold", "test"} THEN FALSE ELSE @]
<1>4. started \in Answers /\ NoAnswer \in Answers
  <2> HIDE DEF Step
  <2> QED BY <1>3 DEF NoChild, NoAnswer, Answers, AllOutputs
<1>5. answer \in Answers
  BY <1>4
<1>6. recovered \in Answers
  BY <1>1, ControlFields DEF Answers
<1>7. pc \in Places /\ pc \in {"working", "answered"}
  BY DEF Places
<1>8. run' = [run EXCEPT !.pc = pc, !.answer = answer, !.recovered = recovered]
  BY <1>1, <1>2 DEF Controls
<1> HIDE DEF answer, pc, recovered
<1>9. run' \in Controls /\ run'.pc = pc
  BY <1>1, <1>5, <1>6, <1>7, <1>8 DEF Controls
<1>10. AnswersHeld'
  <2>1. run'.answer = answer /\ run'.recovered = recovered
    BY <1>1, <1>8 DEF Controls
  <2>2. pc = "answered" => answer.status = "BLOCKED"
    BY DEF answer, pc, NoChild, NoAnswer
  <2>3. recovered = NoAnswer \/ recovered.status \in Ended
    <3>1. CASE run.recovered = NoAnswer
      <4>1. recovered = [NoAnswer EXCEPT !.current = FALSE]
        BY <3>1 DEF recovered, NoAnswer
      <4> QED BY <4>1 DEF NoAnswer
    <3>2. CASE run.recovered.status \in Ended
      BY <1>1, <3>2, ControlFields DEF recovered, Answers
    <3> QED BY <3>1, <3>2 DEF Budgeted, LoopPaid, LoopHeld, AnswersHeld
  <2> QED BY <1>7, <1>9, <2>1, <2>2, <2>3 DEF AnswersHeld, Ended
<1>11. LoopPaid(k)'
  BY <1>1, <1>7, <1>9, <1>10 DEF LoopPaid, LoopHeld, Sound, Paid, Unentered
<1>12. Backed(k, ckpt'.mem)
  BY <1>1, PublishedTyped DEF CallStarts
<1> QED BY <1>11, <1>12 DEF Kept

LEMMA OutputsTyped == Outputs(Step) \subseteq AllOutputs
  BY OptionsAssumption DEF Outputs, AllOutputs, Plans, RouteTargets

LEMMA CallEndsHeld ==
  ASSUME NEW k \in Nat, Budgeted(k), CallEnds
  PROVE Kept(k) /\ child' \in Answers
<1>1. /\ run.pc = "working" /\ Sound(mem) /\ Paid(k, mem, 0) /\ mem.cursor <= 6 /\ mem' = mem /\ opts' = opts /\ ckpt' = ckpt
      /\ run \in Controls /\ child \in Answers /\ Backed(k, ckpt.mem)
  BY Here DEF CallEnds, At, InLoop, Places, Budgeted, LoopPaid, LoopHeld, Surroundings
<1>2. PICK status \in {"CANCELLED", "DONE", "FAILED"}, out \in AllOutputs, stray \in BOOLEAN, throws \in BOOLEAN :
        /\ child' = [child EXCEPT !.status = status, !.out = out, !.stray = stray]
        /\ run' = IF throws THEN [run EXCEPT !.pc = "returned", !.verdict = "FAILED", !.failure = TRUE]
                  ELSE [run EXCEPT !.pc = "answered", !.answer = child']
  <2>1. "none" \in AllOutputs
    BY DEF AllOutputs
  <2>2. PICK status \in IF aborted THEN {"CANCELLED"} ELSE {"DONE", "FAILED"},
             out \in Outputs(Step) \cup {"none"}, changed, tampered, stray, throws \in BOOLEAN :
               CallResult(status, out, changed, tampered, stray, throws)
    BY DEF CallEnds
  <2>3. status \in {"CANCELLED", "DONE", "FAILED"} /\ out \in AllOutputs
    BY <2>1, OutputsTyped
  <2> QED BY <2>2, <2>3 DEF CallResult
<1>3. child' \in Answers
  BY <1>1, <1>2 DEF Answers
<1>4. run' \in Controls /\ run'.pc \in {"returned", "answered"}
  BY <1>1, <1>2, <1>3 DEF Controls, Places, Verdicts
<1>5. AnswersHeld'
  <2>1. run'.recovered = run.recovered /\ (run'.pc = "answered" => run'.answer = child')
    BY <1>1, <1>2 DEF Controls
  <2>2. child'.status = status
    BY <1>1, <1>2 DEF Answers
  <2> QED BY <1>4, <2>1, <2>2 DEF AnswersHeld, Ended, Budgeted, LoopPaid, LoopHeld
<1>6. LoopPaid(k)'
  BY <1>1, <1>4, <1>5 DEF LoopPaid, LoopHeld, Sound, Paid, Unentered
<1> QED BY <1>1, <1>3, <1>6 DEF Kept

LEMMA CallStep == ASSUME NEW k \in Nat PROVE Budgeted(k) /\ Call => Kept(k)
<1> SUFFICES ASSUME Budgeted(k), Call PROVE Kept(k)
  OBVIOUS
<1>1. ASSUME run.pc = "step", opts' = opts
      PROVE Sound(mem) /\ Paid(k, mem, 1) /\ Paid(k, mem, 0) /\ mem.cursor <= 6 /\ LoopPaid(k) /\ Backed(k, ckpt.mem)
  BY <1>1, Here DEF InLoop, Places, Unentered, Budgeted, Surroundings
<1>2. CASE SkipCicd
  <2>1. run.pc = "step" /\ opts' = opts
    BY <1>2 DEF SkipCicd, StepReady, At
  <2>2. Sound([mem EXCEPT !.cursor = @ + 1]) /\ Paid(k, [mem EXCEPT !.cursor = @ + 1], 1)
    BY <1>1, <2>1, MovedOn
  <2> QED BY <1>1, <1>2, <2>1, <2>2, AgainHeld, ControlFields DEF SkipCicd, Kept, LoopPaid, LoopHeld
<1>3. CASE ReviewHeld
  <2>1. run.pc = "step" /\ opts' = opts /\ (IntegrityUnknown(mem) \/ IntegrityIssue(mem, TRUE))
    BY <1>3 DEF ReviewHeld, StepReady, At
  <2> QED BY <1>1, <2>1, UnknownHeld, IssueHeld DEF Kept
<1>4. CASE SnapshotFails
  <2>1. run.pc = "step" /\ opts' = opts /\ Stop(Counted, "BLOCKED", TRUE) /\ ckpt' = ckpt
    BY <1>4 DEF SnapshotFails, StepAllowed, StepReady, At
  <2> QED BY <1>1, <2>1, CountedHeld, StopHeld DEF Verdicts, Kept
<1>5. CASE StartStep
  BY <1>5, StartHeld
<1>6. CASE CallStarts
  BY <1>6, CallStartsHeld
<1>7. CASE CallEnds
  BY <1>7, CallEndsHeld
<1> QED BY <1>2, <1>3, <1>4, <1>5, <1>6, <1>7 DEF Call

LEMMA AnswerStep == ASSUME NEW k \in Nat PROVE Budgeted(k) /\ Answer => Kept(k)
<1> SUFFICES ASSUME Budgeted(k), Answer PROVE Kept(k)
  OBVIOUS
<1>1. run.pc = "answered" /\ opts' = opts
  BY DEF Answer, AnswerHeld, AnswerStopped, AnswerStrays, ClarifierReady, ClarifierAsks, AnswerInvalid, PlannerPlans,
         WriterDone, AnswerBlocked, Answered, Checked, At
<1>2. Sound(Consumed) /\ Paid(k, Consumed, 0) /\ Consumed.cursor <= 6 /\ LoopPaid(k) /\ Backed(k, ckpt.mem)
  BY <1>1, ConsumedHeld DEF Budgeted, Surroundings
<1>3. ASSUME NEW v \in Verdicts, NEW f \in BOOLEAN, Stop(Consumed, v, f), ckpt' = ckpt PROVE Kept(k)
  BY <1>1, <1>2, <1>3, StopHeld DEF Kept
<1> DEFINE onward == [Consumed EXCEPT !.cursor = @ + 1]
<1>4. Sound(onward) /\ Paid(k, onward, 1)
  BY <1>2, MovedOn
<1>5. run.verdict \in Verdicts
  BY <1>2, ControlFields DEF LoopPaid, LoopHeld
<1>6. CASE AnswerHeld
  <2>1. PICK b \in BOOLEAN : IntegrityUnknown(Consumed) \/ IntegrityIssue(Consumed, b)
    BY <1>6 DEF AnswerHeld
  <2> QED BY <1>1, <1>2, <2>1, UnknownHeld, IssueHeld DEF Kept
<1>7. CASE AnswerStopped
  <2>1. run.answer.status \in Ended
    BY <1>1 DEF Budgeted, LoopPaid, LoopHeld, AnswersHeld
  <2>2. (IF Cancelled THEN "CANCELLED" ELSE run.answer.status) \in Verdicts
    BY <1>7, <2>1 DEF AnswerStopped, Cancelled, Ended, Verdicts
  <2> QED BY <1>3, <1>7, <2>2 DEF AnswerStopped
<1>8. CASE AnswerStrays
  BY <1>3, <1>8 DEF AnswerStrays, Verdicts
<1>9. CASE ClarifierReady
  BY <1>1, <1>2, <1>4, <1>5, <1>9, AgainHeld DEF ClarifierReady, Kept
<1>10. CASE ClarifierAsks
  <2> DEFINE n == [Consumed EXCEPT !.rounds = @ + 1]
  <2>1. CASE mem.rounds < opts.clarifyRounds /\ Again(n, run.verdict)
    <3>1. mem.rounds \in Nat /\ opts.clarifyRounds \in Nat /\ Consumed.rounds = mem.rounds
      BY <1>2, MemoryFields, OptionFields DEF Budgeted, Surroundings, LoopPaid, LoopHeld, Sound, Consumed, Memories
    <3>2. Sound(n) /\ Paid(k, n, 1)
      BY <1>2, <2>1, <3>1 DEF Sound, Paid, Memories
    <3>3. Again(n, run.verdict) /\ ckpt' = ckpt
      BY <1>10, <2>1 DEF ClarifierAsks
    <3> HIDE DEF n
    <3> QED BY <1>1, <1>2, <1>5, <3>2, <3>3, AgainHeld DEF Kept
  <2>2. CASE Stop(Consumed, "NEEDS-CLARIFICATION", FALSE)
    BY <1>3, <1>10, <2>2 DEF ClarifierAsks, Verdicts
  <2> QED BY <1>10, <2>1, <2>2 DEF ClarifierAsks
<1>11. CASE AnswerInvalid
  BY <1>3, <1>11 DEF AnswerInvalid, Verdicts
<1>12. CASE PlannerPlans
  <2> DEFINE n == [Consumed EXCEPT !.cursor = @ + 1, !.plan = run.answer.out]
  <2>1. run.answer.out \in Plans
    BY <1>12 DEF PlannerPlans, Answered, Plans
  <2>2. onward.plan \in Plans \cup {"none"} /\ onward \in Memories /\ n = [onward EXCEPT !.plan = run.answer.out]
    BY <1>2, <1>4 DEF Sound, Memories
  <2>3. Sound(n) /\ Paid(k, n, 1)
    <3> HIDE DEF onward
    <3> QED BY <1>4, <2>1, <2>2 DEF Sound, Paid, Memories
  <2>4. Again(n, run.verdict) /\ ckpt' = ckpt
    BY <1>12 DEF PlannerPlans
  <2> HIDE DEF n
  <2> QED BY <1>1, <1>2, <1>5, <2>3, <2>4, AgainHeld DEF Kept
<1>13. CASE WriterDone
  BY <1>1, <1>2, <1>4, <1>5, <1>13, AgainHeld DEF WriterDone, Kept
<1>14. CASE AnswerBlocked
  BY <1>3, <1>14 DEF AnswerBlocked, Verdicts
<1> QED BY <1>6, <1>7, <1>8, <1>9, <1>10, <1>11, <1>12, <1>13, <1>14 DEF Answer

\* What the answers to a test or review call lead to, and the commands: each of them routes,
\* stops, passes a gate or starts one, with a sound and paid memory.
LEMMA WaysHeld ==
  ASSUME NEW k \in Nat, Budgeted(k), opts' = opts, NEW m, Sound(m), m.cursor <= 6, Paid(k, m, 0)
  PROVE /\ \A target \in RouteTargets, source \in Sources, v \in Verdicts :
              RouteTo(m, target, source, run.verdict, v) /\ ckpt' = ckpt => Kept(k)
        /\ \A v \in Verdicts, f \in BOOLEAN : Stop(m, v, f) /\ ckpt' = ckpt => Kept(k)
        /\ \A g \in {"start", "verify", "runtime"} : PassGate(m, g) /\ ckpt' = ckpt => Kept(k)
        /\ \A b \in BOOLEAN : IntegrityIssue(m, b) => Kept(k)
        /\ IntegrityUnknown(m) => Kept(k)
        /\ Throw(m) /\ ckpt' = ckpt => Kept(k)
        /\ \A pc \in Places \ (Unentered \cup {"answered"}) : \A call :
              (pc = "reproducing" => run.answer.out \in Judged) /\ Goto(m, pc) /\ ckpt' = Published(m, call) => Kept(k)
<1>1. run.verdict \in Verdicts /\ LoopPaid(k) /\ Backed(k, ckpt.mem)
  BY ControlFields DEF Budgeted, LoopPaid, LoopHeld, Surroundings
<1>2. ASSUME NEW target \in RouteTargets, NEW source \in Sources, NEW v \in Verdicts,
             RouteTo(m, target, source, run.verdict, v), ckpt' = ckpt PROVE Kept(k)
  BY <1>1, <1>2, RouteHeld DEF Kept
<1>3. ASSUME NEW v \in Verdicts, NEW f \in BOOLEAN, Stop(m, v, f), ckpt' = ckpt PROVE Kept(k)
  BY <1>1, <1>3, StopHeld DEF Kept
<1>4. ASSUME NEW g \in {"start", "verify", "runtime"}, PassGate(m, g), ckpt' = ckpt PROVE Kept(k)
  BY <1>1, <1>4, PassHeld DEF Kept
<1>5. ASSUME NEW b \in BOOLEAN, IntegrityIssue(m, b) PROVE Kept(k)
  BY <1>5, IssueHeld DEF Kept
<1>6. ASSUME IntegrityUnknown(m) PROVE Kept(k)
  BY <1>1, <1>6, UnknownHeld DEF Kept
<1>7. ASSUME NEW pc \in Places \ (Unentered \cup {"answered"}), NEW call,
             pc = "reproducing" => run.answer.out \in Judged, Goto(m, pc), ckpt' = Published(m, call) PROVE Kept(k)
  BY <1>1, <1>7, GotoHeld, PublishedTyped DEF Kept
<1>8. ASSUME Throw(m), ckpt' = ckpt PROVE Kept(k)
  BY <1>1, <1>8, ThrowHeld DEF Kept
<1> QED BY <1>2, <1>3, <1>4, <1>5, <1>6, <1>7, <1>8

LEMMA ShownHeld ==
  ASSUME NEW k \in Nat, NEW m, Sound(m), NEW g \in {"verify", "runtime"}
  PROVE LET n == [m EXCEPT !.evidence = Shown(m, g)] IN
          Sound(n) /\ n.cursor = m.cursor /\ (Paid(k, m, 0) <=> Paid(k, n, 0))
<1>1. m.evidence \in EvidenceSets /\ m.routes \in Nat
  BY MemoryFields DEF Sound
<1>2. Shown(m, g) \in EvidenceSets
  BY <1>1 DEF Shown, EvidenceSets
<1> QED BY <1>2 DEF Sound, Memories, Paid

LEMMA TestAnsweredHeld == ASSUME NEW k \in Nat PROVE Budgeted(k) /\ TestAnswered => Kept(k)
<1> SUFFICES ASSUME Budgeted(k), TestAnswered PROVE Kept(k)
  OBVIOUS
<1>1. run.pc = "answered" /\ opts' = opts /\ run.answer.out \in {"pass"} \cup RouteTargets
  BY DEF TestAnswered, Answered, Checked, At
<1>2. Sound(Consumed) /\ Paid(k, Consumed, 0) /\ Consumed.cursor <= 6
  BY <1>1, ConsumedHeld
<1>3. \/ Goto(Consumed, "reproducing") /\ ckpt' = Published(Consumed, Intent("verify", "repro"))
      \/ PassGate(Consumed, "start") /\ ckpt' = ckpt
      \/ run.answer.out \in RouteTargets /\ RouteTo(Consumed, run.answer.out, "test", run.verdict, "FAILED") /\ ckpt' = ckpt
  BY <1>1 DEF TestAnswered
<1>4. "reproducing" \in Places \ (Unentered \cup {"answered"}) /\ run.answer.out \in Judged /\ "test" \in Sources /\ "FAILED" \in Verdicts
  BY <1>1, StepsAre DEF Places, Unentered, Sources, Verdicts, Judged
<1> QED BY <1>1, <1>2, <1>3, <1>4, WaysHeld

LEMMA GateStep == ASSUME NEW k \in Nat PROVE Budgeted(k) /\ Gate => Kept(k)
<1> SUFFICES ASSUME Budgeted(k), Gate PROVE Kept(k)
  OBVIOUS
<1>1. CASE TestAnswered
  BY <1>1, TestAnsweredHeld
<1>2. ASSUME opts' = opts, run.pc \in {"reproducing", "verify", "verifying", "runtime", "probing"}
      PROVE Sound(mem) /\ Paid(k, mem, 0) /\ mem.cursor <= 6
  BY <1>2, Here DEF InLoop, Places
<1>3. /\ {"verifying", "probing"} \subseteq Places \ (Unentered \cup {"answered"}) /\ "planner" \in RouteTargets
      /\ {"repro", "test", "verify"} \subseteq Sources /\ {"FAILED", "CANCELLED", "BLOCKED"} \subseteq Verdicts
  BY StepsAre DEF Places, Unentered, Sources, Verdicts, RouteTargets
<1>4. CASE ReproEnds
  <2> DEFINE m == [mem EXCEPT !.results = @ \cup {"repro"}]
  <2>1. run.pc = "reproducing" /\ opts' = opts /\ ckpt' = ckpt
    BY <1>4 DEF ReproEnds, At
  <2>2. Sound(m) /\ Paid(k, m, 0) /\ m.cursor <= 6
    BY <1>2, <2>1, ResultAdded
  <2>3. \/ Stop(m, "CANCELLED", FALSE)
        \/ Throw(m)
        \/ RouteTo(m, "planner", "repro", run.verdict, "FAILED")
        \/ PassGate(m, "start")
        \/ run.answer.out # "pass" /\ RouteTo(m, run.answer.out, "test", run.verdict, "FAILED")
    BY <1>4 DEF ReproEnds
  <2> HIDE DEF m
  <2>4. run.answer.out # "pass" => run.answer.out \in RouteTargets
    BY <2>1 DEF Budgeted, LoopPaid, LoopHeld, AnswersHeld, Judged
  <2> QED BY <1>3, <2>1, <2>2, <2>3, <2>4, WaysHeld
<1>5. CASE GateSkipped
  <2>1. PICK g \in {"verify", "runtime"} : At(g) /\ PassGate(mem, g)
    BY <1>5 DEF GateSkipped
  <2>2. run.pc = g /\ opts' = opts /\ ckpt' = ckpt
    BY <1>5, <2>1 DEF GateSkipped, At
  <2> QED BY <1>2, <2>1, <2>2, WaysHeld
<1>6. CASE GateHeld
  <2>1. run.pc \in {"verify", "runtime"} /\ opts' = opts /\ (IntegrityUnknown(mem) \/ IntegrityIssue(mem, TRUE))
    BY <1>6 DEF GateHeld, At
  <2> QED BY <1>2, <2>1, WaysHeld
<1>7. CASE GateStarts
  <2>1. PICK pc \in {"verifying", "probing"} : Goto(mem, pc) /\ \E call : ckpt' = Published(mem, call)
    BY <1>7 DEF GateStarts
  <2>2. run.pc \in {"verify", "runtime"} /\ opts' = opts
    BY <1>7 DEF GateStarts, At
  <2> QED BY <1>2, <1>3, <2>1, <2>2, WaysHeld
<1>8. CASE VerifyEnds
  <2> DEFINE m == [mem EXCEPT !.results = @ \cup {"verify"}]
             good == [m EXCEPT !.evidence = Shown(m, "verify")]
  <2>1. run.pc = "verifying" /\ opts' = opts
    BY <1>8 DEF VerifyEnds, At
  <2>2. Sound(m) /\ Paid(k, m, 0) /\ m.cursor <= 6
    BY <1>2, <2>1, ResultAdded
  <2>3. Sound(good) /\ Paid(k, good, 0) /\ good.cursor <= 6
    <3> HIDE DEF m
    <3> QED BY <2>2, ShownHeld
  <2>4. \/ Throw(m) /\ ckpt' = ckpt
        \/ IntegrityUnknown(m)
        \/ \E b \in BOOLEAN : IntegrityIssue(m, b)
        \/ Stop(m, "CANCELLED", FALSE) /\ ckpt' = ckpt
        \/ RouteTo(m, "planner", "verify", run.verdict, "FAILED") /\ ckpt' = ckpt
        \/ Stop(m, "FAILED", TRUE) /\ ckpt' = ckpt
        \/ IntegrityUnknown(good)
        \/ IntegrityIssue(good, TRUE)
        \/ PassGate(good, "verify") /\ ckpt' = ckpt
    BY <1>8 DEF VerifyEnds
  <2> HIDE DEF m, good
  <2> QED BY <1>3, <2>1, <2>2, <2>3, <2>4, WaysHeld
<1>9. CASE RuntimeEnds
  <2> DEFINE n == [mem EXCEPT !.results = @ \cup {"verify"}]
             m == [mem EXCEPT !.results = @ \cup {"verify"}, !.evidence = Shown(mem, "runtime")]
             strayed == [m EXCEPT !.violations = @ + 1]
  <2>1. run.pc = "probing" /\ opts' = opts
    BY <1>9 DEF RuntimeEnds, At
  <2>2. Sound(n) /\ Paid(k, n, 0) /\ n.cursor <= 6
    BY <1>2, <2>1, ResultAdded
  <2>3. m = [n EXCEPT !.evidence = Shown(n, "runtime")]
    BY <1>2, <2>1 DEF Sound, Memories, Shown
  <2>4. Sound(m) /\ Paid(k, m, 0) /\ m.cursor <= 6
    <3> HIDE DEF m, n
    <3> QED BY <2>2, <2>3, ShownHeld
  <2>5. Sound(strayed) /\ Paid(k, strayed, 0) /\ strayed.cursor <= 6
    <3> HIDE DEF m
    <3> QED BY <2>4, CountedViolation
  <2>6. \/ Stop(strayed, "FAILED", TRUE) /\ ckpt' = Published(strayed, NoCall)
        \/ Throw(m) /\ ckpt' = ckpt
        \/ IntegrityUnknown(m)
        \/ \E b \in BOOLEAN : IntegrityIssue(m, b)
        \/ Stop(m, "CANCELLED", FALSE) /\ ckpt' = ckpt
        \/ Stop(m, "BLOCKED", TRUE) /\ ckpt' = ckpt
        \/ RouteTo(m, "planner", "verify", run.verdict, "FAILED") /\ ckpt' = ckpt
        \/ PassGate(m, "runtime") /\ ckpt' = ckpt
    BY <1>9, ZenonT(40) DEF RuntimeEnds
  <2> HIDE DEF m, n, strayed
  <2>7. ASSUME Stop(strayed, "FAILED", TRUE), ckpt' = Published(strayed, NoCall) PROVE Kept(k)
    BY <1>3, <2>1, <2>5, <2>7, StopHeld, PublishedTyped DEF Kept, Budgeted
  <2> QED BY <1>3, <2>1, <2>4, <2>6, <2>7, WaysHeld
<1> QED BY <1>1, <1>4, <1>5, <1>6, <1>7, <1>8, <1>9 DEF Gate

\* A step that leaves the answers alone and goes to a place outside the head of the loop.
LEMMA MoveHeld ==
  ASSUME NEW k \in Nat, Budgeted(k), opts' = opts, NEW m, Sound(m), Paid(k, m, 0), mem' = m, run' \in Controls,
         run'.answer = run.answer, run'.recovered = run.recovered,
         run'.pc \notin Unentered \cup {"answered", "reproducing"}, run'.pc \in InLoop => m.cursor <= 6
  PROVE LoopPaid(k)'
  BY DEF Budgeted, LoopPaid, LoopHeld, AnswersHeld, Sound, Paid

LEMMA TeamHeld == ASSUME NEW k \in Nat PROVE Budgeted(k) /\ (TeamStarts \/ TeamEnds \/ TeamShips) => Kept(k)
<1> SUFFICES ASSUME Budgeted(k), TeamStarts \/ TeamEnds \/ TeamShips PROVE Kept(k)
  OBVIOUS
<1>1. run \in Controls /\ LoopPaid(k) /\ Backed(k, ckpt.mem)
  BY DEF Budgeted, LoopPaid, LoopHeld, Surroundings
<1>2. CASE TeamStarts
  <2> DEFINE m == [Consumed EXCEPT !.plan = "team"]
  <2>1. run.pc = "answered" /\ opts' = opts
    BY <1>2 DEF TeamStarts, Answered, Checked, At
  <2>2. Sound(Consumed) /\ Paid(k, Consumed, 0) /\ Consumed.cursor <= 6
    BY <2>1, ConsumedHeld
  <2>3. Sound(m) /\ Paid(k, m, 0) /\ m.cursor <= 6
    BY <2>2 DEF Sound, Memories, Paid, Plans
  <2>4. mem' = m /\ run' = [run EXCEPT !.pc = "team", !.team = "ok"] /\ ckpt' = Published(m, Intent("team", "team"))
    BY <1>2 DEF TeamStarts
  <2> HIDE DEF m
  <2>5. /\ run' \in Controls /\ run'.pc = "team" /\ run'.answer = run.answer /\ run'.recovered = run.recovered
    BY <1>1, <2>4 DEF Controls, Places
  <2>6. LoopPaid(k)'
    BY <2>1, <2>3, <2>4, <2>5, MoveHeld DEF Unentered
  <2> QED BY <2>3, <2>4, <2>6, PublishedTyped DEF Kept
<1>3. CASE TeamEnds
  <2> DEFINE m == [mem EXCEPT !.results = @ \cup {"team"}]
  <2>1. run.pc = "team" /\ opts' = opts
    BY <1>3 DEF TeamEnds, At
  <2>2. Sound(mem) /\ Paid(k, mem, 0) /\ mem.cursor <= 6
    BY <2>1, Here DEF InLoop, Places
  <2>3. Sound(m) /\ Paid(k, m, 0) /\ m.cursor <= 6
    BY <2>2, ResultAdded
  <2>4. \/ Throw(m) /\ ckpt' = ckpt
        \/ IntegrityUnknown(m)
        \/ \E b \in BOOLEAN : IntegrityIssue(m, b)
        \/ /\ mem' = m /\ ckpt' = ckpt
           /\ \E outcome \in {"ok", "failed"} :
                run' = [run EXCEPT !.team = outcome,
                                   !.pc = IF GateAfter("start") = "end" THEN "reviews" ELSE GateAfter("start")]
    BY <1>3 DEF TeamEnds
  <2> HIDE DEF m
  <2>5. ASSUME Throw(m), ckpt' = ckpt PROVE Kept(k)
    BY <1>1, <2>1, <2>3, <2>5, ThrowHeld DEF Kept
  <2>6. ASSUME mem' = m, ckpt' = ckpt, NEW outcome \in {"ok", "failed"},
               run' = [run EXCEPT !.team = outcome,
                                  !.pc = IF GateAfter("start") = "end" THEN "reviews" ELSE GateAfter("start")]
        PROVE Kept(k)
    <3> DEFINE pc == IF GateAfter("start") = "end" THEN "reviews" ELSE GateAfter("start")
    <3>1. pc \in {"reviews", "verify", "runtime"}
      BY DEF GateAfter
    <3> HIDE DEF pc
    <3>2. run' = [run EXCEPT !.team = outcome, !.pc = pc]
      BY <2>6 DEF pc
    <3>3. run' \in Controls /\ run'.pc = pc /\ run'.answer = run.answer /\ run'.recovered = run.recovered
      BY <1>1, <3>1, <3>2 DEF Controls, Places
    <3>4. LoopPaid(k)'
      BY <2>1, <2>3, <2>6, <3>1, <3>3, MoveHeld DEF Unentered
    <3> QED BY <1>1, <2>6, <3>4 DEF Kept
  <2> QED BY <2>1, <2>3, <2>4, <2>5, <2>6, WaysHeld
<1>4. CASE TeamShips
  <2>1. run.pc = "reviews" /\ opts' = opts /\ ckpt' = ckpt /\ mem' = mem
    BY <1>4 DEF TeamShips, At
  <2>2. Sound(mem) /\ Paid(k, mem, 0)
    BY Here
  <2>3. PICK pc \in {"returned", "auditing"} : run' = [run EXCEPT !.pc = pc, !.verdict = "SHIP"]
    BY <1>4 DEF TeamShips
  <2>4. run' \in Controls /\ run'.pc = pc /\ run'.answer = run.answer /\ run'.recovered = run.recovered
    BY <1>1, <2>3 DEF Controls, Places, Verdicts
  <2>5. LoopPaid(k)'
    BY <2>1, <2>2, <2>4, MoveHeld DEF Unentered, InLoop
  <2> QED BY <1>1, <2>1, <2>5 DEF Kept
<1> QED BY <1>2, <1>3, <1>4

LEMMA ReviewStep == ASSUME NEW k \in Nat PROVE Budgeted(k) /\ Review => Kept(k)
<1> SUFFICES ASSUME Budgeted(k), Review PROVE Kept(k)
  OBVIOUS
<1>1. CASE TeamStarts \/ TeamEnds \/ TeamShips
  BY <1>1, TeamHeld
<1>2. {"SHIP", "NEEDS-WORK", "BLOCKED", "FAILED"} \subseteq Verdicts /\ "review" \in Sources
  BY StepsAre DEF Verdicts, Sources
<1>3. CASE ReviewShips
  <2>1. run.pc = "answered" /\ opts' = opts /\ ckpt' = ckpt
    BY <1>3 DEF ReviewShips, Answered, Checked, At
  <2>2. Sound(Consumed) /\ Paid(k, Consumed, 0) /\ Consumed.cursor <= 6
    BY <2>1, ConsumedHeld
  <2>3. Sound([Consumed EXCEPT !.cursor = @ + 1]) /\ Paid(k, [Consumed EXCEPT !.cursor = @ + 1], 1)
    BY <2>2, MovedOn
  <2> QED BY <1>2, <1>3, <2>1, <2>3, AgainHeld DEF ReviewShips, Kept, Budgeted, Surroundings
<1>4. CASE ReviewRefuses
  <2>1. run.pc = "answered" /\ opts' = opts /\ ckpt' = ckpt /\ run.answer.out \in RouteTargets
    BY <1>4 DEF ReviewRefuses, Answered, Checked, At
  <2>2. Sound(Consumed) /\ Paid(k, Consumed, 0) /\ Consumed.cursor <= 6
    BY <2>1, ConsumedHeld
  <2> QED BY <1>2, <1>4, <2>1, <2>2, RouteHeld DEF ReviewRefuses, Kept, Budgeted, Surroundings
<1>5. CASE TeamReviewRefuses \/ TeamFails
  <2>1. run.pc = "reviews" /\ opts' = opts /\ ckpt' = ckpt
    BY <1>5 DEF TeamReviewRefuses, TeamFails, At
  <2>2. Sound(mem) /\ Paid(k, mem, 0) /\ mem.cursor <= 6
    BY <2>1, Here DEF InLoop, Places
  <2>3. \/ \E target \in RouteTargets : RouteTo(mem, target, "review", run.verdict, "NEEDS-WORK")
        \/ \E v \in {"BLOCKED", "FAILED"} : Stop(mem, v, TRUE)
    BY <1>5 DEF TeamReviewRefuses, TeamFails
  <2> QED BY <1>2, <2>1, <2>2, <2>3, WaysHeld
<1> QED BY <1>1, <1>3, <1>4, <1>5 DEF Review

LEMMA EndStep == ASSUME NEW k \in Nat PROVE Budgeted(k) /\ End => Kept(k)
<1> SUFFICES ASSUME Budgeted(k), End PROVE Kept(k)
  OBVIOUS
<1>1. Sound(mem) /\ Paid(k, mem, 0) /\ LoopPaid(k) /\ Backed(k, ckpt.mem) /\ run \in Controls /\ opts' = opts
  BY Here DEF Budgeted, LoopPaid, LoopHeld, Surroundings, End, Finalize, PostSuccessStarts, PostSuccessEnds,
              DeliveryAdvances, DeliveryEnds, WriteResult
<1>2. ASSUME NEW pc \in {"auditing", "posting", "returned", "over"}, Goto(mem, pc) PROVE LoopPaid(k)'
  BY <1>1, <1>2, GotoHeld DEF Places, InLoop, Unentered
<1>3. CASE Finalize
  <2>1. PICK pc \in {"auditing", "returned"} : Goto(mem, pc) /\ \E call : ckpt' = Published(mem, call)
    BY <1>3 DEF Finalize
  <2> QED BY <1>1, <1>2, <2>1, PublishedTyped DEF Kept
<1>4. CASE PostSuccessStarts
  BY <1>1, <1>2, <1>4, PublishedTyped DEF PostSuccessStarts, Kept
<1>5. CASE PostSuccessEnds
  <2>1. PICK pc \in {"returned", "over"} : Goto(mem, pc)
    BY <1>5 DEF PostSuccessEnds
  <2>2. ckpt' = Published(mem, NoCall) \/ ckpt' = ckpt
    BY <1>5 DEF PostSuccessEnds
  <2> QED BY <1>1, <1>2, <2>1, <2>2, PublishedTyped DEF Kept
<1>6. CASE DeliveryAdvances
  <2>1. mem' = mem /\ run' = run
    BY <1>6 DEF DeliveryAdvances
  <2>2. LoopPaid(k)'
    BY <1>1, <2>1 DEF LoopPaid, LoopHeld, AnswersHeld, Sound, Paid
  <2> QED BY <1>1, <1>6, <2>2, PublishedTyped DEF DeliveryAdvances, Kept
<1>7. CASE DeliveryEnds
  <2>1. mem' = mem /\ (ckpt' = ckpt \/ ckpt' = Published(mem, NoCall))
    BY <1>7 DEF DeliveryEnds
  <2>2. PICK result \in {"DELIVERED", "NO_CHANGES", "DELIVERY_PENDING"} :
          run' = [run EXCEPT !.pc = "returned", !.delivery = result]
    BY <1>7 DEF DeliveryEnds
  <2>3. run' \in Controls /\ run'.pc = "returned" /\ run'.answer = run.answer /\ run'.recovered = run.recovered
    BY <1>1, <2>2 DEF Controls, Places
  <2>4. LoopPaid(k)'
    BY <1>1, <2>1, <2>3, MoveHeld DEF Unentered, InLoop
  <2> QED BY <1>1, <2>1, <2>4, PublishedTyped DEF Kept
<1>8. CASE WriteResult
  <2>1. mem' = mem /\ ckpt' = ckpt
    BY <1>8 DEF WriteResult
  <2>2. PICK pc \in {"over", "posting"} : run' = [run EXCEPT !.pc = pc]
    BY <1>1, <1>8 DEF WriteResult, At, Controls
  <2>3. run' \in Controls /\ run'.pc = pc /\ run'.answer = run.answer /\ run'.recovered = run.recovered
    BY <1>1, <2>2 DEF Controls, Places
  <2>4. LoopPaid(k)'
    BY <1>1, <2>1, <2>3, MoveHeld DEF Unentered, InLoop
  <2> QED BY <1>1, <2>1, <2>4 DEF Kept
<1> QED BY <1>3, <1>4, <1>5, <1>6, <1>7, <1>8 DEF End

-----------------------------------------------------------------------------
(* The workspace, the child's row and the run's row. *)

LEMMA WorkShapes ==
  ASSUME NEW w \in Workspaces, NEW d \in BOOLEAN, NEW e \in BOOLEAN
  PROVE /\ [w EXCEPT !.tampered = d, !.changed = e] \in Workspaces
        /\ [w EXCEPT !.changed = e] \in Workspaces
        /\ [w EXCEPT !.passed = {}, !.approved = FALSE] \in Workspaces
        /\ [w EXCEPT !.approved = d] \in Workspaces
        /\ \A g \in {"verify", "runtime", "repro"} : [w EXCEPT !.passed = @ \cup {g}] \in Workspaces
  BY DEF Workspaces

\* What a command or an agent may do to the files.
LEMMA WorkEffects ==
  ASSUME work \in Workspaces
  PROVE /\ \A t, c \in BOOLEAN : [work EXCEPT !.tampered = t, !.changed = @ \/ c] \in Workspaces
        /\ \A t, c, s \in BOOLEAN : [work EXCEPT !.tampered = t, !.changed = @ \/ c \/ s] \in Workspaces
        /\ \A t \in BOOLEAN : [work EXCEPT !.tampered = t, !.changed = TRUE] \in Workspaces
        /\ \A c \in BOOLEAN : [work EXCEPT !.changed = @ \/ c] \in Workspaces
<1>1. \A c, s \in BOOLEAN : (work.changed \/ c) \in BOOLEAN /\ (work.changed \/ c \/ s) \in BOOLEAN
  OBVIOUS
<1> QED BY <1>1, WorkShapes

\* Every step leaves the workspace or gives it one of these shapes.
LEMMA WorkTyped == ASSUME NEW k \in Nat PROVE Budgeted(k) /\ Next => work' \in Workspaces
<1> SUFFICES ASSUME Budgeted(k), Next PROVE work' \in Workspaces
  OBVIOUS
<1>1. work \in Workspaces /\ run.answer \in Answers /\ TRUE \in BOOLEAN /\ FALSE \in BOOLEAN /\ (~aborted) \in BOOLEAN
  BY ControlFields DEF Budgeted, Surroundings, LoopPaid, LoopHeld
<1>2. CASE Abort \/ LoopHead
  BY <1>1, <1>2 DEF Abort, LoopHead, CancelAtHead, SkipStep, EnterStep, LeaveLoop
<1>3. CASE Baseline
  <2>1. CASE CaptureFails \/ CaptureBaseline
    BY <1>1, <2>1 DEF CaptureFails, CaptureBaseline
  <2>2. CASE BaselineEnds
    <3>1. PICK t \in BOOLEAN : work' = [work EXCEPT !.tampered = t, !.changed = @ \/ t]
      BY <2>2 DEF BaselineEnds
    <3> QED BY <1>1, <3>1, WorkEffects
  <2> QED BY <1>3, <2>1, <2>2 DEF Baseline
<1>4. CASE Call
  <2>1. CASE SkipCicd \/ ReviewHeld \/ SnapshotFails \/ StartStep
    BY <1>1, <2>1 DEF SkipCicd, ReviewHeld, SnapshotFails, StartStep
  <2>2. CASE CallStarts
    BY <1>1, <2>2, WorkShapes DEF CallStarts
  <2>3. CASE CallEnds
    <3>1. PICK t \in BOOLEAN, c \in BOOLEAN : work' = [work EXCEPT !.tampered = t, !.changed = @ \/ c]
      <4>1. PICK status \in IF aborted THEN {"CANCELLED"} ELSE {"DONE", "FAILED"},
                 out \in Outputs(Step) \cup {"none"},
                 changed, tampered, stray, throws \in BOOLEAN :
              CallResult(status, out, changed, tampered, stray, throws)
        BY <2>3 DEF CallEnds
      <4> QED BY <4>1 DEF CallResult
    <3> QED BY <1>1, <3>1, WorkEffects
  <2> QED BY <1>4, <2>1, <2>2, <2>3 DEF Call
<1>5. CASE Answer
  BY <1>1, <1>5 DEF Answer, AnswerHeld, AnswerStopped, AnswerStrays, ClarifierReady, ClarifierAsks, AnswerInvalid,
                    PlannerPlans, WriterDone, AnswerBlocked
<1>6. CASE Gate
  <2>1. CASE TestAnswered \/ GateSkipped \/ GateHeld \/ GateStarts
    BY <1>1, <2>1 DEF TestAnswered, GateSkipped, GateHeld, GateStarts
  <2>2. CASE ReproEnds
    <3>1. PICK t \in BOOLEAN :
            LET effect == [work EXCEPT !.tampered = t, !.changed = @ \/ t] IN
              work' = effect \/ work' = [effect EXCEPT !.passed = @ \cup {"repro"}]
      BY <2>2, ZenonT(40) DEF ReproEnds
    <3> DEFINE effect == [work EXCEPT !.tampered = t, !.changed = @ \/ t]
    <3>2. effect \in Workspaces
      BY <1>1, WorkEffects
    <3>3. work' = effect \/ work' = [effect EXCEPT !.passed = @ \cup {"repro"}]
      BY <3>1
    <3> HIDE DEF effect
    <3> QED BY <1>1, <3>2, <3>3, WorkShapes, ZenonT(40)
  <2>3. CASE VerifyEnds \/ RuntimeEnds
    <3>1. PICK t \in BOOLEAN, s \in BOOLEAN, g \in {"verify", "runtime"} :
            LET effect == [work EXCEPT !.tampered = t, !.changed = @ \/ t \/ s] IN
              work' = effect \/ work' = [effect EXCEPT !.passed = @ \cup {g}]
      <4>1. CASE VerifyEnds
        <5>1. PICK t \in BOOLEAN :
                LET effect == [work EXCEPT !.tampered = t, !.changed = @ \/ t] IN
                  work' = effect \/ work' = [effect EXCEPT !.passed = @ \cup {"verify"}]
          BY <4>1, ZenonT(40) DEF VerifyEnds
        <5>2. (work.changed \/ t) = (work.changed \/ t \/ FALSE)
          OBVIOUS
        <5> QED BY <5>1, <5>2
      <4>2. CASE RuntimeEnds
        BY <4>2, ZenonT(40) DEF RuntimeEnds
      <4> QED BY <2>3, <4>1, <4>2, ZenonT(40)
    <3> DEFINE effect == [work EXCEPT !.tampered = t, !.changed = @ \/ t \/ s]
    <3>2. effect \in Workspaces
      BY <1>1, WorkEffects
    <3>3. work' = effect \/ work' = [effect EXCEPT !.passed = @ \cup {g}]
      BY <3>1
    <3> HIDE DEF effect
    <3> QED BY <1>1, <3>2, <3>3, WorkShapes, ZenonT(40)
  <2> QED BY <1>6, <2>1, <2>2, <2>3 DEF Gate
<1>7. CASE Review
  <2>1. CASE ReviewRefuses \/ TeamReviewRefuses \/ TeamFails
    BY <1>1, <2>1 DEF ReviewRefuses, TeamReviewRefuses, TeamFails
  <2>2. CASE ReviewShips
    <3>1. run.answer.current \in BOOLEAN
      BY <1>1 DEF Answers
    <3> QED BY <1>1, <2>2, <3>1, WorkShapes DEF ReviewShips
  <2>3. CASE TeamStarts
    BY <1>1, <2>3, WorkShapes DEF TeamStarts
  <2>4. CASE TeamEnds
    <3>1. PICK t \in BOOLEAN : work' = [work EXCEPT !.tampered = t, !.changed = TRUE]
      BY <2>4 DEF TeamEnds
    <3> QED BY <1>1, <3>1, WorkEffects
  <2>5. CASE TeamShips
    <3>1. PICK approved \in BOOLEAN : work' = [work EXCEPT !.approved = approved]
      BY <2>5 DEF TeamShips
    <3> QED BY <1>1, <3>1, WorkShapes
  <2> QED BY <1>7, <2>1, <2>2, <2>3, <2>4, <2>5 DEF Review
<1>8. CASE End
  <2>1. CASE Finalize \/ PostSuccessStarts \/ DeliveryEnds \/ WriteResult
    BY <1>1, <2>1 DEF Finalize, PostSuccessStarts, DeliveryEnds, WriteResult
  <2>2. CASE PostSuccessEnds
    <3>1. work' = work \/ \E c \in BOOLEAN : work' = [work EXCEPT !.changed = @ \/ c]
      BY <2>2 DEF PostSuccessEnds
    <3> QED BY <1>1, <3>1, WorkEffects
  <2>3. CASE DeliveryAdvances
    BY <1>1, <2>3, WorkShapes DEF DeliveryAdvances
  <2> QED BY <1>8, <2>1, <2>2, <2>3 DEF End
<1> QED BY <1>2, <1>3, <1>4, <1>5, <1>6, <1>7, <1>8 DEF Next, Progress

LEMMA OutcomeTyped ==
  ASSUME NEW verdict \in Verdicts, NEW delivery
  PROVE Outcome(verdict, delivery) \in Rows
  BY DEF Outcome, Verdicts, Rows

\* Only the start and the end of a call change the child's row.
LEMMA ChildMoves == Next => CallStarts \/ CallEnds \/ child' = child
<1> SUFFICES ASSUME Next PROVE CallStarts \/ CallEnds \/ child' = child
  OBVIOUS
<1>1. CASE Abort \/ LoopHead \/ Baseline
  BY <1>1 DEF Abort, LoopHead, CancelAtHead, SkipStep, EnterStep, LeaveLoop, Baseline, CaptureFails, CaptureBaseline, BaselineEnds
<1>2. CASE Call
  BY <1>2 DEF Call, SkipCicd, ReviewHeld, SnapshotFails, StartStep
<1>3. CASE Answer
  BY <1>3 DEF Answer, AnswerHeld, AnswerStopped, AnswerStrays, ClarifierReady, ClarifierAsks, AnswerInvalid,
              PlannerPlans, WriterDone, AnswerBlocked
<1>4. CASE Gate
  BY <1>4 DEF Gate, TestAnswered, ReproEnds, GateSkipped, GateHeld, GateStarts, VerifyEnds, RuntimeEnds
<1>5. CASE Review
  BY <1>5 DEF Review, ReviewShips, ReviewRefuses, TeamStarts, TeamEnds, TeamShips, TeamReviewRefuses, TeamFails
<1>6. CASE End
  BY <1>6 DEF End, Finalize, PostSuccessStarts, PostSuccessEnds, DeliveryAdvances, DeliveryEnds, WriteResult
<1> QED BY <1>1, <1>2, <1>3, <1>4, <1>5, <1>6 DEF Next, Progress

LEMMA ChildTyped == ASSUME NEW k \in Nat PROVE Budgeted(k) /\ Next => child' \in Answers
<1> SUFFICES ASSUME Budgeted(k), Next PROVE child' \in Answers
  OBVIOUS
<1>1. child \in Answers
  BY DEF Budgeted, Surroundings
<1>2. CASE CallStarts
  <2>1. Step \in Steps
    <3>1. mem.cursor \in 1..6
      BY <1>2, Here, MemoryFields DEF CallStarts, At, InLoop, Places, Sound
    <3> QED BY <3>1, StepsAre DEF Step, STEP_ORDER
  <2>2. PICK status \in {"RUNNING", "BLOCKED"} :
          child' = [NoChild EXCEPT !.step = Step, !.status = status, !.current = TRUE]
    BY <1>2 DEF CallStarts
  <2> HIDE DEF Step
  <2> QED BY <2>1, <2>2 DEF NoChild, NoAnswer, Answers, AllOutputs
<1>3. CASE CallEnds
  BY <1>3, CallEndsHeld
<1>4. CASE child' = child
  BY <1>1, <1>4
<1>5. CallStarts \/ CallEnds \/ child' = child
  BY ChildMoves
<1> QED BY <1>2, <1>3, <1>4, <1>5

\* The options never change, and only the user cancels and only WriteResult ends the row.
LEMMA Unmoving ==
  Next => /\ opts' = opts
          /\ aborted' = aborted \/ aborted' = TRUE
          /\ row' = row \/ row' = Outcome(run.verdict, run.delivery)
<1> SUFFICES ASSUME Next
             PROVE /\ opts' = opts
                   /\ aborted' = aborted \/ aborted' = TRUE
                   /\ row' = row \/ row' = Outcome(run.verdict, run.delivery)
  OBVIOUS
<1>1. CASE Abort \/ LoopHead \/ Baseline
  BY <1>1 DEF Abort, LoopHead, CancelAtHead, SkipStep, EnterStep, LeaveLoop, Baseline, CaptureFails, CaptureBaseline, BaselineEnds
<1>2. CASE Call
  BY <1>2 DEF Call, SkipCicd, ReviewHeld, SnapshotFails, StartStep, CallStarts, CallEnds
<1>3. CASE Answer
  BY <1>3 DEF Answer, AnswerHeld, AnswerStopped, AnswerStrays, ClarifierReady, ClarifierAsks, AnswerInvalid,
              PlannerPlans, WriterDone, AnswerBlocked
<1>4. CASE Gate
  BY <1>4 DEF Gate, TestAnswered, ReproEnds, GateSkipped, GateHeld, GateStarts, VerifyEnds, RuntimeEnds
<1>5. CASE Review
  BY <1>5 DEF Review, ReviewShips, ReviewRefuses, TeamStarts, TeamEnds, TeamShips, TeamReviewRefuses, TeamFails
<1>6. CASE End
  BY <1>6 DEF End, Finalize, PostSuccessStarts, PostSuccessEnds, DeliveryAdvances, DeliveryEnds, WriteResult
<1> QED BY <1>1, <1>2, <1>3, <1>4, <1>5, <1>6 DEF Next, Progress

-----------------------------------------------------------------------------
(* The theorems. *)

LEMMA BudgetStarts == ASSUME NEW k \in Nat PROVE Init => Budgeted(k)
<1> SUFFICES ASSUME Init PROVE Budgeted(k)
  OBVIOUS
<1>1. opts \in Options /\ opts.start \in 1..6 /\ opts.maxRoutes \in Nat /\ opts.clarifyRounds \in Nat
  BY OptionsAssumption DEF Init, OptionSet
<1>2. PICK plan \in {"plan", "plan+cicd", "none"} :
        mem = [cursor |-> opts.start, executed |-> 0, routes |-> 0, feedback |-> "none",
               instructed |-> FALSE, results |-> {}, plan |-> plan, evidence |-> {},
               violations |-> 0, rounds |-> 0, baseline |-> FALSE]
  BY DEF Init
<1>3. mem \in Memories
  BY <1>1, <1>2 DEF Memories, Sources, ResultSets, EvidenceSets, Plans
<1>4. Sound(mem) /\ Paid(k, mem, 1) /\ Paid(k, mem, 0)
  BY <1>1, <1>2, <1>3 DEF Sound, Paid
<1>5. NoAnswer \in Answers
  BY DEF NoAnswer, Answers, AllOutputs
<1>6. run \in Controls /\ run.pc = "head" /\ run.recovered = NoAnswer
  BY <1>5 DEF Init, Controls, Places, Verdicts
<1>7. LoopPaid(k)
  BY <1>4, <1>6 DEF LoopPaid, LoopHeld, AnswersHeld, InLoop, Unentered
<1>8. Surroundings
  BY <1>1, <1>3, <1>5 DEF Init, Surroundings, NoChild, Workspaces, Rows
<1>9. ckpt.mem = mem
  BY DEF Init
<1> QED BY <1>4, <1>7, <1>8, <1>9 DEF Budgeted, Backed

LEMMA BudgetStep == ASSUME NEW k \in Nat PROVE Budgeted(k) /\ [Next]_vars => Budgeted(k)'
<1> SUFFICES ASSUME Budgeted(k), [Next]_vars PROVE Budgeted(k)'
  OBVIOUS
<1>1. CASE UNCHANGED vars
  BY <1>1 DEF vars, Budgeted, Backed, LoopPaid, LoopHeld, AnswersHeld, Sound, Paid, Surroundings
<1>2. CASE Next
  <2>1. Kept(k)
    <3>1. CASE Abort
      <4>1. mem' = mem /\ run' = run /\ ckpt' = ckpt /\ opts' = opts
        BY <3>1 DEF Abort
      <4> QED BY <4>1 DEF Kept, Budgeted, Backed, LoopPaid, LoopHeld, AnswersHeld, Sound, Paid, Surroundings
    <3>2. CASE Progress
      BY <3>2, LoopHeadStep, BaselineStep, CallStep, AnswerStep, GateStep, ReviewStep, EndStep DEF Progress
    <3> QED BY <1>2, <3>1, <3>2 DEF Next
  <2>2. opts \in Options /\ aborted \in BOOLEAN /\ row \in Rows /\ run.verdict \in Verdicts
    BY ControlFields DEF Budgeted, LoopPaid, LoopHeld, Surroundings
  <2>3. opts' \in Options /\ aborted' \in BOOLEAN
    BY <1>2, <2>2, Unmoving
  <2>4. row' \in Rows
    BY <1>2, <2>2, Unmoving, OutcomeTyped
  <2>5. work' \in Workspaces /\ child' \in Answers
    BY <1>2, WorkTyped, ChildTyped
  <2>6. Surroundings'
    BY <2>1, <2>3, <2>4, <2>5 DEF Surroundings, Kept, Backed, Sound
  <2>7. Backed(k, ckpt.mem)'
    BY <1>2, <2>1, Unmoving DEF Kept, Backed, Sound, Paid
  <2> QED BY <2>1, <2>6, <2>7 DEF Budgeted, Kept
<1> QED BY <1>1, <1>2

\* A run can be restarted five times and still not come near the cap.
LEMMA BelowCap ==
  ASSUME NEW k \in 0..5, Budgeted(k), run.pc = "step"
  PROVE Counted.executed < Cap
<1>1. /\ mem \in Memories /\ Paid(k, mem, 1) /\ opts \in Options /\ mem.cursor <= 6
      /\ mem.routes <= opts.maxRoutes /\ mem.rounds <= opts.clarifyRounds
  BY DEF Budgeted, LoopPaid, LoopHeld, Surroundings, Sound, Unentered, InLoop, Places
<1>2. mem.executed \in Nat /\ mem.routes \in Nat /\ mem.rounds \in Nat /\ mem.cursor \in Nat
  BY <1>1, MemoryFields
<1>3. opts.maxRoutes \in Nat /\ opts.clarifyRounds \in Nat
  BY <1>1, OptionFields
<1>4. mem.executed + 1 <= 6 * opts.maxRoutes + opts.clarifyRounds + 11
  BY <1>1, <1>2, <1>3 DEF Paid
<1>5. Counted.executed <= mem.executed + 1 /\ Counted.executed \in Nat
  BY <1>1, <1>2 DEF Counted, Memories
<1> QED BY <1>2, <1>3, <1>4, <1>5 DEF Cap

LEMMA BudgetSuffices == ASSUME NEW k \in 0..5, Budgeted(k) PROVE BudgetInvariant
<1>1. CapUnreached
  BY BelowCap DEF CapUnreached
<1> QED BY <1>1 DEF BudgetInvariant, Budgeted, LoopPaid

\* Every call of every run of spec.ts is paid for, without any restart.
THEOREM BudgetInvariance == Spec => [](Budgeted(0) /\ BudgetInvariant)
<1>1. Init => Budgeted(0)
  BY BudgetStarts
<1>2. Budgeted(0) /\ [Next]_vars => Budgeted(0)'
  BY BudgetStep
<1>3. Budgeted(0) => BudgetInvariant
  BY BudgetSuffices
<1> QED BY <1>1, <1>2, <1>3, PTL DEF Spec

\* Whatever the options, the variables of a run have their types and its cursor names a step
\* wherever the loop of runSpecInternal reads STEP_ORDER[cursor].
THEOREM TypeCorrect == Spec => []TypeOK
<1>1. BudgetInvariant => TypeOK
  BY DEF BudgetInvariant, LoopHeld, Surroundings, Sound, TypeOK
<1> QED BY <1>1, BudgetInvariance, PTL

\* Every agent call a run makes is paid for by its cursor, its rework routes and its rounds.
THEOREM Budget == Spec => []BudgetHolds
<1>1. ASSUME Budgeted(0) PROVE BudgetHolds
  <2>1. mem \in Memories /\ Paid(0, mem, IF run.pc \in {"head", "step", "baselining"} THEN 1 ELSE 0)
    BY <1>1 DEF Budgeted, LoopPaid, LoopHeld, Sound, Unentered
  <2>2. mem.executed \in Nat /\ mem.routes \in Nat /\ mem.rounds \in Nat /\ mem.cursor \in Nat
    BY <2>1, MemoryFields
  <2>3. CASE run.pc \in {"head", "step", "baselining"}
    BY <2>1, <2>2, <2>3 DEF Paid, BudgetHolds
  <2>4. CASE run.pc \notin {"head", "step", "baselining"}
    BY <2>1, <2>2, <2>4 DEF Paid, BudgetHolds
  <2> QED BY <2>3, <2>4
<1> QED BY <1>1, BudgetInvariance, PTL

\* The loop's variables keep their types and its budget (spec.ts, runSpecInternal), whatever the options.
THEOREM LoopSound == Spec => []LoopInvariant
<1>1. TypeOK /\ BudgetHolds => LoopInvariant
  BY DEF LoopInvariant
<1> QED BY <1>1, TypeCorrect, Budget, PTL

\* The `break` at the loop's safety cap, which would read as success, is never taken.
THEOREM CapNeverEndsARun == Spec => []CapUnreached
<1>1. BudgetInvariant => CapUnreached
  BY DEF BudgetInvariant
<1> QED BY <1>1, BudgetInvariance, PTL

-----------------------------------------------------------------------------
(* What a run has established at each place of the workflow. *)

\* A pass through the loop that is at the cursor of m has the gates, the review and their
\* evidence behind it, and no result of a step before it.
Onward(m, w, verdict) ==
    /\ m.cursor > Index.test =>
         /\ GatesDue \subseteq w.passed
         /\ "verify" \in GatesDue => m.evidence = {<<g, m.routes>> : g \in GatesDue \cap {"verify", "runtime"}}
    /\ ReviewDue /\ m.cursor > Index.review => w.approved /\ verdict # "none"
    /\ \A s \in m.results \cap Steps : Index[s] <= m.cursor
    /\ "verify" \in m.results => m.cursor > Index.test

\* The guarded files were compared before the cursor was at c, or before the review was called;
\* a call of a writing step may change them until it is answered.
Cleared(m, pc) ==
    /\ Compared(m.cursor) \/ (m.cursor = Index.review /\ pc \in {"calling", "working", "answered"})
    /\ pc \in {"working", "answered"} => m.cursor \in {Index.clarifier, Index.planner, Index.review}

Looping == {"head", "step", "baselining", "calling", "working", "answered"}
Gating == {"reproducing", "verify", "verifying", "runtime", "probing", "reviews"}

InLoopHeld(m, r, w) ==
    r.pc \in Looping =>
        /\ r.team = "no"
        /\ Onward(m, w, r.verdict)
        /\ Cleared(m, r.pc) => ~w.tampered

\* The call that is made or answered is of this process and of this attempt.
CallHeld(r, c) ==
    /\ r.resumes = "none" /\ r.recovered = NoAnswer /\ r.before = "own"
    /\ r.pc = "working" => c.current /\ ~c.stray
    /\ r.pc = "answered" => r.answer.current /\ (r.answer.out = "team" => "repro" \notin opts.gates)

\* The gates passed before a gate is reached.
Before(pc) ==
    CASE pc \in {"verify", "verifying"} -> opts.gates \cap {"repro"}
      [] pc \in {"runtime", "probing"} -> opts.gates \cap {"repro", "verify"}
      [] pc = "reviews" -> opts.gates \ {"baseline"}
      [] OTHER -> {}

\* The gates run on intact files: what the reproduction command left is compared where a gate of the
\* steps starts.  A team that failed or was cancelled passes the gates by.
GatesHeld(m, r, w, stopped) ==
    r.pc \in Gating =>
        /\ ~w.tampered \/ (r.team = "no" /\ r.pc \in {"verify", "runtime"})
        /\ r.pc = "reproducing" => r.team = "no" /\ "repro" \in opts.gates
        /\ r.pc \in {"runtime", "probing"} => "runtime" \in opts.gates
        /\ r.team = "no" =>
             /\ m.cursor = Index.test /\ r.pc # "reviews"
             /\ \A s \in m.results \cap Steps : Index[s] <= m.cursor
             /\ r.pc \in {"runtime", "probing"} /\ "verify" \in opts.gates => m.evidence = {<<"verify", m.routes>>}
        /\ r.team = "no" \/ (r.team = "ok" /\ ~stopped) => Before(r.pc) \subseteq w.passed

\* A team works on code no review has approved, and never where a bug is to be reproduced.
TeamRuns(r, w) ==
    /\ r.pc = "team" => r.team = "ok"
    /\ r.team # "no" /\ r.pc \in Gating \cup {"team"} => ~w.approved /\ "repro" \notin opts.gates

\* What a run that leaves the loop has shown.
EndHeld(m, r, w) ==
    /\ r.pc # "down"
    /\ r.pc = "finish" => r.team = "no"
    /\ r.pc = "finish" /\ m.cursor > 6 => Onward(m, w, r.verdict) /\ (Compared(7) => ~w.tampered)
    /\ ReviewDue /\ r.pc \in {"finish", "auditing", "posting", "returned", "over"} => r.verdict # "none"
    /\ r.pc \in {"auditing", "posting"} =>
         /\ GatesDue \subseteq w.passed
         /\ ReviewDue /\ r.team = "no" => w.approved
         /\ Compared(7) \/ r.team # "no" => ~w.tampered

Strays(c) == c.step = "test" /\ c.stray

\* Where a run may be while the last call is a test call that left its role.
StrayHeld(m, r, c) ==
    Strays(c) =>
        \/ r.pc = "answered" /\ m.cursor = Index.test /\ r.answer = c
        \/ r.pc \in {"head", "step", "baselining", "calling"} /\ m.cursor = Index.planner /\ "planner" \in opts.steps
        \/ r.pc \in {"finish", "returned", "over"} /\ m.cursor <= Index.test

Trail(m, r, w, c, stopped) ==
    /\ InLoopHeld(m, r, w)
    /\ CallHeld(r, c)
    /\ GatesHeld(m, r, w, stopped)
    /\ TeamRuns(r, w)
    /\ EndHeld(m, r, w)
    /\ StrayHeld(m, r, c)

PathInvariant == Trail(mem, run, work, child, aborted)

TrailNext == Trail(mem', run', work', child', aborted')

LEMMA TrailKept ==
  ASSUME opts' = opts, TrailNext
  PROVE PathInvariant'
<1>1. InLoopHeld(mem', run', work') => InLoopHeld(mem, run, work)'
  BY DEF InLoopHeld, Looping, Onward, GatesDue, ReviewDue, Cleared, Compared, Comparing
<1>2. CallHeld(run', child') => CallHeld(run, child)'
  BY DEF CallHeld
<1>3. GatesHeld(mem', run', work', aborted') => GatesHeld(mem, run, work, aborted)'
  BY DEF GatesHeld, Gating, Before
<1>4. TeamRuns(run', work') => TeamRuns(run, work)'
  BY DEF TeamRuns, Gating
<1>5. EndHeld(mem', run', work') => EndHeld(mem, run, work)'
  BY DEF EndHeld, Onward, GatesDue, ReviewDue, Compared, Comparing
<1>6. StrayHeld(mem', run', child') => StrayHeld(mem, run, child)'
  BY DEF StrayHeld, Strays
<1> QED BY <1>1, <1>2, <1>3, <1>4, <1>5, <1>6 DEF TrailNext, PathInvariant, Trail

LEMMA IndexIs ==
  /\ Index.clarifier = 1 /\ Index.planner = 2 /\ Index.scaffold = 3 /\ Index.test = 4 /\ Index.review = 5
  /\ Index.cicd = 6
  /\ \A s \in Steps : Index[s] \in 1..6 /\ STEP_ORDER[Index[s]] = s
  /\ \A i \in 1..6 : STEP_ORDER[i] \in Steps /\ Index[STEP_ORDER[i]] = i
<1>1. /\ Index.clarifier = 1 /\ Index.planner = 2 /\ Index.scaffold = 3 /\ Index.test = 4 /\ Index.review = 5
      /\ Index.cicd = 6
  BY DEF Index
<1>2. /\ STEP_ORDER[1] = "clarifier" /\ STEP_ORDER[2] = "planner" /\ STEP_ORDER[3] = "scaffold"
      /\ STEP_ORDER[4] = "test" /\ STEP_ORDER[5] = "review" /\ STEP_ORDER[6] = "cicd"
  BY DEF STEP_ORDER
<1>3. \A i \in 1..6 : i = 1 \/ i = 2 \/ i = 3 \/ i = 4 \/ i = 5 \/ i = 6
  OBVIOUS
<1>4. ASSUME NEW s \in Steps PROVE Index[s] \in 1..6 /\ STEP_ORDER[Index[s]] = s
  BY <1>1, <1>2, StepsAre
<1>5. ASSUME NEW i \in 1..6 PROVE STEP_ORDER[i] \in Steps /\ Index[STEP_ORDER[i]] = i
  BY <1>1, <1>2, <1>3, StepsAre
<1> QED BY <1>1, <1>4, <1>5

\* What the comparison covers grows by the steps that compare.
LEMMA ComparedGrows ==
  ASSUME NEW c \in 1..6
  PROVE /\ Compared(c + 1) => Compared(c) \/ (c \in {3, 4, 5} /\ STEP_ORDER[c] \in opts.steps)
        /\ c <= 2 => ~Compared(c + 1) /\ ~Compared(c)
<1>1. \A s \in Comparing : Index[s] \in {3, 4, 5} /\ STEP_ORDER[Index[s]] = s
  BY IndexIs, StepsAre DEF Comparing
<1>2. ASSUME Compared(c + 1), ~Compared(c) PROVE c \in {3, 4, 5} /\ STEP_ORDER[c] \in opts.steps
  <2>1. PICK s \in Comparing : s \in opts.steps /\ opts.start <= Index[s] /\ Index[s] < c + 1
    BY <1>2 DEF Compared
  <2>2. ~(Index[s] < c)
    BY <1>2, <2>1 DEF Compared
  <2>3. Index[s] = c
    BY <1>1, <2>1, <2>2
  <2> QED BY <1>1, <2>1, <2>3
<1>3. ASSUME c <= 2 PROVE ~Compared(c + 1) /\ ~Compared(c)
  BY <1>1, <1>3 DEF Compared
<1> QED BY <1>2, <1>3

-----------------------------------------------------------------------------
(* The ways on, and what each of them has to show. *)

LEMMA AgainTrails ==
  ASSUME BudgetInvariant, PathInvariant, NEW m, NEW v, Again(m, v), Onward(m, work', v),
         Compared(m.cursor) => ~work'.tampered,
         Strays(child') => m.cursor = Index.planner /\ "planner" \in opts.steps
  PROVE TrailNext
<1>1. /\ mem' = m /\ run'.pc = "head" /\ run'.team = "no" /\ run'.verdict = v
      /\ run'.resumes = run.resumes /\ run'.recovered = run.recovered /\ run'.before = run.before
  BY DEF Again, BudgetInvariant, LoopHeld, Controls
<1>2. run.resumes = "none" /\ run.recovered = NoAnswer /\ run.before = "own"
  BY DEF PathInvariant, Trail, CallHeld
<1>3. InLoopHeld(mem', run', work')
  BY <1>1 DEF InLoopHeld, Cleared
<1>4. CallHeld(run', child')
  BY <1>1, <1>2 DEF CallHeld
<1>5. GatesHeld(mem', run', work', aborted') /\ TeamRuns(run', work') /\ EndHeld(mem', run', work')
  BY <1>1 DEF GatesHeld, TeamRuns, EndHeld, Gating
<1>6. StrayHeld(mem', run', child')
  BY <1>1 DEF StrayHeld
<1> QED BY <1>3, <1>4, <1>5, <1>6 DEF TrailNext, Trail

LEMMA LeftTrails ==
  ASSUME PathInvariant, run'.pc \in {"finish", "returned"}, run'.pc = "finish" => run'.team = "no",
         run'.resumes = run.resumes, run'.recovered = run.recovered, run'.before = run.before,
         ReviewDue => run'.verdict # "none", mem'.cursor \in 1..6, Strays(child') => mem'.cursor <= Index.test
  PROVE TrailNext
<1>1. run.resumes = "none" /\ run.recovered = NoAnswer /\ run.before = "own"
  BY DEF PathInvariant, Trail, CallHeld
<1>2. InLoopHeld(mem', run', work') /\ GatesHeld(mem', run', work', aborted') /\ TeamRuns(run', work')
  BY DEF InLoopHeld, GatesHeld, TeamRuns, Looping, Gating
<1>3. CallHeld(run', child')
  BY <1>1 DEF CallHeld
<1>4. EndHeld(mem', run', work')
  BY DEF EndHeld
<1>5. StrayHeld(mem', run', child')
  BY DEF StrayHeld
<1> QED BY <1>2, <1>3, <1>4, <1>5 DEF TrailNext, Trail

LEMMA StopTrails ==
  ASSUME BudgetInvariant, PathInvariant, NEW m, NEW v, NEW f, Stop(m, v, f), m.cursor \in 1..6,
         ReviewDue => v # "none", Strays(child') => m.cursor <= Index.test
  PROVE TrailNext
<1>1. /\ mem' = m /\ run'.pc = (IF run.team = "no" THEN "finish" ELSE "returned") /\ run'.team = run.team
      /\ run'.verdict = v
      /\ run'.resumes = run.resumes /\ run'.recovered = run.recovered /\ run'.before = run.before
  BY DEF Stop, BudgetInvariant, LoopHeld, Controls
<1> QED BY <1>1, LeftTrails

LEMMA ThrowTrails ==
  ASSUME BudgetInvariant, PathInvariant, NEW m, Throw(m), m.cursor \in 1..6,
         Strays(child') => m.cursor <= Index.test
  PROVE TrailNext
<1>1. /\ mem' = m /\ run'.pc = "returned" /\ run'.team = run.team /\ run'.verdict = "FAILED"
      /\ run'.resumes = run.resumes /\ run'.recovered = run.recovered /\ run'.before = run.before
  BY DEF Throw, BudgetInvariant, LoopHeld, Controls
<1> QED BY <1>1, LeftTrails

\* A rework goes back in front of everything that was established.
LEMMA RoutedOnward ==
  ASSUME NEW m \in Memories, NEW target \in RouteTargets, NEW source, NEW w, NEW v
  PROVE LET n == Routed(m, target, source) IN
          Onward(n, w, v) /\ ~Compared(n.cursor) /\ n.cursor = Index[target]
<1> DEFINE n == Routed(m, target, source)
<1>1. /\ n.cursor = Index[target]
      /\ n.results = IF target = "clarifier" THEN m.results \ (Steps \cup {"verify"}) ELSE m.results \cap {"clarifier"}
  BY DEF Routed, Memories
<1> HIDE DEF n
<1>2. n.cursor \in {1, 2} /\ (target = "planner" => n.cursor = 2)
  BY <1>1, IndexIs DEF RouteTargets
<1>3. \A s \in n.results \cap Steps : s = "clarifier" /\ target = "planner"
  BY <1>1 DEF RouteTargets
<1>4. "verify" \notin n.results
  BY <1>1 DEF RouteTargets
<1>5. \A s \in n.results \cap Steps : Index[s] <= n.cursor
  BY <1>2, <1>3, IndexIs
<1>6. Onward(n, w, v)
  BY <1>2, <1>4, <1>5, IndexIs DEF Onward
<1>7. ~Compared(n.cursor)
  BY <1>2, ComparedGrows
<1> QED BY <1>1, <1>6, <1>7 DEF n

LEMMA RouteTrails ==
  ASSUME BudgetInvariant, PathInvariant, NEW m, m \in Memories, m.cursor \in 1..6, NEW target \in RouteTargets,
         NEW source, NEW carried, NEW v, v # "none", RouteTo(m, target, source, carried, v),
         Strays(child') => target = "planner" /\ m.cursor <= Index.test
  PROVE TrailNext
<1>1. CASE CanRoute(m, target)
  <2> DEFINE n == Routed(m, target, source)
  <2>1. Again(n, carried)
    BY <1>1 DEF RouteTo
  <2>2. Onward(n, work', carried) /\ ~Compared(n.cursor) /\ n.cursor = Index[target]
    BY RoutedOnward
  <2>3. target \in opts.steps
    BY <1>1 DEF CanRoute
  <2> HIDE DEF n
  <2> QED BY <2>1, <2>2, <2>3, AgainTrails
<1>2. CASE ~CanRoute(m, target)
  <2>1. Stop(m, v, TRUE)
    BY <1>2 DEF RouteTo
  <2> QED BY <2>1, StopTrails
<1> QED BY <1>1, <1>2

LEMMA IssueTrails ==
  ASSUME BudgetInvariant, PathInvariant, NEW m, m \in Memories, m.cursor \in 1..6, NEW routed \in BOOLEAN,
         IntegrityIssue(m, routed), Strays(child') => m.cursor <= Index.test
  PROVE TrailNext
<1> DEFINE n == [m EXCEPT !.violations = @ + 1]
<1>1. n \in Memories /\ n.cursor = m.cursor
  BY DEF Memories
<1>2. CASE routed
  <2>1. RouteTo(n, "planner", "role-boundary", run.verdict, "FAILED")
    BY <1>2 DEF IntegrityIssue
  <2> HIDE DEF n
  <2>2. "planner" \in RouteTargets
    BY DEF RouteTargets
  <2> QED BY <1>1, <2>1, <2>2, RouteTrails
<1>3. CASE ~routed
  <2>1. Stop(n, "CANCELLED", TRUE)
    BY <1>3 DEF IntegrityIssue
  <2> HIDE DEF n
  <2> QED BY <1>1, <2>1, StopTrails
<1> QED BY <1>2, <1>3

LEMMA BaselineIssueTrails ==
  ASSUME BudgetInvariant, PathInvariant, NEW m, m \in Memories, m.cursor \in 1..6, BaselineIssue(m),
         Strays(child') => m.cursor <= Index.test
  PROVE TrailNext
<1> DEFINE n == [m EXCEPT !.violations = @ + 1]
<1>1. n \in Memories /\ n.cursor = m.cursor
  BY DEF Memories
<1>2. RouteTo(n, "planner", "role-boundary", run.verdict, "FAILED")
  BY DEF BaselineIssue
<1> HIDE DEF n
<1>3. "planner" \in RouteTargets
  BY DEF RouteTargets
<1> QED BY <1>1, <1>2, <1>3, RouteTrails

LEMMA UnknownTrails ==
  ASSUME BudgetInvariant, PathInvariant, NEW m, m.cursor \in 1..6, IntegrityUnknown(m),
         Strays(child') => m.cursor <= Index.test
  PROVE TrailNext
<1>1. Stop(m, "BLOCKED", TRUE)
  BY DEF IntegrityUnknown
<1> QED BY <1>1, StopTrails

Ordered(m) == \A s \in m.results \cap Steps : Index[s] <= m.cursor

\* The run comes to a gate, or to the reviews of a team.
LEMMA GatePlace ==
  ASSUME PathInvariant, run'.pc \in Gating, ~Strays(child'),
         ~work'.tampered \/ (run'.team = "no" /\ run'.pc \in {"verify", "runtime"}),
         run'.pc = "reproducing" => run'.team = "no" /\ "repro" \in opts.gates,
         run'.resumes = run.resumes, run'.recovered = run.recovered, run'.before = run.before,
         run'.pc \in {"runtime", "probing"} => "runtime" \in opts.gates,
         run'.team = "no" => mem'.cursor = Index.test /\ run'.pc # "reviews" /\ Ordered(mem'),
         run'.team = "no" /\ run'.pc \in {"runtime", "probing"} /\ "verify" \in opts.gates =>
            mem'.evidence = {<<"verify", mem'.routes>>},
         run'.team = "no" \/ (run'.team = "ok" /\ ~aborted') => Before(run'.pc) \subseteq work'.passed,
         run'.team # "no" => ~work'.approved /\ "repro" \notin opts.gates
  PROVE TrailNext
<1>1. run.resumes = "none" /\ run.recovered = NoAnswer /\ run.before = "own"
  BY DEF PathInvariant, Trail, CallHeld
<1>2. run'.pc \notin Looping \cup {"team", "down", "finish", "auditing", "posting", "returned", "over"}
  BY DEF Gating, Looping
<1>3. InLoopHeld(mem', run', work') /\ EndHeld(mem', run', work')
  BY <1>2 DEF InLoopHeld, EndHeld
<1>4. CallHeld(run', child')
  BY <1>1, <1>2 DEF CallHeld, Looping
<1>5. GatesHeld(mem', run', work', aborted')
  BY DEF GatesHeld, Ordered
<1>6. TeamRuns(run', work')
  BY <1>2 DEF TeamRuns
<1>7. StrayHeld(mem', run', child')
  BY DEF StrayHeld
<1> QED BY <1>3, <1>4, <1>5, <1>6, <1>7 DEF TrailNext, Trail

LEMMA GateTrails ==
  ASSUME BudgetInvariant, PathInvariant, NEW m, NEW pc \in Gating, Goto(m, pc), ~Strays(child'),
         ~work'.tampered \/ (run.team = "no" /\ pc \in {"verify", "runtime"}),
         pc = "reproducing" => run.team = "no" /\ "repro" \in opts.gates,
         pc \in {"runtime", "probing"} => "runtime" \in opts.gates,
         run.team = "no" => m.cursor = Index.test /\ pc # "reviews" /\ Ordered(m),
         run.team = "no" /\ pc \in {"runtime", "probing"} /\ "verify" \in opts.gates => m.evidence = {<<"verify", m.routes>>},
         run.team = "no" \/ (run.team = "ok" /\ ~aborted') => Before(pc) \subseteq work'.passed,
         run.team # "no" => ~work'.approved /\ "repro" \notin opts.gates
  PROVE TrailNext
<1>1. /\ mem' = m /\ run'.pc = pc /\ run'.team = run.team
      /\ run'.resumes = run.resumes /\ run'.recovered = run.recovered /\ run'.before = run.before
  BY DEF Goto, BudgetInvariant, LoopHeld, Controls
<1> QED BY <1>1, GatePlace

\* The gates that are passed with g.
Behind(g) ==
    CASE g = "start" -> opts.gates \cap {"repro"}
      [] g = "verify" -> opts.gates \cap {"repro", "verify"}
      [] g = "runtime" -> opts.gates \ {"baseline"}

LEMMA PassTrails ==
  ASSUME BudgetInvariant, PathInvariant, NEW m \in Memories, NEW g \in {"start", "verify", "runtime"}, PassGate(m, g),
         ~Strays(child'), ~work'.tampered \/ (g = "start" /\ run.team = "no" /\ "repro" \in opts.gates),
         g = "runtime" => "runtime" \in opts.gates,
         run.team = "no" => m.cursor = Index.test /\ Ordered(m),
         run.team = "no" /\ g = "verify" => m.evidence = {<<"verify", m.routes>>},
         run.team = "no" /\ g = "runtime" /\ "verify" \in opts.gates =>
            m.evidence = {<<"verify", m.routes>>, <<"runtime", m.routes>>},
         run.team = "no" \/ (run.team = "ok" /\ ~aborted') => Behind(g) \subseteq work'.passed,
         run.team # "no" => ~work'.approved /\ "repro" \notin opts.gates
  PROVE TrailNext
<1>1. opts.gates \subseteq Gates
  BY OptionsAssumption DEF BudgetInvariant, Surroundings, OptionSet
<1>2. CASE GateAfter(g) # "end"
  <2> DEFINE pc == GateAfter(g)
  <2>1. /\ pc \in {"verify", "runtime"} /\ pc \in opts.gates
        /\ pc = "verify" => g = "start"
        /\ pc = "runtime" => g = "verify" \/ "verify" \notin opts.gates
    BY <1>2 DEF GateAfter
  <2>2. Goto(m, pc)
    BY <1>2 DEF PassGate
  <2> HIDE DEF pc
  <2>3. pc \in Gating
    BY <2>1 DEF Gating
  <2>4. Before(pc) \subseteq Behind(g)
    BY <2>1 DEF Before, Behind
  <2> QED BY <2>1, <2>2, <2>3, <2>4, GateTrails
<1>3. CASE GateAfter(g) = "end"
  <2>1. g # "runtime" => "runtime" \notin opts.gates
    BY <1>3 DEF GateAfter
  <2>2. g = "start" => "verify" \notin opts.gates
    BY <1>3 DEF GateAfter
  <2>3. opts.gates \ {"baseline"} \subseteq Behind(g)
    BY <1>1, <2>1, <2>2 DEF Gates, Behind
  <2>4. CASE run.team = "no"
    <3> DEFINE n == [m EXCEPT !.cursor = @ + 1]
    <3>1. Again(n, run.verdict)
      BY <1>3, <2>4 DEF PassGate
    <3>2. n.cursor = 5 /\ n.results = m.results /\ n.evidence = m.evidence /\ n.routes = m.routes
      BY <2>4, IndexIs DEF Memories
    <3> HIDE DEF n
    <3>3. GatesDue \subseteq opts.gates \ {"baseline"} /\ (GatesDue # {} => GatesDue = opts.gates \ {"baseline"})
      BY DEF GatesDue
    <3>4. ASSUME "verify" \in GatesDue
          PROVE n.evidence = {<<h, n.routes>> : h \in GatesDue \cap {"verify", "runtime"}}
      <4>1. GatesDue = opts.gates \ {"baseline"} /\ "verify" \in opts.gates
        BY <3>3, <3>4
      <4>2. CASE g = "runtime"
        <5>1. GatesDue \cap {"verify", "runtime"} = {"verify", "runtime"}
          BY <4>1, <4>2
        <5> QED BY <2>4, <3>2, <4>1, <4>2, <5>1
      <4>3. CASE g = "verify"
        <5>1. GatesDue \cap {"verify", "runtime"} = {"verify"}
          BY <2>1, <4>1, <4>3
        <5> QED BY <2>4, <3>2, <4>3, <5>1
      <4> QED BY <2>2, <4>1, <4>2, <4>3
    <3>5. Onward(n, work', run.verdict)
      <4>1. \A s \in n.results \cap Steps : Index[s] <= n.cursor
        BY <2>4, <3>2, IndexIs DEF Ordered
      <4> QED BY <2>3, <2>4, <3>2, <3>3, <3>4, <4>1, IndexIs DEF Onward
    <3>6. Compared(n.cursor) => ~work'.tampered
      <4>1. g = "start" /\ "repro" \in opts.gates => Comparing = {"review"}
        BY <2>1, <2>2 DEF Comparing
      <4>2. Comparing = {"review"} => ~Compared(n.cursor)
        BY <3>2, IndexIs DEF Compared
      <4> QED BY <4>1, <4>2
    <3> QED BY <3>1, <3>5, <3>6, AgainTrails
  <2>5. CASE run.team # "no"
    <3>1. Goto(m, "reviews") /\ "reviews" \in Gating
      BY <1>3, <2>5 DEF PassGate, Gating
    <3>2. Before("reviews") \subseteq Behind(g)
      BY <2>3 DEF Before
    <3> QED BY <2>5, <3>1, <3>2, GateTrails
  <2> QED BY <2>4, <2>5
<1> QED BY <1>2, <1>3

\* The run goes on with its step, inside the loop.
LEMMA StayTrails ==
  ASSUME BudgetInvariant, PathInvariant, NEW m, NEW pc \in {"step", "baselining"}, Goto(m, pc),
         run.team = "no", Onward(m, work', run.verdict), Compared(m.cursor) => ~work'.tampered,
         Strays(child') => m.cursor = Index.planner /\ "planner" \in opts.steps
  PROVE TrailNext
<1>1. /\ mem' = m /\ run'.pc = pc /\ run'.team = "no" /\ run'.verdict = run.verdict
      /\ run'.resumes = run.resumes /\ run'.recovered = run.recovered /\ run'.before = run.before
  BY DEF Goto, BudgetInvariant, LoopHeld, Controls
<1>2. run.resumes = "none" /\ run.recovered = NoAnswer /\ run.before = "own"
  BY DEF PathInvariant, Trail, CallHeld
<1>3. InLoopHeld(mem', run', work')
  BY <1>1 DEF InLoopHeld, Cleared
<1>4. CallHeld(run', child') /\ GatesHeld(mem', run', work', aborted') /\ TeamRuns(run', work') /\ EndHeld(mem', run', work')
  BY <1>1, <1>2 DEF CallHeld, GatesHeld, TeamRuns, EndHeld, Gating
<1>5. StrayHeld(mem', run', child')
  BY <1>1 DEF StrayHeld
<1> QED BY <1>3, <1>4, <1>5 DEF TrailNext, Trail

\* A step is behind the run.
LEMMA OnwardMoves ==
  ASSUME NEW m, NEW n, NEW w, NEW u, NEW v, m.cursor \in 1..6, Onward(m, w, u),
         n.cursor = m.cursor + 1, n.routes = m.routes, n.evidence = m.evidence,
         \A s \in n.results : s \in m.results \/ (s \in Steps /\ Index[s] = m.cursor),
         m.cursor = Index.test => GatesDue = {},
         m.cursor = Index.review => (ReviewDue => w.approved),
         ReviewDue /\ m.cursor >= Index.review => v # "none"
  PROVE Onward(n, w, v)
<1>1. \A s \in n.results \cap Steps : Index[s] <= n.cursor
  <2>1. ASSUME NEW s \in n.results \cap Steps PROVE Index[s] <= n.cursor
    <3>1. Index[s] <= m.cursor /\ Index[s] \in 1..6
      <4>1. Index[s] \in 1..6
        BY IndexIs
      <4>2. s \in m.results => Index[s] <= m.cursor
        BY DEF Onward
      <4> QED BY <4>1, <4>2
    <3> QED BY <3>1
  <2> QED BY <2>1
<1>2. "verify" \in n.results => n.cursor > Index.test
  <2>1. "verify" \notin Steps
    BY StepsAre
  <2> QED BY <2>1, IndexIs DEF Onward
<1>3. n.cursor > Index.test => GatesDue \subseteq w.passed
  BY IndexIs DEF Onward
<1>4. n.cursor > Index.test /\ "verify" \in GatesDue =>
        n.evidence = {<<g, n.routes>> : g \in GatesDue \cap {"verify", "runtime"}}
  BY IndexIs DEF Onward
<1>5. ReviewDue /\ n.cursor > Index.review => w.approved /\ v # "none"
  BY IndexIs DEF Onward
<1> QED BY <1>1, <1>2, <1>3, <1>4, <1>5 DEF Onward

-----------------------------------------------------------------------------
(* Every action of the loop keeps the trail. *)

\* What the invariants say at a place inside the loop.
LEMMA LoopFacts ==
  ASSUME BudgetInvariant, PathInvariant, run.pc \in Looping
  PROVE /\ run.team = "no" /\ Onward(mem, work, run.verdict) /\ (Cleared(mem, run.pc) => ~work.tampered)
        /\ mem \in Memories /\ mem.cursor \in 1..7 /\ (run.pc # "head" => mem.cursor \in 1..6)
        /\ run.verdict \in Verdicts
<1>1. mem \in Memories /\ run \in Controls
  BY DEF BudgetInvariant, LoopHeld, Sound
<1>2. mem.cursor \in 1..7 /\ (run.pc # "head" => mem.cursor <= 6)
  BY <1>1, MemoryFields DEF BudgetInvariant, LoopHeld, InLoop, Looping, Places
<1> QED BY <1>1, <1>2, ControlFields DEF PathInvariant, Trail, InLoopHeld

LEMMA StrayFacts ==
  ASSUME BudgetInvariant, PathInvariant, Strays(child)
  PROVE /\ mem.cursor <= Index.test
        /\ run.pc \in {"head", "step", "baselining", "calling"} =>
             mem.cursor = Index.planner /\ "planner" \in opts.steps
        /\ run.pc = "answered" => mem.cursor = Index.test /\ run.answer = child
        /\ run.pc \in {"head", "step", "baselining", "calling", "answered", "finish", "returned", "over"}
  BY IndexIs DEF PathInvariant, Trail, StrayHeld

LEMMA LoopHeadTrails == BudgetInvariant /\ PathInvariant /\ LoopHead => TrailNext
<1> SUFFICES ASSUME BudgetInvariant, PathInvariant, LoopHead PROVE TrailNext
  OBVIOUS
<1>1. run.pc = "head" /\ work' = work /\ child' = child
  BY DEF LoopHead, CancelAtHead, SkipStep, EnterStep, LeaveLoop, At
<1>2. /\ run.team = "no" /\ Onward(mem, work, run.verdict) /\ (Compared(mem.cursor) => ~work.tampered)
      /\ mem \in Memories /\ mem.cursor \in 1..7
  BY <1>1, LoopFacts DEF Looping, Cleared
<1>3. Strays(child) => mem.cursor = Index.planner /\ "planner" \in opts.steps
  BY <1>1, StrayFacts
<1>4. CASE CancelAtHead
  <2>1. Stop(mem, "CANCELLED", FALSE) /\ mem.cursor <= 6
    BY <1>4 DEF CancelAtHead
  <2>2. Strays(child') => mem.cursor <= Index.test
    BY <1>1, <1>3, IndexIs
  <2>3. mem.cursor \in 1..6
    BY <1>2, <2>1
  <2> QED BY <2>1, <2>2, <2>3, StopTrails
<1>5. CASE SkipStep
  <2> DEFINE n == [mem EXCEPT !.cursor = @ + 1]
  <2>1. Again(n, run.verdict) /\ mem.cursor \in 1..6 /\ STEP_ORDER[mem.cursor] \notin opts.steps
    BY <1>2, <1>5 DEF SkipStep, Step
  <2>2. n.cursor = mem.cursor + 1 /\ n.routes = mem.routes /\ n.evidence = mem.evidence /\ n.results = mem.results
    BY <1>2 DEF Memories
  <2> HIDE DEF n
  <2>3. STEP_ORDER[4] = "test" /\ STEP_ORDER[5] = "review" /\ STEP_ORDER[2] = "planner"
    BY DEF STEP_ORDER
  <2>4. mem.cursor = 4 => GatesDue = {}
    BY <2>1, <2>3 DEF GatesDue
  <2>5. mem.cursor = 5 => ~ReviewDue
    BY <2>1, <2>3 DEF ReviewDue
  <2>6. ReviewDue /\ mem.cursor >= 5 => run.verdict # "none"
    BY <1>2, <2>5, IndexIs DEF Onward
  <2>7. Onward(n, work, run.verdict)
    BY <1>2, <2>1, <2>2, <2>4, <2>5, <2>6, IndexIs, OnwardMoves
  <2>8. Compared(n.cursor) => Compared(mem.cursor)
    BY <2>1, <2>2, ComparedGrows
  <2>9. ~Strays(child)
    BY <1>3, <2>1, <2>3, IndexIs
  <2> QED BY <1>1, <1>2, <2>1, <2>7, <2>8, <2>9, AgainTrails
<1>6. CASE EnterStep
  BY <1>1, <1>2, <1>3, <1>6, StayTrails DEF EnterStep
<1>7. CASE LeaveLoop
  <2>1. /\ mem' = mem /\ run'.pc = "finish" /\ run'.team = "no" /\ run'.verdict = run.verdict /\ mem.cursor > 6
        /\ run'.resumes = run.resumes /\ run'.recovered = run.recovered /\ run'.before = run.before
    BY <1>2, <1>7 DEF LeaveLoop, Goto, BudgetInvariant, LoopHeld, Controls
  <2>2. ~Strays(child)
    BY <1>3, <2>1, IndexIs
  <2>3. run.resumes = "none" /\ run.recovered = NoAnswer /\ run.before = "own"
    BY DEF PathInvariant, Trail, CallHeld
  <2>4. mem.cursor = 7
    BY <1>2, <2>1
  <2>5. EndHeld(mem', run', work')
    <3>1. ReviewDue => run.verdict # "none"
      BY <1>2, <2>4, IndexIs DEF Onward
    <3> QED BY <1>1, <1>2, <2>1, <2>4, <3>1 DEF EndHeld
  <2> QED BY <1>1, <2>1, <2>2, <2>3, <2>5
          DEF TrailNext, Trail, InLoopHeld, Looping, CallHeld, GatesHeld, Gating, TeamRuns, StrayHeld
<1> QED BY <1>4, <1>5, <1>6, <1>7 DEF LoopHead

LEMMA BaselineTrails == BudgetInvariant /\ PathInvariant /\ Baseline => TrailNext
<1> SUFFICES ASSUME BudgetInvariant, PathInvariant, Baseline PROVE TrailNext
  OBVIOUS
<1>1. run.pc \in {"step", "baselining"} /\ child' = child
  BY DEF Baseline, CaptureFails, CaptureBaseline, BaselineEnds, At
<1>2. /\ run.team = "no" /\ Onward(mem, work, run.verdict) /\ (Compared(mem.cursor) => ~work.tampered)
      /\ mem \in Memories /\ mem.cursor \in 1..6
  BY <1>1, LoopFacts DEF Looping, Cleared
<1>3. Strays(child) => mem.cursor = Index.planner /\ "planner" \in opts.steps
  BY <1>1, StrayFacts
<1>4. Strays(child') => mem.cursor <= Index.test
  BY <1>1, <1>3, IndexIs
<1>5. CASE CaptureFails
  BY <1>2, <1>4, <1>5, StopTrails DEF CaptureFails
<1>6. CASE CaptureBaseline
  <2> DEFINE m == [mem EXCEPT !.baseline = TRUE]
  <2>1. PICK pc \in {"baselining", "step"} : Goto(m, pc) /\ work' = work
    BY <1>6 DEF CaptureBaseline
  <2>2. m.cursor = mem.cursor /\ m.routes = mem.routes /\ m.evidence = mem.evidence /\ m.results = mem.results
    BY <1>2 DEF Memories
  <2> HIDE DEF m
  <2>3. Onward(m, work, run.verdict)
    BY <1>2, <2>2 DEF Onward
  <2> QED BY <1>1, <1>2, <1>3, <2>1, <2>2, <2>3, StayTrails
<1>7. CASE BaselineEnds
  <2> DEFINE m == [mem EXCEPT !.results = @ \cup {"verify-baseline"}]
  <2>1. m \in Memories /\ m.cursor = mem.cursor /\ m.routes = mem.routes /\ m.evidence = mem.evidence
        /\ m.results = mem.results \cup {"verify-baseline"}
    <3>1. mem.results \cup {"verify-baseline"} \in ResultSets
      BY <1>2, MemoryFields DEF ResultSets
    <3> QED BY <1>2, <3>1 DEF Memories
  <2>2. PICK tampered \in BOOLEAN :
          /\ work' = [work EXCEPT !.tampered = tampered, !.changed = @ \/ tampered]
          /\ \/ Stop(m, "CANCELLED", FALSE)
             \/ Throw(m)
             \/ BaselineIssue(m)
             \/ Stop(m, "BLOCKED", TRUE)
             \/ ~tampered /\ Goto(m, "step")
    BY <1>7 DEF BaselineEnds
  <2> HIDE DEF m
  <2>3. CASE Stop(m, "CANCELLED", FALSE)
    BY <1>2, <1>4, <2>1, <2>3, StopTrails
  <2>4. CASE Throw(m)
    BY <1>2, <1>4, <2>1, <2>4, ThrowTrails
  <2>5. CASE BaselineIssue(m)
    BY <1>2, <1>4, <2>1, <2>5, BaselineIssueTrails
  <2>6. CASE Stop(m, "BLOCKED", TRUE)
    BY <1>2, <1>4, <2>1, <2>6, StopTrails
  <2>7. CASE ~tampered /\ Goto(m, "step")
    <3>1. work' = [work EXCEPT !.tampered = tampered, !.changed = @ \/ tampered] /\ work \in Workspaces
      BY <2>2 DEF BudgetInvariant, Surroundings
    <3>2. work'.passed = work.passed /\ work'.approved = work.approved /\ ~work'.tampered
      BY <2>7, <3>1 DEF Workspaces
    <3>3. Onward(m, work', run.verdict)
      <4>1. "verify-baseline" \notin Steps
        BY StepsAre
      <4> QED BY <1>2, <2>1, <3>2, <4>1 DEF Onward
    <3> QED BY <1>1, <1>2, <1>3, <2>1, <2>7, <3>2, <3>3, StayTrails
  <2> QED BY <2>2, <2>3, <2>4, <2>5, <2>6, <2>7
<1> QED BY <1>5, <1>6, <1>7 DEF Baseline

LEMMA StepIs ==
  ASSUME mem.cursor \in 1..6
  PROVE /\ Step \in Steps /\ Index[Step] = mem.cursor
        /\ Step = "test" <=> mem.cursor = 4
        /\ Step = "planner" <=> mem.cursor = 2
        /\ Step = "review" <=> mem.cursor = 5
        /\ Step \in Writers <=> mem.cursor \in {3, 4, 6}
<1>1. Step \in Steps /\ Index[Step] = mem.cursor
  BY IndexIs DEF Step
<1>2. Step \in {"clarifier", "planner", "scaffold", "test", "review", "cicd"}
  BY <1>1, StepsAre
<1> QED BY <1>1, <1>2, IndexIs DEF Writers

LEMMA StartTrails == BudgetInvariant /\ PathInvariant /\ StartStep => TrailNext
<1> SUFFICES ASSUME BudgetInvariant, PathInvariant, StartStep PROVE TrailNext
  OBVIOUS
<1> DEFINE m == [Counted EXCEPT !.instructed = @ \/ opts.instruction]
           recovered == Resumed /\ run.recovered # NoAnswer
<1>1. /\ run.pc = "step" /\ child' = child /\ work' = work
      /\ Step = "review" => ~work.tampered
  BY DEF StartStep, StepAllowed, StepReady, At
<1>2. /\ run.team = "no" /\ Onward(mem, work, run.verdict) /\ (Compared(mem.cursor) => ~work.tampered)
      /\ mem \in Memories /\ mem.cursor \in 1..6
  BY <1>1, LoopFacts DEF Looping, Cleared
<1>3. Counted \in Memories /\ Counted.executed < Cap
  BY <1>1, <1>2 DEF BudgetInvariant, CapUnreached, Counted, Memories
<1>4. /\ m.executed = Counted.executed /\ m.cursor = mem.cursor /\ m.routes = mem.routes /\ m.evidence = mem.evidence
      /\ m.results = mem.results
  BY <1>2, <1>3 DEF Counted, Memories
<1>5. run.resumes = "none" /\ run.recovered = NoAnswer /\ run.before = "own"
  BY DEF PathInvariant, Trail, CallHeld
<1>6. ~recovered /\ ~Resumed
  <2>1. "none" \notin Steps
    BY StepsAre
  <2> QED BY <1>2, <1>5, <2>1, StepIs DEF Resumed
<1>7. m.executed <= Cap /\ ~(m.executed > Cap)
  <2>1. Counted.executed \in Nat /\ Cap \in Nat
    <3>1. opts.maxRoutes \in Nat /\ opts.clarifyRounds \in Nat
      BY OptionFields DEF BudgetInvariant, Surroundings
    <3> QED BY <1>3, <3>1, MemoryFields DEF Cap
  <2> QED BY <1>3, <1>4, <2>1
<1>8. /\ mem' = m
      /\ run' = [run EXCEPT !.pc = "calling", !.answer = NoAnswer, !.before = "own",
                            !.resumes = IF Resumed THEN "none" ELSE @]
  BY <1>6, <1>7 DEF StartStep
<1> HIDE DEF m, recovered
<1>9. /\ run'.pc = "calling" /\ run'.team = "no" /\ run'.verdict = run.verdict
      /\ run'.resumes = "none" /\ run'.recovered = NoAnswer /\ run'.before = "own"
  BY <1>2, <1>5, <1>6, <1>8 DEF BudgetInvariant, LoopHeld, Controls
<1>10. InLoopHeld(mem', run', work')
  <2>1. Onward(m, work, run.verdict)
    BY <1>2, <1>4 DEF Onward
  <2>2. Cleared(m, "calling") => ~work.tampered
    BY <1>1, <1>2, <1>4, StepIs, IndexIs DEF Cleared
  <2> QED BY <1>1, <1>8, <1>9, <2>1, <2>2 DEF InLoopHeld
<1>11. CallHeld(run', child') /\ GatesHeld(mem', run', work', aborted') /\ TeamRuns(run', work') /\ EndHeld(mem', run', work')
  BY <1>9 DEF CallHeld, GatesHeld, TeamRuns, EndHeld, Gating
<1>12. StrayHeld(mem', run', child')
  BY <1>1, <1>4, <1>8, <1>9, StrayFacts DEF StrayHeld
<1> QED BY <1>10, <1>11, <1>12 DEF TrailNext, Trail

LEMMA CallStartsTrails == BudgetInvariant /\ PathInvariant /\ CallStarts => TrailNext
<1> SUFFICES ASSUME BudgetInvariant, PathInvariant, CallStarts PROVE TrailNext
  OBVIOUS
<1>1. run.pc = "calling" /\ mem' = mem
  BY DEF CallStarts, At
<1>2. /\ run.team = "no" /\ Onward(mem, work, run.verdict) /\ (Cleared(mem, "calling") => ~work.tampered)
      /\ mem \in Memories /\ mem.cursor \in 1..6
  BY <1>1, LoopFacts DEF Looping
<1>3. run.resumes = "none" /\ run.recovered = NoAnswer /\ run.before = "own"
  BY DEF PathInvariant, Trail, CallHeld
<1>4. PICK status \in {"RUNNING", "BLOCKED"} :
        LET started == [NoChild EXCEPT !.step = Step, !.status = status, !.current = TRUE] IN
          /\ child' = started
          /\ run' = [run EXCEPT !.pc = IF status = "RUNNING" THEN "working" ELSE "answered",
                                !.answer = IF status = "RUNNING" THEN NoAnswer ELSE started,
                                !.recovered.current = IF Step \in {"scaffold", "test"} THEN FALSE ELSE @]
  BY DEF CallStarts
<1>5. child'.current /\ ~child'.stray /\ child'.out = "none"
  BY <1>4 DEF NoChild, NoAnswer
<1>6. /\ run'.pc \in {"working", "answered"} /\ run'.team = "no" /\ run'.verdict = run.verdict
      /\ run'.resumes = "none" /\ run'.before = "own"
      /\ run'.pc = "answered" => run'.answer = child'
  BY <1>2, <1>3, <1>4 DEF BudgetInvariant, LoopHeld, Controls
<1>7. run'.recovered = NoAnswer
  <2>1. run'.recovered = [run.recovered EXCEPT !.current = IF Step \in {"scaffold", "test"} THEN FALSE ELSE @]
    BY <1>4 DEF BudgetInvariant, LoopHeld, Controls
  <2>2. run'.recovered = [NoAnswer EXCEPT !.current = FALSE]
    BY <1>3, <2>1 DEF NoAnswer
  <2> QED BY <2>2 DEF NoAnswer
<1>8. /\ work'.tampered = work.tampered
      /\ mem.cursor > 4 => work' = work
  <2>1. work' = IF Step \in {"scaffold", "test"} THEN [work EXCEPT !.passed = {}, !.approved = FALSE] ELSE work
    BY DEF CallStarts
  <2>2. mem.cursor > 4 => Step \notin {"scaffold", "test"}
    BY <1>2, StepIs, IndexIs
  <2> QED BY <2>1, <2>2 DEF BudgetInvariant, Surroundings, Workspaces
<1>9. InLoopHeld(mem', run', work')
  <2>1. Onward(mem, work', run.verdict)
    BY <1>2, <1>8, IndexIs DEF Onward
  <2>2. Cleared(mem, run'.pc) => Cleared(mem, "calling")
    BY <1>6 DEF Cleared
  <2> QED BY <1>1, <1>2, <1>6, <1>8, <2>1, <2>2 DEF InLoopHeld
<1>10. CallHeld(run', child')
  BY <1>5, <1>6, <1>7 DEF CallHeld
<1>11. GatesHeld(mem', run', work', aborted') /\ TeamRuns(run', work') /\ EndHeld(mem', run', work')
  BY <1>6 DEF GatesHeld, TeamRuns, EndHeld, Gating
<1>12. StrayHeld(mem', run', child')
  BY <1>5 DEF StrayHeld, Strays
<1> QED BY <1>9, <1>10, <1>11, <1>12 DEF TrailNext, Trail

LEMMA CallEndsTrails == BudgetInvariant /\ PathInvariant /\ CallEnds => TrailNext
<1> SUFFICES ASSUME BudgetInvariant, PathInvariant, CallEnds PROVE TrailNext
  OBVIOUS
<1>1. run.pc = "working" /\ mem' = mem
  BY DEF CallEnds, At
<1>2. /\ run.team = "no" /\ Onward(mem, work, run.verdict) /\ (Cleared(mem, "working") => ~work.tampered)
      /\ mem \in Memories /\ mem.cursor \in 1..6
  BY <1>1, LoopFacts DEF Looping
<1>3. run.resumes = "none" /\ run.recovered = NoAnswer /\ run.before = "own" /\ child.current
  BY <1>1 DEF PathInvariant, Trail, CallHeld
<1>4. PICK status \in IF aborted THEN {"CANCELLED"} ELSE {"DONE", "FAILED"},
           out \in Outputs(Step) \cup {"none"}, changed, tampered, stray, throws \in BOOLEAN :
             CallResult(status, out, changed, tampered, stray, throws)
  BY DEF CallEnds
<1>5. /\ child'.current /\ child'.out = out /\ child'.stray = stray
      /\ stray => mem.cursor = 4
      /\ out = "team" => "repro" \notin opts.gates
  <2>1. child' = [child EXCEPT !.status = status, !.out = out, !.stray = stray]
    BY <1>4 DEF CallResult
  <2>2. stray => Step = "test"
    BY <1>4 DEF CallResult
  <2>3. out = "team" => "repro" \notin opts.gates
    <3>1. Step \in {"clarifier", "planner", "scaffold", "test", "review", "cicd"}
      BY <1>2, StepIs, StepsAre
    <3> HIDE DEF Step
    <3> QED BY <3>1 DEF Outputs, RouteTargets
  <2> QED BY <1>2, <1>3, <2>1, <2>2, <2>3, StepIs DEF BudgetInvariant, Surroundings, Answers
<1>6. /\ work'.passed = work.passed /\ work'.approved = work.approved /\ work'.tampered = tampered
      /\ mem.cursor \notin {3, 4, 6} => tampered = work.tampered
  <2>1. work' = [work EXCEPT !.tampered = tampered, !.changed = @ \/ changed] /\ (Step \notin Writers => tampered = work.tampered)
    BY <1>4 DEF CallResult
  <2> QED BY <1>2, <2>1, StepIs DEF BudgetInvariant, Surroundings, Workspaces
<1>7. CASE throws
  <2>1. run' = [run EXCEPT !.pc = "returned", !.verdict = "FAILED", !.failure = TRUE]
    BY <1>4, <1>7 DEF CallResult
  <2>2. /\ run'.pc = "returned" /\ run'.verdict = "FAILED"
        /\ run'.resumes = run.resumes /\ run'.recovered = run.recovered /\ run'.before = run.before
    BY <2>1 DEF BudgetInvariant, LoopHeld, Controls
  <2>3. Strays(child') => mem.cursor <= Index.test
    BY <1>5, IndexIs DEF Strays
  <2> QED BY <1>1, <1>2, <2>2, <2>3, LeftTrails
<1>8. CASE ~throws
  <2>1. run' = [run EXCEPT !.pc = "answered", !.answer = child']
    BY <1>4, <1>8 DEF CallResult
  <2>2. /\ run'.pc = "answered" /\ run'.team = "no" /\ run'.verdict = run.verdict /\ run'.answer = child'
        /\ run'.resumes = run.resumes /\ run'.recovered = run.recovered /\ run'.before = run.before
    BY <1>2, <2>1 DEF BudgetInvariant, LoopHeld, Controls
  <2>3. InLoopHeld(mem', run', work')
    <3>1. Onward(mem, work', run.verdict)
      BY <1>2, <1>6 DEF Onward
    <3>2. Cleared(mem, "answered") => Cleared(mem, "working") /\ mem.cursor \notin {3, 4, 6}
      BY IndexIs DEF Cleared
    <3> QED BY <1>1, <1>2, <1>6, <2>2, <3>1, <3>2 DEF InLoopHeld
  <2>4. CallHeld(run', child')
    BY <1>3, <1>5, <2>2 DEF CallHeld
  <2>5. GatesHeld(mem', run', work', aborted') /\ TeamRuns(run', work') /\ EndHeld(mem', run', work')
    BY <2>2 DEF GatesHeld, TeamRuns, EndHeld, Gating
  <2>6. StrayHeld(mem', run', child')
    BY <1>1, <1>5, <2>2, IndexIs DEF StrayHeld, Strays
  <2> QED BY <2>3, <2>4, <2>5, <2>6 DEF TrailNext, Trail
<1> QED BY <1>7, <1>8

LEMMA CallTrails == BudgetInvariant /\ PathInvariant /\ Call => TrailNext
<1> SUFFICES ASSUME BudgetInvariant, PathInvariant, Call PROVE TrailNext
  OBVIOUS
<1>1. ASSUME run.pc = "step"
      PROVE /\ run.team = "no" /\ Onward(mem, work, run.verdict) /\ (Compared(mem.cursor) => ~work.tampered)
            /\ mem \in Memories /\ mem.cursor \in 1..6
            /\ Strays(child) => mem.cursor <= Index.test
            /\ Strays(child) => mem.cursor = Index.planner /\ "planner" \in opts.steps
  BY <1>1, LoopFacts, StrayFacts DEF Looping, Cleared
<1>2. CASE SkipCicd
  <2> DEFINE n == [mem EXCEPT !.cursor = @ + 1]
  <2>1. run.pc = "step" /\ work' = work /\ child' = child /\ Again(n, run.verdict) /\ Step = "cicd"
    BY <1>2 DEF SkipCicd, StepReady, At, CicdUnplanned
  <2>2. n.cursor = mem.cursor + 1 /\ n.routes = mem.routes /\ n.evidence = mem.evidence /\ n.results = mem.results
    BY <1>1, <2>1 DEF Memories
  <2>3. mem.cursor = 6
    BY <1>1, <2>1, StepIs, IndexIs
  <2> HIDE DEF n
  <2>4. Onward(n, work, run.verdict)
    <3>1. ReviewDue => run.verdict # "none"
      BY <1>1, <2>1, <2>3, IndexIs DEF Onward
    <3> QED BY <1>1, <2>1, <2>2, <2>3, <3>1, IndexIs, OnwardMoves
  <2>5. Compared(n.cursor) => Compared(mem.cursor)
    BY <2>2, <2>3, ComparedGrows
  <2>6. ~Strays(child)
    BY <1>1, <2>1, <2>3, IndexIs
  <2> QED BY <1>1, <2>1, <2>4, <2>5, <2>6, AgainTrails
<1>3. CASE ReviewHeld
  <2>1. run.pc = "step" /\ child' = child /\ (IntegrityUnknown(mem) \/ IntegrityIssue(mem, TRUE))
    BY <1>3 DEF ReviewHeld, StepReady, At
  <2> QED BY <1>1, <2>1, UnknownTrails, IssueTrails
<1>4. CASE SnapshotFails
  <2>1. run.pc = "step" /\ child' = child /\ Stop(Counted, "BLOCKED", TRUE)
    BY <1>4 DEF SnapshotFails, StepAllowed, StepReady, At
  <2>2. Counted.cursor = mem.cursor
    BY <1>1, <2>1 DEF Counted, Memories
  <2> QED BY <1>1, <2>1, <2>2, StopTrails
<1>5. CASE StartStep
  BY <1>5, StartTrails
<1>6. CASE CallStarts
  BY <1>6, CallStartsTrails
<1>7. CASE CallEnds
  BY <1>7, CallEndsTrails
<1> QED BY <1>2, <1>3, <1>4, <1>5, <1>6, <1>7 DEF Call

\* What is known when the answer of a step is looked at.
LEMMA AnsweredFacts ==
  ASSUME BudgetInvariant, PathInvariant, NEW step, NEW outs, Answered(step, outs)
  PROVE /\ run.pc = "answered" /\ Step = step /\ run.answer.out \in outs
        /\ run.team = "no" /\ Onward(mem, work, run.verdict) /\ mem.cursor \in 1..6
        /\ mem.cursor \in 3..6 => ~work.tampered
        /\ ~Strays(child)
<1>1. run.pc = "answered" /\ Step = step /\ run.answer.out \in outs /\ ~StraySeen /\ (Step \in Writers => ~work.tampered)
  BY DEF Answered, Checked, At
<1>2. /\ run.team = "no" /\ Onward(mem, work, run.verdict) /\ (Cleared(mem, "answered") => ~work.tampered)
      /\ mem.cursor \in 1..6
  BY <1>1, LoopFacts DEF Looping
<1>3. mem.cursor \in 3..6 => ~work.tampered
  <2>1. mem.cursor = 5 => Cleared(mem, "answered")
    BY IndexIs DEF Cleared
  <2>2. mem.cursor \in {3, 4, 6} => Step \in Writers
    BY <1>2, StepIs
  <2> QED BY <1>1, <1>2, <2>1, <2>2
<1>4. ~Strays(child)
  <2>1. SUFFICES ASSUME Strays(child) PROVE FALSE
    OBVIOUS
  <2>2. mem.cursor = 4 /\ run.answer = child
    BY <1>1, <2>1, StrayFacts, IndexIs
  <2>3. run.before = "own"
    BY DEF PathInvariant, Trail, CallHeld
  <2> QED BY <1>1, <1>2, <2>1, <2>2, <2>3, StepIs DEF StraySeen, Strays
<1> QED BY <1>1, <1>2, <1>3, <1>4

LEMMA ConsumedFields ==
  ASSUME BudgetInvariant, run.pc = "answered"
  PROVE /\ Consumed \in Memories /\ Consumed.cursor = mem.cursor /\ Consumed.routes = mem.routes
        /\ Consumed.evidence = mem.evidence /\ Consumed.results = mem.results \cup {Step} /\ mem.cursor \in 1..6
<1>1. Consumed \in Memories /\ Consumed.cursor = mem.cursor /\ mem.cursor <= 6
  BY ConsumedTyped DEF BudgetInvariant, Sound
<1>2. mem \in Memories
  BY DEF BudgetInvariant, LoopHeld, Sound
<1> QED BY <1>1, <1>2, MemoryFields DEF Consumed, Memories

\* An answered step hands over to the next one.
LEMMA AnswerMoves ==
  ASSUME BudgetInvariant, PathInvariant, NEW step, NEW outs, Answered(step, outs), NEW n, NEW v, Again(n, v),
         n.cursor = mem.cursor + 1, n.routes = mem.routes, n.evidence = mem.evidence,
         n.results = mem.results \cup {Step}, mem.cursor # Index.test,
         work'.passed = work.passed, work'.tampered = work.tampered, child' = child,
         mem.cursor = Index.review => work'.approved /\ v # "none",
         mem.cursor # Index.review => work'.approved = work.approved /\ v = run.verdict
  PROVE TrailNext
<1>1. /\ run.pc = "answered" /\ Onward(mem, work, run.verdict) /\ mem.cursor \in 1..6
      /\ (mem.cursor \in 3..6 => ~work.tampered) /\ ~Strays(child)
  BY AnsweredFacts
<1>2. Onward(mem, work', run.verdict)
  BY <1>1, IndexIs DEF Onward
<1>3. Step \in Steps /\ Index[Step] = mem.cursor
  BY <1>1, StepIs
<1>4. ReviewDue /\ mem.cursor >= Index.review => v # "none"
  BY <1>1, IndexIs DEF Onward
<1>5. Onward(n, work', v)
  BY <1>1, <1>2, <1>3, <1>4, OnwardMoves
<1>6. Compared(n.cursor) => mem.cursor \in 3..6
  BY <1>1, ComparedGrows
<1> QED BY <1>1, <1>5, <1>6, AgainTrails

LEMMA AnswerTrails == BudgetInvariant /\ PathInvariant /\ Answer => TrailNext
<1> SUFFICES ASSUME BudgetInvariant, PathInvariant, Answer PROVE TrailNext
  OBVIOUS
<1>1. run.pc = "answered" /\ work' = work /\ child' = child
  BY DEF Answer, AnswerHeld, AnswerStopped, AnswerStrays, ClarifierReady, ClarifierAsks, AnswerInvalid, PlannerPlans,
         WriterDone, AnswerBlocked, Answered, Checked, At
<1>2. /\ Consumed \in Memories /\ Consumed.cursor = mem.cursor /\ Consumed.routes = mem.routes
      /\ Consumed.evidence = mem.evidence /\ Consumed.results = mem.results \cup {Step} /\ mem.cursor \in 1..6
  BY <1>1, ConsumedFields
<1>3. Strays(child') => mem.cursor <= Index.test
  BY <1>1, StrayFacts
<1>4. ASSUME NEW v, v # "none", NEW f, Stop(Consumed, v, f) PROVE TrailNext
  BY <1>2, <1>3, <1>4, StopTrails
<1> DEFINE onward == [Consumed EXCEPT !.cursor = @ + 1]
<1>5. /\ onward.cursor = mem.cursor + 1 /\ onward.routes = mem.routes /\ onward.evidence = mem.evidence
      /\ onward.results = mem.results \cup {Step}
  BY <1>2 DEF Memories
<1>6. CASE AnswerHeld
  <2>1. PICK b \in BOOLEAN : IntegrityUnknown(Consumed) \/ IntegrityIssue(Consumed, b)
    BY <1>6 DEF AnswerHeld
  <2> QED BY <1>2, <1>3, <2>1, UnknownTrails, IssueTrails
<1>7. CASE AnswerStopped
  <2>1. run.answer.status # "none"
    BY <1>1 DEF BudgetInvariant, LoopHeld, AnswersHeld, Ended
  <2>2. Stop(Consumed, IF Cancelled THEN "CANCELLED" ELSE run.answer.status, TRUE)
    BY <1>7 DEF AnswerStopped
  <2> QED BY <1>4, <2>1, <2>2
<1>8. CASE AnswerStrays
  BY <1>4, <1>8 DEF AnswerStrays
<1>9. CASE ClarifierReady
  <2>1. Answered("clarifier", {"ready"}) /\ Again(onward, run.verdict)
    BY <1>9 DEF ClarifierReady
  <2>2. mem.cursor = 1
    BY <1>2, <2>1, AnsweredFacts, StepIs, IndexIs
  <2> HIDE DEF onward
  <2> QED BY <1>1, <1>5, <2>1, <2>2, IndexIs, AnswerMoves
<1>10. CASE ClarifierAsks
  <2>1. Answered("clarifier", {"ask"})
    BY <1>10 DEF ClarifierAsks
  <2>2. mem.cursor = 1 /\ Onward(mem, work, run.verdict) /\ ~Strays(child)
    BY <1>2, <2>1, AnsweredFacts, StepIs, IndexIs
  <2>3. CASE Again([Consumed EXCEPT !.rounds = @ + 1], run.verdict)
    <3> DEFINE n == [Consumed EXCEPT !.rounds = @ + 1]
    <3>1. Again(n, run.verdict)
      BY <2>3
    <3>2. n.cursor = 1 /\ n.results = mem.results \cup {Step}
      BY <1>2, <2>2 DEF Memories
    <3> HIDE DEF n
    <3>3. Onward(n, work, run.verdict)
      <4>1. Step \in Steps /\ Index[Step] = 1 /\ "verify" \notin Steps
        BY <1>2, <2>2, StepIs, StepsAre
      <4>2. \A s \in n.results \cap Steps : Index[s] <= n.cursor
        BY <2>2, <3>2, <4>1 DEF Onward
      <4>3. "verify" \notin n.results
        BY <2>2, <3>2, <4>1, IndexIs DEF Onward
      <4> QED BY <3>2, <4>2, <4>3, IndexIs DEF Onward
    <3>4. ~Compared(n.cursor)
      BY <3>2, ComparedGrows
    <3> QED BY <1>1, <2>2, <3>1, <3>3, <3>4, AgainTrails
  <2>4. CASE Stop(Consumed, "NEEDS-CLARIFICATION", FALSE)
    BY <1>4, <1>10, <2>4 DEF ClarifierAsks
  <2> QED BY <1>10, <2>3, <2>4 DEF ClarifierAsks
<1>11. CASE AnswerInvalid
  BY <1>4, <1>11 DEF AnswerInvalid
<1>12. CASE PlannerPlans
  <2> DEFINE n == [Consumed EXCEPT !.cursor = @ + 1, !.plan = run.answer.out]
  <2>1. Answered("planner", {"plan", "plan+cicd"}) /\ Again(n, run.verdict)
    BY <1>12 DEF PlannerPlans
  <2>2. mem.cursor = 2
    BY <1>2, <2>1, AnsweredFacts, StepIs, IndexIs
  <2>3. n.cursor = mem.cursor + 1 /\ n.routes = mem.routes /\ n.evidence = mem.evidence
        /\ n.results = mem.results \cup {Step}
    BY <1>2 DEF Memories
  <2> HIDE DEF n
  <2> QED BY <1>1, <2>1, <2>2, <2>3, IndexIs, AnswerMoves
<1>13. CASE WriterDone
  <2>1. PICK step \in {"scaffold", "cicd"} : Answered(step, {"done"})
    BY <1>13 DEF WriterDone
  <2>2. Again(onward, run.verdict)
    BY <1>13 DEF WriterDone
  <2>3. mem.cursor \in {3, 6}
    BY <1>2, <2>1, AnsweredFacts, StepIs, IndexIs
  <2> HIDE DEF onward
  <2> QED BY <1>1, <1>5, <2>1, <2>2, <2>3, IndexIs, AnswerMoves
<1>14. CASE AnswerBlocked
  BY <1>4, <1>14 DEF AnswerBlocked
<1> QED BY <1>6, <1>7, <1>8, <1>9, <1>10, <1>11, <1>12, <1>13, <1>14 DEF Answer

\* What the invariants say at a gate.
LEMMA GateFacts ==
  ASSUME BudgetInvariant, PathInvariant, run.pc \in Gating
  PROVE /\ ~work.tampered \/ (run.team = "no" /\ run.pc \in {"verify", "runtime"})
        /\ run.pc = "reproducing" => run.team = "no" /\ "repro" \in opts.gates
        /\ ~Strays(child) /\ mem \in Memories /\ mem.cursor \in 1..6 /\ work \in Workspaces
        /\ run.pc \in {"runtime", "probing"} => "runtime" \in opts.gates
        /\ run.team = "no" => mem.cursor = Index.test /\ run.pc # "reviews" /\ Ordered(mem)
        /\ run.team = "no" /\ run.pc \in {"runtime", "probing"} /\ "verify" \in opts.gates =>
             mem.evidence = {<<"verify", mem.routes>>}
        /\ run.team = "no" \/ (run.team = "ok" /\ ~aborted) => Before(run.pc) \subseteq work.passed
        /\ run.team # "no" => ~work.approved /\ "repro" \notin opts.gates
        /\ opts.gates \subseteq Gates
<1>1. mem \in Memories /\ mem.cursor \in 1..6 /\ work \in Workspaces
  BY MemoryFields DEF BudgetInvariant, Surroundings, LoopHeld, Sound, Gating, InLoop, Places
<1>2. ~Strays(child)
  BY StrayFacts DEF Gating
<1>3. GatesHeld(mem, run, work, aborted) /\ TeamRuns(run, work)
  BY DEF PathInvariant, Trail
<1>4. opts.gates \subseteq Gates
  BY OptionsAssumption DEF BudgetInvariant, Surroundings, OptionSet
<1> QED BY <1>1, <1>2, <1>3, <1>4 DEF GatesHeld, TeamRuns, Ordered

\* A result of a command that is added, with or without evidence.
LEMMA ResultFields ==
  ASSUME NEW m \in Memories, NEW r \in {"repro", "verify", "team"}
  PROVE LET n == [m EXCEPT !.results = @ \cup {r}] IN
          /\ n \in Memories /\ n.cursor = m.cursor /\ n.routes = m.routes /\ n.evidence = m.evidence
          /\ Ordered(m) => Ordered(n)
<1>1. m.results \cup {r} \in ResultSets
  BY MemoryFields DEF ResultSets
<1>2. r \notin Steps
  BY StepsAre
<1> QED BY <1>1, <1>2 DEF Memories, Ordered

LEMMA ShownFields ==
  ASSUME NEW m \in Memories, NEW g \in {"verify", "runtime"}
  PROVE LET n == [m EXCEPT !.evidence = Shown(m, g)] IN
          /\ n \in Memories /\ n.cursor = m.cursor /\ n.routes = m.routes /\ n.evidence = Shown(m, g)
          /\ Ordered(m) => Ordered(n)
<1>1. Shown(m, g) \in EvidenceSets
  BY MemoryFields DEF Shown, EvidenceSets
<1> QED BY <1>1 DEF Memories, Ordered

LEMMA TestTrails == BudgetInvariant /\ PathInvariant /\ TestAnswered => TrailNext
<1> SUFFICES ASSUME BudgetInvariant, PathInvariant, TestAnswered PROVE TrailNext
  OBVIOUS
<1>1. /\ Answered("test", {"pass"} \cup RouteTargets) /\ work' = work /\ child' = child /\ aborted' = aborted
  BY DEF TestAnswered
<1>2. /\ run.pc = "answered" /\ Step = "test" /\ run.answer.out \in {"pass"} \cup RouteTargets
      /\ run.team = "no" /\ Onward(mem, work, run.verdict) /\ mem.cursor \in 1..6
      /\ (mem.cursor \in 3..6 => ~work.tampered) /\ ~Strays(child)
  BY <1>1, AnsweredFacts
<1>3. mem.cursor = 4 /\ ~work.tampered
  BY <1>2, StepIs
<1>4. /\ Consumed \in Memories /\ Consumed.cursor = mem.cursor /\ Consumed.results = mem.results \cup {Step}
  BY <1>2, ConsumedFields
<1>5. Ordered(Consumed)
  BY <1>2, <1>3, <1>4, IndexIs DEF Ordered, Onward
<1>6. CASE "repro" \in opts.gates
  <2>1. Goto(Consumed, "reproducing") /\ "reproducing" \in Gating /\ Before("reproducing") = {}
    BY <1>6 DEF TestAnswered, Gating, Before
  <2> QED BY <1>1, <1>2, <1>3, <1>4, <1>5, <1>6, <2>1, GateTrails, IndexIs
<1>7. CASE "repro" \notin opts.gates /\ run.answer.out = "pass"
  <2>1. PassGate(Consumed, "start") /\ Behind("start") = {}
    BY <1>7 DEF TestAnswered, Behind
  <2> QED BY <1>1, <1>2, <1>3, <1>4, <1>5, <2>1, PassTrails, IndexIs
<1>8. CASE "repro" \notin opts.gates /\ run.answer.out # "pass"
  <2>1. RouteTo(Consumed, run.answer.out, "test", run.verdict, "FAILED") /\ run.answer.out \in RouteTargets
    BY <1>2, <1>8 DEF TestAnswered
  <2> QED BY <1>1, <1>2, <1>4, <2>1, RouteTrails
<1> QED BY <1>6, <1>7, <1>8

LEMMA ReproTrails == BudgetInvariant /\ PathInvariant /\ ReproEnds => TrailNext
<1> SUFFICES ASSUME BudgetInvariant, PathInvariant, ReproEnds PROVE TrailNext
  OBVIOUS
<1> DEFINE m == [mem EXCEPT !.results = @ \cup {"repro"}]
<1>1. run.pc = "reproducing" /\ child' = child /\ aborted' = aborted /\ run.pc \in Gating
  BY DEF ReproEnds, At, Gating
<1>2. /\ m \in Memories /\ m.cursor = mem.cursor /\ (Ordered(mem) => Ordered(m))
  BY <1>1, GateFacts, ResultFields
<1>3. PICK tampered \in BOOLEAN :
        LET effect == [work EXCEPT !.tampered = tampered, !.changed = @ \/ tampered] IN
        \/ Stop(m, "CANCELLED", FALSE)
        \/ Throw(m)
        \/ RouteTo(m, "planner", "repro", run.verdict, "FAILED")
        \/ PassGate(m, "start") /\ work' = [effect EXCEPT !.passed = @ \cup {"repro"}]
        \/ run.answer.out # "pass" /\ RouteTo(m, run.answer.out, "test", run.verdict, "FAILED")
  BY DEF ReproEnds
<1> HIDE DEF m
<1>4. m.cursor \in 1..6 /\ ~Strays(child')
  BY <1>1, <1>2, GateFacts
<1>5. CASE Stop(m, "CANCELLED", FALSE)
  BY <1>4, <1>5, StopTrails
<1>6. CASE RouteTo(m, "planner", "repro", run.verdict, "FAILED")
  <2>1. "planner" \in RouteTargets
    BY DEF RouteTargets
  <2> QED BY <1>2, <1>4, <1>6, <2>1, RouteTrails
<1>7. ASSUME PassGate(m, "start"),
             work' = [[work EXCEPT !.tampered = tampered, !.changed = @ \/ tampered] EXCEPT !.passed = @ \cup {"repro"}]
      PROVE TrailNext
  <2>1. work'.passed = work.passed \cup {"repro"} /\ work'.approved = work.approved
    BY <1>1, <1>7, GateFacts DEF Workspaces
  <2>2. Behind("start") \subseteq work'.passed
    BY <2>1 DEF Behind
  <2> QED BY <1>1, <1>2, <1>4, <1>7, <2>1, <2>2, GateFacts, PassTrails
<1>8. CASE run.answer.out # "pass" /\ RouteTo(m, run.answer.out, "test", run.verdict, "FAILED")
  <2>1. run.answer.out \in RouteTargets
    BY <1>1, <1>8 DEF BudgetInvariant, LoopHeld, AnswersHeld, Judged
  <2> QED BY <1>2, <1>4, <1>8, <2>1, RouteTrails
<1>9. CASE Throw(m)
  BY <1>4, <1>9, ThrowTrails
<1> QED BY <1>3, <1>5, <1>6, <1>7, <1>8, <1>9

LEMMA VerifyTrails == BudgetInvariant /\ PathInvariant /\ VerifyEnds => TrailNext
<1> SUFFICES ASSUME BudgetInvariant, PathInvariant, VerifyEnds PROVE TrailNext
  OBVIOUS
<1> DEFINE m == [mem EXCEPT !.results = @ \cup {"verify"}]
           good == [m EXCEPT !.evidence = Shown(m, "verify")]
<1>1. run.pc = "verifying" /\ child' = child /\ aborted' = aborted /\ run.pc \in Gating
  BY DEF VerifyEnds, At, Gating
<1>2. /\ m \in Memories /\ m.cursor = mem.cursor /\ (Ordered(mem) => Ordered(m)) /\ m.routes = mem.routes
  BY <1>1, GateFacts, ResultFields
<1>3. /\ good \in Memories /\ good.cursor = mem.cursor /\ (Ordered(mem) => Ordered(good))
      /\ good.evidence = {<<"verify", good.routes>>}
  <2> HIDE DEF m
  <2>1. good \in Memories /\ good.cursor = m.cursor /\ (Ordered(m) => Ordered(good)) /\ good.routes = m.routes
        /\ good.evidence = Shown(m, "verify")
    BY <1>2, ShownFields
  <2>2. Shown(m, "verify") = {<<"verify", m.routes>>}
    BY DEF Shown
  <2> QED BY <1>2, <2>1, <2>2
<1>4. PICK tampered \in BOOLEAN :
        LET effect == [work EXCEPT !.tampered = tampered, !.changed = @ \/ tampered] IN
        \/ Throw(m)
        \/ IntegrityUnknown(m)
        \/ \E b \in BOOLEAN : IntegrityIssue(m, b)
        \/ Stop(m, "CANCELLED", FALSE)
        \/ RouteTo(m, "planner", "verify", run.verdict, "FAILED")
        \/ Stop(m, "FAILED", TRUE)
        \/ IntegrityUnknown(good)
        \/ IntegrityIssue(good, TRUE)
        \/ ~tampered /\ PassGate(good, "verify") /\ work' = [effect EXCEPT !.passed = @ \cup {"verify"}]
  BY DEF VerifyEnds
<1> HIDE DEF m, good
<1>5. m.cursor \in 1..6 /\ good.cursor \in 1..6 /\ ~Strays(child') /\ "planner" \in RouteTargets
  BY <1>1, <1>2, <1>3, GateFacts DEF RouteTargets
<1>6. CASE IntegrityUnknown(m) \/ IntegrityUnknown(good)
  BY <1>5, <1>6, UnknownTrails
<1>7. CASE (\E b \in BOOLEAN : IntegrityIssue(m, b)) \/ IntegrityIssue(good, TRUE)
  BY <1>2, <1>3, <1>5, <1>7, IssueTrails
<1>8. CASE Stop(m, "CANCELLED", FALSE) \/ Stop(m, "FAILED", TRUE)
  BY <1>5, <1>8, StopTrails
<1>9. CASE RouteTo(m, "planner", "verify", run.verdict, "FAILED")
  BY <1>2, <1>5, <1>9, RouteTrails
<1>10. ASSUME ~tampered, PassGate(good, "verify"),
              work' = [[work EXCEPT !.tampered = tampered, !.changed = @ \/ tampered] EXCEPT !.passed = @ \cup {"verify"}]
       PROVE TrailNext
  <2>1. work'.passed = work.passed \cup {"verify"} /\ ~work'.tampered /\ work'.approved = work.approved
    BY <1>1, <1>10, GateFacts DEF Workspaces
  <2>2. Before("verifying") \subseteq work.passed => Behind("verify") \subseteq work'.passed
    BY <2>1 DEF Before, Behind
  <2> QED BY <1>1, <1>3, <1>5, <1>10, <2>1, <2>2, GateFacts, PassTrails
<1>11. CASE Throw(m)
  BY <1>5, <1>11, ThrowTrails
<1> QED BY <1>4, <1>6, <1>7, <1>8, <1>9, <1>10, <1>11

LEMMA RuntimeTrails == BudgetInvariant /\ PathInvariant /\ RuntimeEnds => TrailNext
<1> SUFFICES ASSUME BudgetInvariant, PathInvariant, RuntimeEnds PROVE TrailNext
  OBVIOUS
<1> DEFINE n == [mem EXCEPT !.results = @ \cup {"verify"}]
           m == [mem EXCEPT !.results = @ \cup {"verify"}, !.evidence = Shown(mem, "runtime")]
           strayed == [m EXCEPT !.violations = @ + 1]
<1>1. run.pc = "probing" /\ child' = child /\ aborted' = aborted /\ run.pc \in Gating
  BY DEF RuntimeEnds, At, Gating
<1>2. /\ n \in Memories /\ n.cursor = mem.cursor /\ (Ordered(mem) => Ordered(n)) /\ n.routes = mem.routes
      /\ n.evidence = mem.evidence
  BY <1>1, GateFacts, ResultFields
<1>3. m = [n EXCEPT !.evidence = Shown(n, "runtime")]
  BY <1>1, GateFacts DEF Memories, Shown
<1>4. /\ m \in Memories /\ m.cursor = mem.cursor /\ (Ordered(mem) => Ordered(m)) /\ m.routes = mem.routes
      /\ m.evidence = mem.evidence \cup {<<"runtime", m.routes>>}
  <2> HIDE DEF m, n
  <2>1. m \in Memories /\ m.cursor = n.cursor /\ (Ordered(n) => Ordered(m)) /\ m.routes = n.routes
        /\ m.evidence = Shown(n, "runtime")
    BY <1>2, <1>3, ShownFields
  <2> QED BY <1>2, <2>1 DEF Shown
<1>5. strayed.cursor = mem.cursor
  BY <1>4 DEF Memories
<1>6. PICK tampered \in BOOLEAN, stray \in BOOLEAN :
        LET effect == [work EXCEPT !.tampered = tampered, !.changed = @ \/ tampered \/ stray] IN
        \/ Stop(strayed, "FAILED", TRUE)
        \/ Throw(m)
        \/ IntegrityUnknown(m)
        \/ \E b \in BOOLEAN : IntegrityIssue(m, b)
        \/ Stop(m, "CANCELLED", FALSE)
        \/ Stop(m, "BLOCKED", TRUE)
        \/ RouteTo(m, "planner", "verify", run.verdict, "FAILED")
        \/ ~tampered /\ PassGate(m, "runtime") /\ work' = [effect EXCEPT !.passed = @ \cup {"runtime"}]
  BY ZenonT(40) DEF RuntimeEnds
<1> HIDE DEF m, n, strayed
<1>7. m.cursor \in 1..6 /\ strayed.cursor \in 1..6 /\ ~Strays(child') /\ "planner" \in RouteTargets
  BY <1>1, <1>4, <1>5, GateFacts DEF RouteTargets
<1>8. CASE IntegrityUnknown(m)
  BY <1>7, <1>8, UnknownTrails
<1>9. CASE \E b \in BOOLEAN : IntegrityIssue(m, b)
  BY <1>4, <1>7, <1>9, IssueTrails
<1>10. CASE Stop(strayed, "FAILED", TRUE)
  BY <1>7, <1>10, StopTrails
<1>11. CASE Stop(m, "CANCELLED", FALSE) \/ Stop(m, "BLOCKED", TRUE)
  BY <1>7, <1>11, StopTrails
<1>12. CASE RouteTo(m, "planner", "verify", run.verdict, "FAILED")
  BY <1>4, <1>7, <1>12, RouteTrails
<1>13. ASSUME ~tampered, PassGate(m, "runtime"),
              work' = [[work EXCEPT !.tampered = tampered, !.changed = @ \/ tampered \/ stray]
                         EXCEPT !.passed = @ \cup {"runtime"}]
       PROVE TrailNext
  <2>1. work'.passed = work.passed \cup {"runtime"} /\ ~work'.tampered /\ work'.approved = work.approved
    BY <1>1, <1>13, GateFacts DEF Workspaces
  <2>2. Before("probing") \subseteq work.passed => Behind("runtime") \subseteq work'.passed
    BY <1>1, <2>1, GateFacts DEF Before, Behind, Gates
  <2>3. run.team = "no" /\ "verify" \in opts.gates => m.evidence = {<<"verify", m.routes>>, <<"runtime", m.routes>>}
    BY <1>1, <1>4, GateFacts
  <2> QED BY <1>1, <1>4, <1>7, <1>13, <2>1, <2>2, <2>3, GateFacts, PassTrails
<1>14. CASE Throw(m)
  BY <1>7, <1>14, ThrowTrails
<1> QED BY <1>6, <1>8, <1>9, <1>10, <1>11, <1>12, <1>13, <1>14

LEMMA GateStepTrails == BudgetInvariant /\ PathInvariant /\ Gate => TrailNext
<1> SUFFICES ASSUME BudgetInvariant, PathInvariant, Gate PROVE TrailNext
  OBVIOUS
<1>1. CASE TestAnswered
  BY <1>1, TestTrails
<1>2. CASE ReproEnds
  BY <1>2, ReproTrails
<1>3. CASE GateSkipped
  <2>1. PICK g \in {"verify", "runtime"} : At(g) /\ GatesPassedBy /\ PassGate(mem, g)
    BY <1>3 DEF GateSkipped
  <2>2. run.pc = g /\ work' = work /\ child' = child /\ aborted' = aborted /\ run.pc \in Gating
    BY <1>3, <2>1 DEF GateSkipped, At, Gating
  <2>3. run.team # "no" /\ ~(run.team = "no" \/ (run.team = "ok" /\ ~aborted))
    BY <2>1 DEF GatesPassedBy
  <2> QED BY <2>1, <2>2, <2>3, GateFacts, PassTrails
<1>4. CASE GateHeld
  <2>1. run.pc \in Gating /\ child' = child /\ (IntegrityUnknown(mem) \/ IntegrityIssue(mem, TRUE))
    BY <1>4 DEF GateHeld, At, Gating
  <2> QED BY <2>1, GateFacts, UnknownTrails, IssueTrails
<1>5. CASE GateStarts
  <2>1. PICK g \in {"verify", "runtime"} :
          At(g) /\ ~work.tampered /\ Goto(mem, IF g = "verify" THEN "verifying" ELSE "probing")
    BY <1>5 DEF GateStarts
  <2> DEFINE pc == IF g = "verify" THEN "verifying" ELSE "probing"
  <2>2. run.pc = g /\ work' = work /\ child' = child /\ aborted' = aborted /\ run.pc \in Gating
    BY <1>5, <2>1 DEF GateStarts, At, Gating
  <2>3. /\ pc \in Gating /\ Before(pc) = Before(g) /\ (pc \in {"runtime", "probing"} <=> g = "runtime")
        /\ pc \notin {"reviews", "reproducing"}
    BY DEF Gating, Before
  <2> HIDE DEF pc
  <2>4. Goto(mem, pc) /\ ~work.tampered
    BY <2>1 DEF pc
  <2> QED BY <2>2, <2>3, <2>4, GateFacts, GateTrails
<1>6. CASE VerifyEnds
  BY <1>6, VerifyTrails
<1>7. CASE RuntimeEnds
  BY <1>7, RuntimeTrails
<1> QED BY <1>1, <1>2, <1>3, <1>4, <1>5, <1>6, <1>7 DEF Gate

LEMMA TeamTrails == BudgetInvariant /\ PathInvariant /\ (TeamStarts \/ TeamEnds \/ TeamShips) => TrailNext
<1> SUFFICES ASSUME BudgetInvariant, PathInvariant, TeamStarts \/ TeamEnds \/ TeamShips PROVE TrailNext
  OBVIOUS
<1>1. run.resumes = "none" /\ run.recovered = NoAnswer /\ run.before = "own" /\ run \in Controls /\ work \in Workspaces
  BY DEF PathInvariant, Trail, CallHeld, BudgetInvariant, Surroundings, LoopHeld
<1>2. CASE TeamStarts
  <2>1. /\ Answered("planner", {"team"}) /\ child' = child
        /\ run' = [run EXCEPT !.pc = "team", !.team = "ok"]
        /\ work' = [work EXCEPT !.passed = {}, !.approved = FALSE]
    BY <1>2 DEF TeamStarts
  <2>2. run.pc = "answered" /\ run.answer.out = "team" /\ ~Strays(child)
    BY <2>1, AnsweredFacts
  <2>3. "repro" \notin opts.gates
    BY <2>2 DEF PathInvariant, Trail, CallHeld
  <2>4. /\ run'.pc = "team" /\ run'.team = "ok" /\ ~work'.approved
        /\ run'.resumes = "none" /\ run'.recovered = NoAnswer /\ run'.before = "own"
    BY <1>1, <2>1 DEF Controls, Workspaces
  <2> QED BY <2>1, <2>2, <2>3, <2>4
          DEF TrailNext, Trail, InLoopHeld, Looping, CallHeld, GatesHeld, Gating, TeamRuns, EndHeld, StrayHeld
<1>3. CASE TeamEnds
  <2> DEFINE m == [mem EXCEPT !.results = @ \cup {"team"}]
  <2>1. run.pc = "team" /\ child' = child /\ aborted' = aborted
    BY <1>3 DEF TeamEnds, At
  <2>2. run.team = "ok" /\ ~work.approved /\ "repro" \notin opts.gates
    BY <2>1 DEF PathInvariant, Trail, TeamRuns
  <2>3. ~Strays(child)
    BY <2>1, StrayFacts
  <2>4. mem \in Memories /\ mem.cursor \in 1..6
    BY <2>1, MemoryFields DEF BudgetInvariant, LoopHeld, Sound, InLoop, Places
  <2>5. m \in Memories /\ m.cursor = mem.cursor
    BY <2>4, ResultFields
  <2>6. PICK tampered \in BOOLEAN, outcome \in {"ok", "failed"} :
          /\ work' = [work EXCEPT !.tampered = tampered, !.changed = TRUE]
          /\ \/ Throw(m)
             \/ IntegrityUnknown(m)
             \/ \E b \in BOOLEAN : IntegrityIssue(m, b)
             \/ /\ ~tampered
                /\ run' = [run EXCEPT !.team = outcome,
                                      !.pc = IF GateAfter("start") = "end" THEN "reviews" ELSE GateAfter("start")]
    BY <1>3 DEF TeamEnds
  <2> HIDE DEF m
  <2>7. CASE Throw(m)
    BY <2>1, <2>3, <2>4, <2>5, <2>7, ThrowTrails
  <2>8. CASE IntegrityUnknown(m)
    BY <2>1, <2>3, <2>4, <2>5, <2>8, UnknownTrails
  <2>9. CASE \E b \in BOOLEAN : IntegrityIssue(m, b)
    BY <2>1, <2>3, <2>4, <2>5, <2>9, IssueTrails
  <2>10. ASSUME ~tampered,
                run' = [run EXCEPT !.team = outcome,
                                   !.pc = IF GateAfter("start") = "end" THEN "reviews" ELSE GateAfter("start")]
         PROVE TrailNext
    <3> DEFINE pc == IF GateAfter("start") = "end" THEN "reviews" ELSE GateAfter("start")
    <3>1. opts.gates \subseteq Gates
      BY OptionsAssumption DEF BudgetInvariant, Surroundings, OptionSet
    <3>2. pc \in Gating /\ pc # "reproducing" /\ Before(pc) = {} /\ (pc \in {"runtime", "probing"} => "runtime" \in opts.gates)
      BY <2>2, <3>1 DEF GateAfter, Gating, Before, Gates
    <3> HIDE DEF pc
    <3>3. run' = [run EXCEPT !.team = outcome, !.pc = pc]
      BY <2>10 DEF pc
    <3>4. /\ run'.pc = pc /\ run'.team = outcome
          /\ run'.resumes = run.resumes /\ run'.recovered = run.recovered /\ run'.before = run.before
      BY <1>1, <3>3 DEF Controls
    <3>5. ~work'.tampered /\ work'.approved = work.approved
      BY <1>1, <2>6, <2>10 DEF Workspaces
    <3> QED BY <2>1, <2>2, <2>3, <3>2, <3>4, <3>5, GatePlace
  <2> QED BY <2>6, <2>7, <2>8, <2>9, <2>10
<1>4. CASE TeamShips
  <2>1. /\ run.pc = "reviews" /\ run.team = "ok" /\ mem' = mem /\ child' = child /\ aborted' = aborted
        /\ run' = [run EXCEPT !.pc = IF aborted THEN "returned" ELSE "auditing", !.verdict = "SHIP"]
        /\ \E approved \in BOOLEAN : work' = [work EXCEPT !.approved = approved]
    BY <1>4 DEF TeamShips, At
  <2>2. /\ run'.pc = (IF aborted THEN "returned" ELSE "auditing") /\ run'.team = "ok" /\ run'.verdict = "SHIP"
        /\ run'.resumes = "none" /\ run'.recovered = NoAnswer /\ run'.before = "own"
        /\ work'.passed = work.passed /\ work'.tampered = work.tampered
    BY <1>1, <2>1 DEF Controls, Workspaces
  <2>3. run.pc \in Gating
    BY <2>1 DEF Gating
  <2>4. ~work.tampered /\ ~Strays(child) /\ (~aborted => Before("reviews") \subseteq work.passed)
    BY <2>1, <2>3, GateFacts
  <2>5. GatesDue \subseteq Before("reviews")
    BY DEF GatesDue, Before
  <2>6. EndHeld(mem', run', work')
    BY <2>2, <2>4, <2>5 DEF EndHeld
  <2> QED BY <2>1, <2>2, <2>4, <2>6
          DEF TrailNext, Trail, InLoopHeld, Looping, CallHeld, GatesHeld, Gating, TeamRuns, StrayHeld
<1> QED BY <1>2, <1>3, <1>4

LEMMA ReviewTrails == BudgetInvariant /\ PathInvariant /\ Review => TrailNext
<1> SUFFICES ASSUME BudgetInvariant, PathInvariant, Review PROVE TrailNext
  OBVIOUS
<1>1. CASE TeamStarts \/ TeamEnds \/ TeamShips
  BY <1>1, TeamTrails
<1>2. CASE ReviewShips
  <2> DEFINE n == [Consumed EXCEPT !.cursor = @ + 1]
  <2>1. /\ Answered("review", {"ship"}) /\ Again(n, "SHIP") /\ child' = child
        /\ work' = [work EXCEPT !.approved = run.answer.current]
    BY <1>2 DEF ReviewShips
  <2>2. run.pc = "answered" /\ Step = "review" /\ mem.cursor \in 1..6
    BY <2>1, AnsweredFacts
  <2>3. mem.cursor = 5
    BY <2>2, StepIs
  <2>4. run.answer.current
    BY <2>2 DEF PathInvariant, Trail, CallHeld
  <2>5. work'.approved /\ work'.passed = work.passed /\ work'.tampered = work.tampered
    BY <2>1, <2>4 DEF BudgetInvariant, Surroundings, Workspaces
  <2>6. n.cursor = mem.cursor + 1 /\ n.routes = mem.routes /\ n.evidence = mem.evidence
        /\ n.results = mem.results \cup {Step}
    BY <2>2, ConsumedFields DEF Memories
  <2> HIDE DEF n
  <2> QED BY <2>1, <2>3, <2>5, <2>6, IndexIs, AnswerMoves
<1>3. CASE ReviewRefuses
  <2>1. /\ Answered("review", RouteTargets) /\ child' = child
        /\ RouteTo(Consumed, run.answer.out, "review", "NEEDS-WORK", "NEEDS-WORK")
    BY <1>3 DEF ReviewRefuses
  <2>2. run.pc = "answered" /\ run.answer.out \in RouteTargets /\ ~Strays(child)
    BY <2>1, AnsweredFacts
  <2>3. Consumed \in Memories /\ Consumed.cursor \in 1..6
    BY <2>2, ConsumedFields
  <2> QED BY <2>1, <2>2, <2>3, RouteTrails
<1>4. CASE TeamReviewRefuses \/ TeamFails
  <2>1. run.pc \in Gating /\ child' = child
    BY <1>4 DEF TeamReviewRefuses, TeamFails, At, Gating
  <2>2. \/ \E target \in RouteTargets : RouteTo(mem, target, "review", run.verdict, "NEEDS-WORK")
        \/ \E v \in {"BLOCKED", "FAILED"} : Stop(mem, v, TRUE)
    BY <1>4 DEF TeamReviewRefuses, TeamFails
  <2>3. mem \in Memories /\ mem.cursor \in 1..6 /\ ~Strays(child)
    BY <2>1, GateFacts
  <2>4. ASSUME NEW target \in RouteTargets, RouteTo(mem, target, "review", run.verdict, "NEEDS-WORK") PROVE TrailNext
    BY <2>1, <2>3, <2>4, RouteTrails
  <2>5. ASSUME NEW v \in {"BLOCKED", "FAILED"}, Stop(mem, v, TRUE) PROVE TrailNext
    BY <2>1, <2>3, <2>5, StopTrails
  <2> QED BY <2>2, <2>4, <2>5
<1> QED BY <1>1, <1>2, <1>3, <1>4 DEF Review

\* Past the loop nothing changes what was shown.
LEMMA EndPlace ==
  ASSUME BudgetInvariant, PathInvariant, mem' = mem, child' = child,
         work'.passed = work.passed, work'.approved = work.approved, work'.tampered = work.tampered,
         run.pc \in {"finish", "auditing", "posting", "returned", "over"},
         run'.pc \in {"auditing", "posting", "returned", "over"},
         run'.team = run.team, run'.verdict = run.verdict,
         run'.resumes = run.resumes, run'.recovered = run.recovered, run'.before = run.before,
         run'.pc \in {"auditing", "posting"} => run.pc \in {"auditing", "posting"} \/ mem.cursor > 6,
         run'.pc \in {"auditing", "posting"} => run.pc \in {"finish", "auditing", "posting"}
  PROVE TrailNext
<1>1. EndHeld(mem, run, work) /\ CallHeld(run, child)
  BY DEF PathInvariant, Trail
<1>2. mem.cursor > 6 => mem.cursor = 7
  BY MemoryFields DEF BudgetInvariant, LoopHeld, Sound
<1>3. EndHeld(mem', run', work')
  <2>1. ReviewDue => run'.verdict # "none"
    BY <1>1 DEF EndHeld
  <2>2. ASSUME run'.pc \in {"auditing", "posting"}
        PROVE /\ GatesDue \subseteq work.passed
              /\ ReviewDue /\ run.team = "no" => work.approved
              /\ Compared(7) \/ run.team # "no" => ~work.tampered
    <3>1. CASE run.pc \in {"auditing", "posting"}
      BY <1>1, <3>1 DEF EndHeld
    <3>2. CASE run.pc = "finish" /\ mem.cursor = 7
      BY <1>1, <3>2, IndexIs DEF EndHeld, Onward
    <3> QED BY <1>2, <2>2, <3>1, <3>2
  <2> QED BY <2>1, <2>2 DEF EndHeld
<1>4. InLoopHeld(mem', run', work') /\ GatesHeld(mem', run', work', aborted') /\ TeamRuns(run', work')
  BY DEF InLoopHeld, GatesHeld, TeamRuns, Looping, Gating
<1>5. CallHeld(run', child')
  BY <1>1 DEF CallHeld
<1>6. StrayHeld(mem', run', child')
  <2>1. SUFFICES ASSUME Strays(child) PROVE run'.pc \in {"returned", "over"} /\ mem.cursor <= Index.test
    BY DEF StrayHeld
  <2>2. mem.cursor <= 4 /\ run.pc \in {"finish", "returned", "over"}
    BY <2>1, StrayFacts, IndexIs
  <2>3. mem.cursor \in 1..7
    BY MemoryFields DEF BudgetInvariant, LoopHeld, Sound
  <2> QED BY <2>2, <2>3, IndexIs
<1> QED BY <1>3, <1>4, <1>5, <1>6 DEF TrailNext, Trail

LEMMA EndTrails == BudgetInvariant /\ PathInvariant /\ End => TrailNext
<1> SUFFICES ASSUME BudgetInvariant, PathInvariant, End PROVE TrailNext
  OBVIOUS
<1>1. child' = child /\ mem' = mem /\ run \in Controls /\ work \in Workspaces
  BY DEF End, Finalize, PostSuccessStarts, PostSuccessEnds, DeliveryAdvances, DeliveryEnds, WriteResult, Goto,
         BudgetInvariant, LoopHeld, Surroundings
<1>2. ASSUME NEW c \in BOOLEAN, work' = [work EXCEPT !.changed = @ \/ c] \/ work' = [work EXCEPT !.changed = c]
      PROVE work'.passed = work.passed /\ work'.approved = work.approved /\ work'.tampered = work.tampered
  BY <1>1, <1>2 DEF Workspaces
<1>3. work'.passed = work.passed /\ work'.approved = work.approved /\ work'.tampered = work.tampered
  <2>1. CASE Finalize \/ PostSuccessStarts \/ DeliveryEnds \/ WriteResult
    BY <2>1 DEF Finalize, PostSuccessStarts, DeliveryEnds, WriteResult
  <2>2. CASE PostSuccessEnds
    BY <1>2, <2>2 DEF PostSuccessEnds
  <2>3. CASE DeliveryAdvances
    BY <1>2, <2>3 DEF DeliveryAdvances
  <2> QED BY <2>1, <2>2, <2>3 DEF End
<1>4. CASE Finalize
  <2>1. /\ run.pc = "finish" /\ run' = [run EXCEPT !.pc = IF Succeeded THEN "auditing" ELSE "returned"]
    BY <1>4 DEF Finalize, At, Goto
  <2>2. Succeeded => mem.cursor > 6
    BY DEF Succeeded
  <2> QED BY <1>1, <1>3, <2>1, <2>2, EndPlace DEF Controls
<1>5. CASE PostSuccessStarts
  <2>1. run.pc = "auditing" /\ run' = [run EXCEPT !.pc = "posting"]
    BY <1>5 DEF PostSuccessStarts, At, Goto
  <2> QED BY <1>1, <1>3, <2>1, EndPlace DEF Controls
<1>6. CASE PostSuccessEnds
  <2>1. run.pc = "posting" /\ run' = [run EXCEPT !.pc = IF row = "RUNNING" THEN "returned" ELSE "over"]
    BY <1>6 DEF PostSuccessEnds, Goto
  <2> QED BY <1>1, <1>3, <2>1, EndPlace DEF Controls
<1>7. CASE DeliveryAdvances
  <2>1. run.pc = "posting" /\ run' = run
    BY <1>7 DEF DeliveryAdvances, At
  <2> QED BY <1>1, <1>3, <2>1, EndPlace
<1>8. CASE DeliveryEnds
  <2>1. PICK result : run' = [run EXCEPT !.pc = "returned", !.delivery = result]
    BY <1>8 DEF DeliveryEnds
  <2>2. run.pc = "posting"
    BY <1>8 DEF DeliveryEnds, At
  <2> QED BY <1>1, <1>3, <2>1, <2>2, EndPlace DEF Controls
<1>9. CASE WriteResult
  <2>1. run.pc \in {"returned", "posting"} /\ run' = [run EXCEPT !.pc = IF @ = "returned" THEN "over" ELSE @]
    BY <1>9 DEF WriteResult, At
  <2>2. run'.pc = IF run.pc = "returned" THEN "over" ELSE run.pc
    BY <1>1, <2>1 DEF Controls
  <2>3. run'.team = run.team /\ run'.verdict = run.verdict /\ run'.resumes = run.resumes
        /\ run'.recovered = run.recovered /\ run'.before = run.before
    BY <1>1, <2>1 DEF Controls
  <2> QED BY <1>1, <1>3, <2>1, <2>2, <2>3, EndPlace
<1> QED BY <1>4, <1>5, <1>6, <1>7, <1>8, <1>9 DEF End

LEMMA PathStarts == Init => PathInvariant
<1> SUFFICES ASSUME Init PROVE PathInvariant
  OBVIOUS
<1>1. opts \in Options /\ opts.start \in 1..6
  BY OptionsAssumption DEF Init, OptionSet
<1>2. mem.cursor = opts.start /\ mem.results = {}
  BY DEF Init
<1>3. /\ run = [pc |-> "head", verdict |-> "none", failure |-> FALSE, team |-> "no",
                resumes |-> "none", recovered |-> NoAnswer, before |-> "own", answer |-> NoAnswer, delivery |-> "none"]
      /\ child = NoChild /\ work.tampered = FALSE
  BY DEF Init
<1>4. ~(opts.start > 4 /\ GatesDue # {}) /\ ~(ReviewDue /\ opts.start > 5)
  BY <1>1, IndexIs DEF GatesDue, ReviewDue
<1>5. Onward(mem, work, "none")
  BY <1>1, <1>2, <1>4, IndexIs DEF Onward
<1>6. ~Strays(child)
  BY <1>3 DEF Strays, NoChild, NoAnswer
<1> QED BY <1>3, <1>5, <1>6
        DEF PathInvariant, Trail, InLoopHeld, CallHeld, GatesHeld, Gating, TeamRuns, EndHeld, StrayHeld

LEMMA PathStep == BudgetInvariant /\ PathInvariant /\ [Next]_vars => PathInvariant'
<1> SUFFICES ASSUME BudgetInvariant, PathInvariant, [Next]_vars PROVE PathInvariant'
  OBVIOUS
<1>1. ASSUME opts' = opts, mem' = mem, run' = run, child' = child, work' = work, aborted' = aborted \/ aborted' = TRUE
      PROVE PathInvariant'
  <2>1. Trail(mem, run, work, child, aborted) => Trail(mem, run, work, child, TRUE)
    BY DEF Trail, GatesHeld
  <2>2. TrailNext
    BY <1>1, <2>1 DEF PathInvariant, TrailNext
  <2> QED BY <1>1, <2>2, TrailKept
<1>2. CASE UNCHANGED vars
  BY <1>1, <1>2 DEF vars
<1>3. CASE Abort
  BY <1>1, <1>3 DEF Abort
<1>4. CASE Progress
  <2>1. opts' = opts
    BY <1>4, Unmoving DEF Next
  <2>2. TrailNext
    BY <1>4, LoopHeadTrails, BaselineTrails, CallTrails, AnswerTrails, GateStepTrails, ReviewTrails, EndTrails DEF Progress
  <2> QED BY <2>1, <2>2, TrailKept
<1> QED BY <1>2, <1>3, <1>4 DEF Next

\* What a run of spec.ts has established at each place of its workflow holds in every state, whatever the
\* options it was started with and whatever its agents and commands answer: past the review step, that the
\* review approved; past a team, that the gates passed.
THEOREM PathInvariance == Spec => [](BudgetInvariant /\ PathInvariant)
<1>1. Init => PathInvariant
  BY PathStarts
<1>2. BudgetInvariant /\ PathInvariant /\ [Next]_vars => PathInvariant'
  BY PathStep
<1> QED BY <1>1, <1>2, BudgetInvariance, PTL DEF Spec

\* The verdict of a run that ends is never left out, so that no row reads DONE for want of one.
THEOREM VerdictsGiven == Spec => []EndsWithVerdict
<1>1. BudgetInvariant /\ PathInvariant => EndsWithVerdict
  BY DEF PathInvariant, Trail, EndHeld, EndsWithVerdict, ReviewDue
<1> QED BY <1>1, PathInvariance, PTL

\* No agent call is given a result or an evidence that a rework of the loop (routeTo) has discarded.
THEOREM NothingStaleRead == Spec => []NothingStale
<1>1. ASSUME BudgetInvariant, PathInvariant PROVE NothingStale
  <2>1. CASE run.pc # "working"
    BY <2>1 DEF NothingStale, ResultsFresh, EvidenceFresh
  <2>2. CASE run.pc = "working"
    <3>1. Onward(mem, work, run.verdict) /\ mem.cursor \in 1..6
      BY <1>1, <2>2, LoopFacts DEF Looping
    <3>2. Step = "review" => mem.cursor > Index.test
      BY <3>1, StepIs, IndexIs
    <3> QED BY <3>1, <3>2 DEF NothingStale, ResultsFresh, EvidenceFresh, Onward
  <2> QED BY <2>1, <2>2
<1> QED BY <1>1, PathInvariance, PTL

\* Guarded files that the run changed are restored when its work is committed or delivered
\* (inspectIntegrity), in every run that has a step after which they are compared.
THEOREM DeliveredIntactly == Spec => []DeliveredIntact
<1>1. BudgetInvariant /\ PathInvariant => DeliveredIntact
  BY DEF PathInvariant, Trail, EndHeld, DeliveredIntact
<1> QED BY <1>1, PathInvariance, PTL

\* A test call that wrote outside the test paths (recordVerifierRoleBoundary) is never followed by a gate.
THEOREM BoundaryHolds == Spec => []BoundaryKept
<1>1. ASSUME BudgetInvariant, PathInvariant PROVE BoundaryKept
  BY <1>1, StrayFacts DEF BoundaryKept, Strays
<1> QED BY <1>1, PathInvariance, PTL

\* Documents are audited and work is committed only when every gate passed on it as it is and, unless a team
\* made it (spec.ts:1191), the review step approved it as it is.
THEOREM GatedAtDelivery == Spec => []DeliveryGated
<1>1. BudgetInvariant /\ PathInvariant => DeliveryGated
  BY DEF PathInvariant, Trail, EndHeld, DeliveryGated
<1> QED BY <1>1, PathInvariance, PTL

-----------------------------------------------------------------------------
(* Where a step leads to, whatever it has established: for the cancellation and for the promise *)
(* of GatedDelivery. *)

Outcomes == {"auditing", "posting", "returned", "over"}

\* A step of the loop goes on in it, or leaves it with a result; a rework is paid for from the budget,
\* and is made by the steps.
TeamKept == run'.team = "no" <=> run.team = "no"
Pays(m) ==
    /\ run'.pc \notin Outcomes \ {"returned"}
    /\ \/ mem'.routes = m.routes /\ TeamKept
       \/ /\ mem'.routes = m.routes + 1 /\ m.routes < opts.maxRoutes
          /\ run'.pc = "head" /\ run'.team = "no"

LEMMA WaysPay ==
  ASSUME run \in Controls, NEW m,
         \/ run.team = "no" /\ \E v : Again(m, v)
         \/ \E v, f : Stop(m, v, f)
         \/ Throw(m) \/ IntegrityUnknown(m)
         \/ \E pc \in Places \ Outcomes : Goto(m, pc)
  PROVE Pays(m)
<1>1. CASE run.team = "no" /\ \E v : Again(m, v)
  BY <1>1 DEF Again, Controls, Pays, TeamKept, Outcomes
<1>2. ASSUME NEW v, NEW f, Stop(m, v, f) PROVE Pays(m)
  BY <1>2 DEF Stop, Controls, Pays, TeamKept, Outcomes
<1>3. CASE Throw(m)
  BY <1>3 DEF Throw, Controls, Pays, TeamKept, Outcomes
<1>4. CASE IntegrityUnknown(m)
  BY <1>2, <1>4 DEF IntegrityUnknown
<1>5. CASE \E pc \in Places \ Outcomes : Goto(m, pc)
  BY <1>5 DEF Goto, Controls, Pays, TeamKept, Outcomes
<1> QED BY <1>1, <1>2, <1>3, <1>4, <1>5

LEMMA RoutesPay ==
  ASSUME run \in Controls, NEW m \in Memories, NEW target, NEW source, NEW carried, NEW v,
         RouteTo(m, target, source, carried, v)
  PROVE Pays(m)
<1>1. CASE CanRoute(m, target)
  <2> DEFINE n == Routed(m, target, source)
  <2>1. Again(n, carried)
    BY <1>1 DEF RouteTo
  <2>2. n.routes = m.routes + 1 /\ m.routes < opts.maxRoutes
    BY <1>1 DEF CanRoute, Routed, Memories
  <2> HIDE DEF n
  <2>3. mem' = n /\ run'.pc = "head" /\ run'.team = "no"
    BY <2>1 DEF Again, Controls
  <2> QED BY <2>2, <2>3 DEF Pays, Outcomes
<1>2. CASE ~CanRoute(m, target)
  BY <1>2, WaysPay DEF RouteTo
<1> QED BY <1>1, <1>2

LEMMA IssuesPay ==
  ASSUME run \in Controls, NEW m \in Memories, NEW allowed, IntegrityIssue(m, allowed)
  PROVE Pays(m)
<1> DEFINE n == [m EXCEPT !.violations = @ + 1]
<1>1. n \in Memories /\ n.routes = m.routes
  BY DEF Memories
<1>2. RouteTo(n, "planner", "role-boundary", run.verdict, "FAILED") \/ Stop(n, "CANCELLED", TRUE)
  BY DEF IntegrityIssue
<1> HIDE DEF n
<1>3. Pays(n)
  BY <1>1, <1>2, RoutesPay, WaysPay
<1> QED BY <1>1, <1>3 DEF Pays

LEMMA BaselinePays ==
  ASSUME run \in Controls, NEW m \in Memories, BaselineIssue(m)
  PROVE Pays(m)
<1> DEFINE n == [m EXCEPT !.violations = @ + 1]
<1>1. n \in Memories /\ n.routes = m.routes
  BY DEF Memories
<1>2. RouteTo(n, "planner", "role-boundary", run.verdict, "FAILED")
  BY DEF BaselineIssue
<1> HIDE DEF n
<1>3. Pays(n)
  BY <1>1, <1>2, RoutesPay
<1> QED BY <1>1, <1>3 DEF Pays

LEMMA GatesPay ==
  ASSUME run \in Controls, NEW m \in Memories, NEW g, PassGate(m, g)
  PROVE Pays(m) /\ mem'.routes = m.routes /\ run'.pc \notin Outcomes
<1> DEFINE n == [m EXCEPT !.cursor = @ + 1]
<1>1. n.routes = m.routes
  BY DEF Memories
<1>2. \/ \E pc \in {"verify", "runtime", "reviews"} : Goto(m, pc)
      \/ run.team = "no" /\ Again(n, run.verdict)
  <2>1. GateAfter(g) \in {"verify", "runtime", "end"}
    BY DEF GateAfter
  <2> QED BY <2>1 DEF PassGate
<1> HIDE DEF n
<1> QED BY <1>1, <1>2 DEF Goto, Again, Controls, Pays, TeamKept, Outcomes

\* What the workspace is known to be stays: nothing was edited, checked or approved.
MarksKept == work'.passed = work.passed /\ work'.approved = work.approved

Moves == run.pc \notin Outcomes /\ Pays(mem)

LEMMA FilesOnly ==
  ASSUME work \in Workspaces
  PROVE /\ work' = work => MarksKept
        /\ \A t, c : work' = [work EXCEPT !.tampered = t, !.changed = c] => MarksKept
  BY DEF Workspaces, MarksKept

LEMMA LoopMoves == BudgetInvariant /\ PathInvariant /\ (LoopHead \/ Baseline) => Moves /\ MarksKept
<1> SUFFICES ASSUME BudgetInvariant, PathInvariant, LoopHead \/ Baseline PROVE Moves /\ MarksKept
  OBVIOUS
<1>1. run \in Controls /\ mem \in Memories /\ work \in Workspaces
  BY DEF BudgetInvariant, LoopHeld, Sound, Surroundings
<1>2. run.pc \in {"head", "step", "baselining"} /\ run.team = "no"
  <2>1. run.pc \in {"head", "step", "baselining"}
    BY DEF LoopHead, CancelAtHead, SkipStep, EnterStep, LeaveLoop, Baseline, CaptureFails, CaptureBaseline, BaselineEnds, At
  <2> QED BY <2>1, LoopFacts DEF Looping
<1>3. ASSUME NEW m, m.routes = mem.routes, Pays(m) PROVE Moves
  BY <1>2, <1>3 DEF Moves, Pays, Outcomes
<1>4. CASE LoopHead
  <2> DEFINE n == [mem EXCEPT !.cursor = @ + 1]
  <2>1. n.routes = mem.routes
    BY <1>1 DEF Memories
  <2>2. /\ work' = work
        /\ \/ \E v, f : Stop(mem, v, f)
           \/ Again(n, run.verdict)
           \/ \E pc \in {"step", "finish"} : Goto(mem, pc)
    BY <1>4 DEF LoopHead, CancelAtHead, SkipStep, EnterStep, LeaveLoop
  <2> HIDE DEF n
  <2>3. {"step", "finish"} \subseteq Places \ Outcomes
    BY DEF Places, Outcomes
  <2>4. Pays(mem) \/ Pays(n)
    BY <1>1, <1>2, <2>2, <2>3, WaysPay
  <2> QED BY <1>1, <1>3, <2>1, <2>2, <2>4, FilesOnly
<1>5. CASE CaptureFails \/ CaptureBaseline
  <2> DEFINE n == [mem EXCEPT !.baseline = TRUE]
  <2>1. n.routes = mem.routes
    BY <1>1 DEF Memories
  <2>2. /\ work' = work
        /\ \/ Stop(mem, "BLOCKED", TRUE)
           \/ \E pc \in {"step", "baselining"} : Goto(n, pc)
    BY <1>5 DEF CaptureFails, CaptureBaseline
  <2> HIDE DEF n
  <2>3. {"step", "baselining"} \subseteq Places \ Outcomes
    BY DEF Places, Outcomes
  <2>4. Pays(mem) \/ Pays(n)
    BY <1>1, <2>2, <2>3, WaysPay
  <2> QED BY <1>1, <1>3, <2>1, <2>2, <2>4, FilesOnly
<1>6. CASE BaselineEnds
  <2> DEFINE n == [mem EXCEPT !.results = @ \cup {"verify-baseline"}]
  <2>1. n \in Memories /\ n.routes = mem.routes
    <3>1. mem.results \cup {"verify-baseline"} \in ResultSets
      BY <1>1, MemoryFields DEF ResultSets
    <3> QED BY <1>1, <3>1 DEF Memories
  <2>2. PICK tampered \in BOOLEAN :
          /\ work' = [work EXCEPT !.tampered = tampered, !.changed = @ \/ tampered]
          /\ \/ \E v, f : Stop(n, v, f)
             \/ Throw(n)
             \/ BaselineIssue(n)
             \/ Goto(n, "step")
    BY <1>6 DEF BaselineEnds
  <2> HIDE DEF n
  <2>3. "step" \in Places \ Outcomes
    BY DEF Places, Outcomes
  <2>4. Pays(n)
    BY <1>1, <2>1, <2>2, <2>3, WaysPay, BaselinePays
  <2>5. MarksKept
    BY <1>1, <2>2, FilesOnly
  <2> QED BY <1>3, <2>1, <2>4, <2>5
<1> QED BY <1>4, <1>5, <1>6 DEF Baseline

LEMMA CallMoves == BudgetInvariant /\ PathInvariant /\ (SkipCicd \/ ReviewHeld \/ SnapshotFails \/ StartStep \/ CallEnds) => Moves /\ MarksKept
<1> SUFFICES ASSUME BudgetInvariant, PathInvariant, SkipCicd \/ ReviewHeld \/ SnapshotFails \/ StartStep \/ CallEnds
             PROVE Moves /\ MarksKept
  OBVIOUS
<1>1. run \in Controls /\ mem \in Memories /\ work \in Workspaces
  BY DEF BudgetInvariant, LoopHeld, Sound, Surroundings
<1>2. run.pc \in {"step", "working"} /\ run.team = "no"
  <2>1. run.pc \in {"step", "working"}
    BY DEF SkipCicd, ReviewHeld, SnapshotFails, StartStep, CallEnds, StepAllowed, StepReady, At
  <2> QED BY <2>1, LoopFacts DEF Looping
<1>3. ASSUME NEW m, m.routes = mem.routes, Pays(m) PROVE Moves
  BY <1>2, <1>3 DEF Moves, Pays, Outcomes
<1>4. CASE SkipCicd \/ ReviewHeld
  <2> DEFINE n == [mem EXCEPT !.cursor = @ + 1]
  <2>1. n.routes = mem.routes
    BY <1>1 DEF Memories
  <2>2. /\ work' = work
        /\ Again(n, run.verdict) \/ IntegrityUnknown(mem) \/ IntegrityIssue(mem, TRUE)
    BY <1>4 DEF SkipCicd, ReviewHeld
  <2> HIDE DEF n
  <2>3. Pays(mem) \/ Pays(n)
    BY <1>1, <1>2, <2>2, WaysPay, IssuesPay
  <2> QED BY <1>1, <1>3, <2>1, <2>2, <2>3, FilesOnly
<1>5. CASE SnapshotFails \/ StartStep
  <2> DEFINE n == [Counted EXCEPT !.instructed = @ \/ opts.instruction]
  <2>1. Counted.routes = mem.routes /\ n.routes = mem.routes
    BY <1>1 DEF Counted, Memories
  <2>2. work' = work
    BY <1>5 DEF SnapshotFails, StartStep
  <2>3. \/ \E v, f : Stop(Counted, v, f)
        \/ mem' = n /\ run'.pc \in {"answered", "calling"} /\ run'.team = run.team
    <3>1. CASE SnapshotFails
      BY <3>1 DEF SnapshotFails
    <3>2. CASE StartStep
      <4>1. \/ Stop(Counted, run.verdict, run.failure)
            \/ /\ mem' = n
               /\ run' = [run EXCEPT !.pc = "answered", !.resumes = "none", !.before = "late",
                                     !.answer = run.recovered, !.recovered = NoAnswer]
            \/ /\ mem' = n
               /\ run' = [run EXCEPT !.pc = "calling", !.answer = NoAnswer, !.before = "own",
                                     !.resumes = IF Resumed THEN "none" ELSE @]
        BY <3>2 DEF StartStep
      <4> HIDE DEF n
      <4> QED BY <1>1, <4>1 DEF Controls
    <3> QED BY <1>5, <3>1, <3>2
  <2> HIDE DEF n
  <2>4. Pays(Counted) \/ Pays(n)
    BY <1>1, <2>3, WaysPay DEF Pays, TeamKept, Outcomes
  <2> QED BY <1>1, <1>3, <2>1, <2>2, <2>4, FilesOnly
<1>6. CASE CallEnds
  <2>1. PICK status \in IF aborted THEN {"CANCELLED"} ELSE {"DONE", "FAILED"},
             out \in Outputs(Step) \cup {"none"},
             changed, tampered, stray, throws \in BOOLEAN :
          CallResult(status, out, changed, tampered, stray, throws)
    BY <1>6 DEF CallEnds
  <2>2. mem' = mem /\ work' = [work EXCEPT !.tampered = tampered, !.changed = @ \/ changed]
    BY <1>6, <2>1 DEF CallEnds, CallResult
  <2>3. run'.pc \in {"returned", "answered"} /\ run'.team = run.team
    BY <1>1, <2>1 DEF CallResult, Controls
  <2> QED BY <1>1, <1>3, <2>2, <2>3, FilesOnly DEF Pays, TeamKept, Outcomes
<1> QED BY <1>4, <1>5, <1>6

LEMMA AnswerPays == BudgetInvariant /\ PathInvariant /\ (Answer \/ ReviewRefuses) => Moves /\ MarksKept
<1> SUFFICES ASSUME BudgetInvariant, PathInvariant, Answer \/ ReviewRefuses PROVE Moves /\ MarksKept
  OBVIOUS
<1>1. run \in Controls /\ mem \in Memories /\ work \in Workspaces
  BY DEF BudgetInvariant, LoopHeld, Sound, Surroundings
<1>2. run.pc = "answered" /\ work' = work /\ run.team = "no"
  <2>1. run.pc = "answered" /\ work' = work
    BY DEF Answer, AnswerHeld, AnswerStopped, AnswerStrays, ClarifierReady, ClarifierAsks, AnswerInvalid,
           PlannerPlans, WriterDone, AnswerBlocked, ReviewRefuses, Answered, Checked, At
  <2> QED BY <2>1, LoopFacts DEF Looping
<1>3. ASSUME NEW m, m.routes = mem.routes, Pays(m) PROVE Moves
  BY <1>2, <1>3 DEF Moves, Pays, Outcomes
<1>4. Consumed \in Memories /\ Consumed.routes = mem.routes
  BY <1>2, ConsumedFields
<1>5. \/ IntegrityUnknown(Consumed)
      \/ IntegrityIssue(Consumed, ~Cancelled)
      \/ \E v, f : Stop(Consumed, v, f)
      \/ Again([Consumed EXCEPT !.cursor = @ + 1], run.verdict)
      \/ Again([Consumed EXCEPT !.rounds = @ + 1], run.verdict)
      \/ Again([Consumed EXCEPT !.cursor = @ + 1, !.plan = run.answer.out], run.verdict)
      \/ RouteTo(Consumed, run.answer.out, "review", "NEEDS-WORK", "NEEDS-WORK")
  BY DEF Answer, AnswerHeld, AnswerStopped, AnswerStrays, ClarifierReady, ClarifierAsks, AnswerInvalid,
         PlannerPlans, WriterDone, AnswerBlocked, ReviewRefuses
<1>6. \E n : n.routes = mem.routes /\ Pays(n)
  <2>1. CASE IntegrityUnknown(Consumed) \/ \E v, f : Stop(Consumed, v, f)
    BY <1>1, <1>4, <2>1, WaysPay
  <2>2. CASE IntegrityIssue(Consumed, ~Cancelled)
    BY <1>1, <1>4, <2>2, IssuesPay
  <2>3. CASE RouteTo(Consumed, run.answer.out, "review", "NEEDS-WORK", "NEEDS-WORK")
    BY <1>1, <1>4, <2>3, RoutesPay
  <2>4. CASE \/ Again([Consumed EXCEPT !.cursor = @ + 1], run.verdict)
             \/ Again([Consumed EXCEPT !.rounds = @ + 1], run.verdict)
             \/ Again([Consumed EXCEPT !.cursor = @ + 1, !.plan = run.answer.out], run.verdict)
    <3> DEFINE n1 == [Consumed EXCEPT !.cursor = @ + 1]
               n2 == [Consumed EXCEPT !.rounds = @ + 1]
               n3 == [Consumed EXCEPT !.cursor = @ + 1, !.plan = run.answer.out]
    <3>1. n1.routes = mem.routes /\ n2.routes = mem.routes /\ n3.routes = mem.routes
      BY <1>4 DEF Memories
    <3>2. Again(n1, run.verdict) \/ Again(n2, run.verdict) \/ Again(n3, run.verdict)
      BY <2>4
    <3> HIDE DEF n1, n2, n3
    <3> QED BY <1>1, <1>2, <3>1, <3>2, WaysPay
  <2> QED BY <1>5, <2>1, <2>2, <2>3, <2>4
<1> QED BY <1>1, <1>2, <1>3, <1>6, FilesOnly

\* A gate that is passed is added to what was passed before.
Checks ==
    /\ run'.pc \notin Outcomes /\ mem'.routes = mem.routes
    /\ work.passed \subseteq work'.passed /\ work'.approved = work.approved

LEMMA CommandMoves == BudgetInvariant /\ PathInvariant /\ (ReproEnds \/ VerifyEnds \/ RuntimeEnds) => Moves /\ (MarksKept \/ Checks)
<1> SUFFICES ASSUME BudgetInvariant, PathInvariant, ReproEnds \/ VerifyEnds \/ RuntimeEnds
             PROVE Moves /\ (MarksKept \/ Checks)
  OBVIOUS
<1>1. run \in Controls /\ mem \in Memories /\ work \in Workspaces
  BY DEF BudgetInvariant, LoopHeld, Sound, Surroundings
<1>2. run.pc \in {"reproducing", "verifying", "probing"}
  BY DEF ReproEnds, VerifyEnds, RuntimeEnds, At
<1>3. ASSUME NEW m, m.routes = mem.routes, Pays(m) PROVE Moves
  BY <1>2, <1>3 DEF Moves, Pays, Outcomes
<1>4. ASSUME NEW m \in Memories, m.routes = mem.routes, NEW g, PassGate(m, g),
             NEW e \in Workspaces, e.passed = work.passed, e.approved = work.approved,
             NEW h, work' = [e EXCEPT !.passed = @ \cup {h}]
      PROVE Moves /\ Checks
  <2>1. Pays(m) /\ mem'.routes = m.routes /\ run'.pc \notin Outcomes
    BY <1>1, <1>4, GatesPay
  <2>2. work'.passed = work.passed \cup {h} /\ work'.approved = work.approved
    BY <1>4 DEF Workspaces
  <2> QED BY <1>3, <1>4, <2>1, <2>2 DEF Checks
<1>5. CASE ReproEnds
  <2> DEFINE n == [mem EXCEPT !.results = @ \cup {"repro"}]
  <2>1. n \in Memories /\ n.routes = mem.routes
    BY <1>1, ResultFields
  <2>2. PICK tampered \in BOOLEAN :
          LET effect == [work EXCEPT !.tampered = tampered, !.changed = @ \/ tampered] IN
          \/ /\ work' = effect
             /\ Throw(n) \/ (\E v, f : Stop(n, v, f)) \/ \E t, s, c, v : RouteTo(n, t, s, c, v)
          \/ PassGate(n, "start") /\ work' = [effect EXCEPT !.passed = @ \cup {"repro"}]
    BY <1>5 DEF ReproEnds
  <2> DEFINE effect == [work EXCEPT !.tampered = tampered, !.changed = @ \/ tampered]
  <2>3. effect \in Workspaces /\ effect.passed = work.passed /\ effect.approved = work.approved
    BY <1>1 DEF Workspaces
  <2> HIDE DEF n, effect
  <2>4. CASE work' = effect /\ (Throw(n) \/ (\E v, f : Stop(n, v, f)) \/ \E t, s, c, v : RouteTo(n, t, s, c, v))
    <3>1. Pays(n)
      BY <1>1, <2>1, <2>4, WaysPay, RoutesPay
    <3>2. MarksKept
      BY <2>3, <2>4 DEF MarksKept
    <3> QED BY <1>3, <2>1, <3>1, <3>2
  <2>5. CASE PassGate(n, "start") /\ work' = [effect EXCEPT !.passed = @ \cup {"repro"}]
    BY <1>4, <2>1, <2>3, <2>5
  <2> QED BY <2>2, <2>4, <2>5 DEF effect
<1>6. CASE VerifyEnds
  <2> DEFINE m == [mem EXCEPT !.results = @ \cup {"verify"}]
             good == [m EXCEPT !.evidence = Shown(m, "verify")]
  <2>1. m \in Memories /\ m.routes = mem.routes
    BY <1>1, ResultFields
  <2>2. good \in Memories /\ good.routes = mem.routes
    <3> HIDE DEF m
    <3> QED BY <2>1, ShownFields
  <2>3. PICK tampered \in BOOLEAN :
          LET effect == [work EXCEPT !.tampered = tampered, !.changed = @ \/ tampered] IN
          \/ /\ work' = effect
             /\ \/ Throw(m) \/ IntegrityUnknown(m) \/ IntegrityIssue(m, ~aborted) \/ \E v, f : Stop(m, v, f)
                \/ \E t, s, c, v : RouteTo(m, t, s, c, v)
                \/ IntegrityUnknown(good) \/ IntegrityIssue(good, TRUE)
          \/ PassGate(good, "verify") /\ work' = [effect EXCEPT !.passed = @ \cup {"verify"}]
    BY <1>6 DEF VerifyEnds
  <2> DEFINE effect == [work EXCEPT !.tampered = tampered, !.changed = @ \/ tampered]
  <2>4. effect \in Workspaces /\ effect.passed = work.passed /\ effect.approved = work.approved
    BY <1>1 DEF Workspaces
  <2> HIDE DEF m, good, effect
  <2>5. CASE work' = effect
    <3>1. Pays(m) \/ Pays(good)
      BY <1>1, <2>1, <2>2, <2>3, WaysPay, RoutesPay, IssuesPay, GatesPay
    <3>2. MarksKept
      BY <2>4, <2>5 DEF MarksKept
    <3>3. Moves
      BY <1>3, <2>1, <2>2, <3>1
    <3> QED BY <3>2, <3>3
  <2>6. CASE PassGate(good, "verify") /\ work' = [effect EXCEPT !.passed = @ \cup {"verify"}]
    BY <1>4, <2>2, <2>4, <2>6
  <2> QED BY <2>3, <2>5, <2>6 DEF effect
<1>7. CASE RuntimeEnds
  <2> DEFINE m == [mem EXCEPT !.results = @ \cup {"verify"}, !.evidence = Shown(mem, "runtime")]
             strayed == [m EXCEPT !.violations = @ + 1]
  <2>1. m \in Memories /\ m.routes = mem.routes
    <3> DEFINE n == [mem EXCEPT !.results = @ \cup {"verify"}]
    <3>1. n \in Memories /\ n.routes = mem.routes /\ n.evidence = mem.evidence
      BY <1>1, ResultFields
    <3>2. Shown(n, "runtime") = Shown(mem, "runtime")
      BY <3>1 DEF Shown
    <3>3. m = [n EXCEPT !.evidence = Shown(n, "runtime")]
      BY <1>1, <3>2 DEF Memories
    <3> HIDE DEF n, m
    <3> QED BY <3>1, <3>3, ShownFields
  <2>2. strayed.routes = mem.routes
    <3> HIDE DEF m
    <3> QED BY <2>1 DEF Memories
  <2>3. PICK tampered \in BOOLEAN, stray \in BOOLEAN :
          LET effect == [work EXCEPT !.tampered = tampered, !.changed = @ \/ tampered \/ stray] IN
          \/ /\ work' = effect
             /\ \/ Stop(strayed, "FAILED", TRUE)
                \/ Throw(m) \/ IntegrityUnknown(m) \/ IntegrityIssue(m, ~aborted) \/ \E v, f : Stop(m, v, f)
                \/ \E t, s, c, v : RouteTo(m, t, s, c, v)
          \/ PassGate(m, "runtime") /\ work' = [effect EXCEPT !.passed = @ \cup {"runtime"}]
    BY <1>7, ZenonT(40) DEF RuntimeEnds
  <2> DEFINE effect == [work EXCEPT !.tampered = tampered, !.changed = @ \/ tampered \/ stray]
  <2>4. effect \in Workspaces /\ effect.passed = work.passed /\ effect.approved = work.approved
    BY <1>1 DEF Workspaces
  <2> HIDE DEF m, strayed, effect
  <2>5. CASE work' = effect
    <3>1. Pays(m) \/ Pays(strayed)
      BY <1>1, <2>1, <2>2, <2>3, WaysPay, RoutesPay, IssuesPay, GatesPay
    <3>2. MarksKept
      BY <2>4, <2>5 DEF MarksKept
    <3>3. Moves
      BY <1>3, <2>1, <2>2, <3>1
    <3> QED BY <3>2, <3>3
  <2>6. CASE PassGate(m, "runtime") /\ work' = [effect EXCEPT !.passed = @ \cup {"runtime"}]
    BY <1>4, <2>1, <2>4, <2>6
  <2> QED BY <2>3, <2>5, <2>6 DEF effect
<1> QED BY <1>5, <1>6, <1>7

LEMMA GateMoves == BudgetInvariant /\ PathInvariant /\ Gate => Moves /\ (MarksKept \/ Checks)
<1> SUFFICES ASSUME BudgetInvariant, PathInvariant, Gate PROVE Moves /\ (MarksKept \/ Checks)
  OBVIOUS
<1>1. run \in Controls /\ mem \in Memories /\ work \in Workspaces
  BY DEF BudgetInvariant, LoopHeld, Sound, Surroundings
<1>2. CASE ReproEnds \/ VerifyEnds \/ RuntimeEnds
  BY <1>2, CommandMoves
<1>3. ASSUME NEW m, m.routes = mem.routes, Pays(m), run.pc \in {"answered", "verify", "runtime"} PROVE Moves
  BY <1>3 DEF Moves, Pays, Outcomes
<1>4. CASE TestAnswered
  <2>1. run.pc = "answered" /\ work' = work
    BY <1>4 DEF TestAnswered, Answered, Checked, At
  <2>2. Consumed \in Memories /\ Consumed.routes = mem.routes
    BY <2>1, ConsumedFields
  <2>3. \/ Goto(Consumed, "reproducing") \/ PassGate(Consumed, "start")
        \/ \E t, s, c, v : RouteTo(Consumed, t, s, c, v)
    BY <1>4 DEF TestAnswered
  <2>4. "reproducing" \in Places \ Outcomes
    BY DEF Places, Outcomes
  <2>5. Pays(Consumed)
    BY <1>1, <2>2, <2>3, <2>4, WaysPay, GatesPay, RoutesPay
  <2> QED BY <1>1, <1>3, <2>1, <2>2, <2>5, FilesOnly
<1>5. CASE GateSkipped \/ GateHeld \/ GateStarts
  <2>1. run.pc \in {"verify", "runtime"} /\ work' = work
    BY <1>5 DEF GateSkipped, GateHeld, GateStarts, At
  <2>2. \/ \E g : PassGate(mem, g)
        \/ IntegrityUnknown(mem) \/ IntegrityIssue(mem, TRUE)
        \/ \E pc \in {"verifying", "probing"} : Goto(mem, pc)
    BY <1>5 DEF GateSkipped, GateHeld, GateStarts
  <2>3. {"verifying", "probing"} \subseteq Places \ Outcomes
    BY DEF Places, Outcomes
  <2>4. Pays(mem)
    BY <1>1, <2>2, <2>3, WaysPay, GatesPay, IssuesPay
  <2> QED BY <1>1, <1>3, <2>1, <2>4, FilesOnly
<1> QED BY <1>2, <1>4, <1>5 DEF Gate

LEMMA TeamMoves == BudgetInvariant /\ PathInvariant /\ (TeamEnds \/ TeamReviewRefuses \/ TeamFails) => Moves /\ MarksKept
<1> SUFFICES ASSUME BudgetInvariant, PathInvariant, TeamEnds \/ TeamReviewRefuses \/ TeamFails PROVE Moves /\ MarksKept
  OBVIOUS
<1>1. run \in Controls /\ mem \in Memories /\ work \in Workspaces
  BY DEF BudgetInvariant, LoopHeld, Sound, Surroundings
<1>2. run.pc \in {"team", "reviews"}
  BY DEF TeamEnds, TeamReviewRefuses, TeamFails, At
<1>3. ASSUME NEW m, m.routes = mem.routes, Pays(m) PROVE Moves
  BY <1>2, <1>3 DEF Moves, Pays, Outcomes
<1>4. CASE TeamReviewRefuses \/ TeamFails
  <2>1. /\ work' = work
        /\ (\E t, s, c, v : RouteTo(mem, t, s, c, v)) \/ (\E v, f : Stop(mem, v, f))
    BY <1>4 DEF TeamReviewRefuses, TeamFails
  <2> QED BY <1>1, <1>3, <2>1, RoutesPay, WaysPay, FilesOnly
<1>5. CASE TeamEnds
  <2> DEFINE n == [mem EXCEPT !.results = @ \cup {"team"}]
  <2>1. n \in Memories /\ n.routes = mem.routes
    BY <1>1, ResultFields
  <2>2. PICK tampered \in BOOLEAN, outcome \in {"ok", "failed"} :
          /\ work' = [work EXCEPT !.tampered = tampered, !.changed = TRUE]
          /\ \/ Throw(n) \/ IntegrityUnknown(n) \/ IntegrityIssue(n, ~aborted)
             \/ /\ mem' = n
                /\ run' = [run EXCEPT !.team = outcome,
                                      !.pc = IF GateAfter("start") = "end" THEN "reviews" ELSE GateAfter("start")]
    BY <1>5 DEF TeamEnds
  <2> HIDE DEF n
  <2>3. GateAfter("start") \in {"verify", "runtime", "end"}
    BY DEF GateAfter
  <2>4. Pays(n)
    <3>1. CASE /\ mem' = n
               /\ run' = [run EXCEPT !.team = outcome,
                                     !.pc = IF GateAfter("start") = "end" THEN "reviews" ELSE GateAfter("start")]
      <4>1. run.team = "ok"
        BY <1>5 DEF TeamEnds, At, PathInvariant, Trail, TeamRuns
      <4> QED BY <1>1, <2>3, <3>1, <4>1 DEF Controls, Pays, TeamKept, Outcomes
    <3> QED BY <1>1, <2>1, <2>2, <3>1, WaysPay, IssuesPay
  <2>5. MarksKept
    BY <1>1, <2>2, FilesOnly
  <2> QED BY <1>3, <2>1, <2>4, <2>5
<1> QED BY <1>4, <1>5

-----------------------------------------------------------------------------
(* Cancellation. *)

LEMMA CancelStep ==
  BudgetInvariant /\ PathInvariant /\ Next /\ aborted =>
    /\ run'.pc \in {"auditing", "posting"} => run.pc \in {"auditing", "posting"}
    /\ child'.status = "DONE" => child.status = "DONE"
<1> SUFFICES ASSUME BudgetInvariant, PathInvariant, Next, aborted
             PROVE /\ run'.pc \in {"auditing", "posting"} => run.pc \in {"auditing", "posting"}
                   /\ child'.status = "DONE" => child.status = "DONE"
  OBVIOUS
<1>1. run \in Controls /\ child \in Answers
  BY DEF BudgetInvariant, LoopHeld, Surroundings
<1>2. child'.status = "DONE" => child.status = "DONE"
  <2>1. CASE CallStarts
    BY <2>1 DEF CallStarts, NoChild, NoAnswer
  <2>2. CASE CallEnds
    BY <1>1, <2>2 DEF CallEnds, CallResult, Answers
  <2> QED BY <2>1, <2>2, ChildMoves
<1>3. run'.pc \in {"auditing", "posting"} => run.pc \in {"auditing", "posting"}
  <2>1. ASSUME Moves PROVE run'.pc \notin {"auditing", "posting"}
    BY <2>1 DEF Moves, Pays, Outcomes
  <2>2. CASE Abort
    BY <2>2 DEF Abort
  <2>3. CASE LoopHead \/ Baseline
    BY <2>1, <2>3, LoopMoves
  <2>4. CASE Call
    <3>1. CASE CallStarts
      BY <1>1, <3>1 DEF CallStarts, Controls
    <3> QED BY <2>1, <2>4, <3>1, CallMoves DEF Call
  <2>5. CASE Answer \/ ReviewRefuses
    BY <2>1, <2>5, AnswerPays
  <2>6. CASE Gate
    BY <2>1, <2>6, GateMoves
  <2>7. CASE TeamEnds \/ TeamReviewRefuses \/ TeamFails
    BY <2>1, <2>7, TeamMoves
  <2>8. CASE ReviewShips \/ TeamStarts \/ TeamShips
    BY <1>1, <2>8 DEF ReviewShips, Again, TeamStarts, TeamShips, Controls
  <2>9. CASE End
    <3>1. CASE Finalize
      BY <1>1, <3>1 DEF Finalize, Succeeded, Goto, Controls
    <3>2. CASE PostSuccessStarts \/ DeliveryAdvances
      BY <3>2 DEF PostSuccessStarts, DeliveryAdvances, At
    <3>3. CASE PostSuccessEnds \/ DeliveryEnds
      BY <3>3 DEF PostSuccessEnds, DeliveryEnds, At
    <3>4. CASE WriteResult
      BY <1>1, <3>4 DEF WriteResult, Controls
    <3> QED BY <2>9, <3>1, <3>2, <3>3, <3>4 DEF End
  <2> QED BY <2>2, <2>3, <2>4, <2>5, <2>6, <2>7, <2>8, <2>9 DEF Next, Progress, Review
<1> QED BY <1>2, <1>3

\* Once the user has cancelled, no agent call succeeds and neither the documents' audit nor the commit or
\* the delivery of the work begins, wherever in the run the cancellation came.
THEOREM CancelledStops == Spec => CancelHolds
<1> DEFINE Held == aborted => /\ run'.pc \in {"auditing", "posting"} => run.pc \in {"auditing", "posting"}
                              /\ child'.status = "DONE" => child.status = "DONE"
<1>1. BudgetInvariant /\ PathInvariant /\ [Next]_vars => [Held]_vars
  BY CancelStep
<1> QED BY <1>1, PathInvariance, PTL DEF Spec, CancelHolds

-----------------------------------------------------------------------------
(* The promise of GatedDelivery, step by step. *)

DueNow == (IF GatesDue = {} THEN {} ELSE {"checked"}) \cup (IF ReviewDue THEN {"approved"} ELSE {})
ShownNow == (IF GatesDue # {} /\ GatesDue \subseteq work.passed THEN {"checked"} ELSE {})
            \cup (IF work.approved THEN {"approved"} ELSE {})
ByTeamNow == run.team # "no"
LeftNow == opts.maxRoutes - mem.routes
PhaseNow == CASE run.pc \in {"auditing", "posting"} -> "delivering"
              [] run.pc \in {"returned", "over"} -> "closed"
              [] OTHER -> "working"

LEMMA PhaseIs ==
  /\ run.pc \notin Outcomes <=> PhaseNow = "working"
  /\ run.pc \in {"auditing", "posting"} <=> PhaseNow = "delivering"
  /\ run.pc \in {"returned", "over"} <=> PhaseNow = "closed"
  /\ run'.pc \notin Outcomes <=> PhaseNow' = "working"
  /\ run'.pc \in {"auditing", "posting"} <=> PhaseNow' = "delivering"
  /\ run'.pc \in {"returned", "over"} <=> PhaseNow' = "closed"
  BY DEF PhaseNow, Outcomes

\* One step of GatedDelivery, said of the workflow's own variables.
Promised ==
    \/ ShownNow' = ShownNow /\ TeamKept /\ LeftNow' = LeftNow /\ PhaseNow' = PhaseNow
    \/ /\ PhaseNow = "working" /\ PhaseNow' = "working" /\ LeftNow' = LeftNow
       /\ \/ ShownNow' = {} /\ (TeamKept \/ run'.team # "no")
          \/ ShownNow' = ShownNow \cup {"checked"} /\ TeamKept
          \/ DueNow \ {"approved"} \subseteq ShownNow /\ ShownNow' = ShownNow \cup {"approved"} /\ TeamKept
    \/ /\ PhaseNow = "working" /\ PhaseNow' = "working" /\ ShownNow' = ShownNow
       /\ LeftNow > 0 /\ LeftNow' = LeftNow - 1 /\ run'.team = "no"
    \/ /\ PhaseNow = "working" /\ PhaseNow' = "delivering" /\ LeftNow' = LeftNow /\ TeamKept
       /\ DueNow \ {"approved"} \subseteq ShownNow
       /\ \/ (run.team # "no" \/ DueNow \subseteq ShownNow) /\ ShownNow' = ShownNow
          \/ ShownNow' = ShownNow \cup {"approved"}
    \/ PhaseNow # "closed" /\ PhaseNow' = "closed" /\ ShownNow' = ShownNow /\ LeftNow' = LeftNow /\ TeamKept

LEMMA TeamShows ==
  /\ TeamKept => ByTeamNow' = ByTeamNow
  /\ run'.team # "no" => ByTeamNow' = TRUE
  /\ run'.team = "no" => ByTeamNow' = FALSE
  BY DEF TeamKept, ByTeamNow

LEMMA PromisedSteps ==
  ASSUME DueNow' = DueNow, Promised
  PROVE Delivery!Next \/ UNCHANGED Delivery!dvars
<1>1. CASE ShownNow' = ShownNow /\ TeamKept /\ LeftNow' = LeftNow /\ PhaseNow' = PhaseNow
  BY <1>1, TeamShows DEF DueNow, ShownNow, ByTeamNow, LeftNow, PhaseNow, Delivery!dvars
<1>2. CASE /\ PhaseNow = "working" /\ PhaseNow' = "working" /\ LeftNow' = LeftNow
           /\ \/ ShownNow' = {} /\ (TeamKept \/ run'.team # "no")
              \/ ShownNow' = ShownNow \cup {"checked"} /\ TeamKept
              \/ DueNow \ {"approved"} \subseteq ShownNow /\ ShownNow' = ShownNow \cup {"approved"} /\ TeamKept
  BY <1>2, TeamShows DEF DueNow, ShownNow, ByTeamNow, LeftNow, PhaseNow, Delivery!Next, Delivery!Working,
                         Delivery!Edit, Delivery!StartTeam, Delivery!Check, Delivery!Approve
<1>3. CASE /\ PhaseNow = "working" /\ PhaseNow' = "working" /\ ShownNow' = ShownNow
           /\ LeftNow > 0 /\ LeftNow' = LeftNow - 1 /\ run'.team = "no"
  BY <1>3, TeamShows DEF DueNow, ShownNow, ByTeamNow, LeftNow, PhaseNow, Delivery!Next, Delivery!Working, Delivery!Rework
<1>4. CASE /\ PhaseNow = "working" /\ PhaseNow' = "delivering" /\ LeftNow' = LeftNow /\ TeamKept
           /\ DueNow \ {"approved"} \subseteq ShownNow
           /\ \/ (run.team # "no" \/ DueNow \subseteq ShownNow) /\ ShownNow' = ShownNow
              \/ ShownNow' = ShownNow \cup {"approved"}
  BY <1>4, TeamShows DEF DueNow, ShownNow, ByTeamNow, LeftNow, PhaseNow, Delivery!Next, Delivery!Needed,
                         Delivery!Deliver, Delivery!ApproveAndDeliver
<1>5. CASE PhaseNow # "closed" /\ PhaseNow' = "closed" /\ ShownNow' = ShownNow /\ LeftNow' = LeftNow /\ TeamKept
  BY <1>5, TeamShows DEF DueNow, ShownNow, ByTeamNow, LeftNow, PhaseNow, Delivery!Next, Delivery!Close
<1> QED BY <1>1, <1>2, <1>3, <1>4, <1>5 DEF Promised

LEMMA KeptShows == opts' = opts /\ MarksKept => ShownNow' = ShownNow /\ DueNow' = DueNow
  BY DEF MarksKept, ShownNow, DueNow, GatesDue, ReviewDue

LEMMA MovesPromised ==
  ASSUME BudgetInvariant, opts' = opts, Moves, MarksKept
  PROVE Promised
<1>1. ShownNow' = ShownNow
  BY KeptShows
<1>2. mem.routes \in Nat /\ opts.maxRoutes \in Nat
  BY MemoryFields, OptionFields DEF BudgetInvariant, LoopHeld, Sound, Surroundings
<1>3. PhaseNow = "working" /\ PhaseNow' \in {"working", "closed"}
  BY PhaseIs DEF Moves, Pays, Outcomes
<1>4. CASE mem'.routes = mem.routes /\ TeamKept
  <2>1. LeftNow' = LeftNow
    BY <1>4 DEF LeftNow
  <2> QED BY <1>1, <1>3, <1>4, <2>1 DEF Promised
<1>5. CASE mem'.routes = mem.routes + 1 /\ mem.routes < opts.maxRoutes /\ run'.pc = "head" /\ run'.team = "no"
  <2>1. LeftNow > 0 /\ LeftNow' = LeftNow - 1
    BY <1>2, <1>5 DEF LeftNow
  <2>2. PhaseNow' = "working"
    BY <1>5, PhaseIs DEF Outcomes
  <2> QED BY <1>1, <1>3, <1>5, <2>1, <2>2 DEF Promised
<1> QED BY <1>4, <1>5 DEF Moves, Pays

LEMMA ChecksPromised ==
  ASSUME BudgetInvariant, opts' = opts, Moves, Checks
  PROVE Promised
<1>1. PhaseNow = "working" /\ PhaseNow' = "working" /\ LeftNow' = LeftNow
  BY PhaseIs DEF Moves, Checks, LeftNow
<1>2. GatesDue' = GatesDue
  BY DEF GatesDue
<1>3. ShownNow' = ShownNow \/ ShownNow' = ShownNow \cup {"checked"}
  BY <1>2 DEF Checks, ShownNow
<1>4. TeamKept
  <2>1. mem.routes \in Nat /\ mem'.routes = mem.routes
    BY MemoryFields DEF BudgetInvariant, LoopHeld, Sound, Checks
  <2> QED BY <2>1 DEF Moves, Pays
<1> QED BY <1>1, <1>3, <1>4 DEF Promised

\* A call of a step that writes, and a team, take every mark away.
LEMMA EditsPromised ==
  ASSUME BudgetInvariant, CallStarts \/ TeamStarts
  PROVE Promised
<1>1. run \in Controls /\ mem \in Memories /\ work \in Workspaces /\ opts' = opts
  BY DEF BudgetInvariant, LoopHeld, Sound, Surroundings, CallStarts, TeamStarts
<1>2. PhaseNow = "working" /\ PhaseNow' = "working"
  <2>1. run.pc \in {"calling", "answered"}
    BY DEF CallStarts, TeamStarts, Answered, Checked, At
  <2>2. run'.pc \in {"working", "answered", "team"}
    BY <1>1 DEF CallStarts, TeamStarts, Controls
  <2> QED BY <2>1, <2>2, PhaseIs DEF Outcomes
<1>3. LeftNow' = LeftNow
  <2>1. CASE CallStarts
    BY <2>1 DEF CallStarts, LeftNow
  <2>2. CASE TeamStarts
    <3>1. run.pc = "answered" /\ mem' = [Consumed EXCEPT !.plan = "team"]
      BY <2>2 DEF TeamStarts, Answered, Checked, At
    <3>2. mem'.routes = mem.routes
      BY <3>1, ConsumedFields DEF Memories
    <3> QED BY <1>1, <3>2 DEF LeftNow
  <2> QED BY <2>1, <2>2
<1>4. \/ work' = work /\ TeamKept
      \/ work' = [work EXCEPT !.passed = {}, !.approved = FALSE] /\ (TeamKept \/ run'.team # "no")
  BY <1>1 DEF CallStarts, TeamStarts, Controls, TeamKept
<1>5. CASE work' = work /\ TeamKept
  BY <1>1, <1>2, <1>3, <1>5, KeptShows, FilesOnly DEF Promised
<1>6. CASE work' = [work EXCEPT !.passed = {}, !.approved = FALSE] /\ (TeamKept \/ run'.team # "no")
  <2>1. work'.passed = {} /\ work'.approved = FALSE
    BY <1>1, <1>6 DEF Workspaces
  <2>2. ShownNow' = {}
    BY <1>1, <2>1 DEF ShownNow, GatesDue
  <2> QED BY <1>2, <1>3, <1>6, <2>2 DEF Promised
<1> QED BY <1>4, <1>5, <1>6

LEMMA GatesShown == GatesDue \subseteq work.passed => DueNow \ {"approved"} \subseteq ShownNow
  BY DEF DueNow, ShownNow

LEMMA ApprovedShows ==
  ASSUME opts' = opts, work'.passed = work.passed, work'.approved = TRUE
  PROVE ShownNow' = ShownNow \cup {"approved"}
  BY DEF ShownNow, GatesDue

LEMMA ShipsPromised ==
  ASSUME BudgetInvariant, PathInvariant, ReviewShips \/ TeamShips
  PROVE Promised
<1>1. run \in Controls /\ mem \in Memories /\ work \in Workspaces /\ opts' = opts
  BY DEF BudgetInvariant, LoopHeld, Sound, Surroundings, ReviewShips, TeamShips
<1>2. CASE ReviewShips
  <2>1. /\ Answered("review", {"ship"}) /\ Again([Consumed EXCEPT !.cursor = @ + 1], "SHIP")
        /\ work' = [work EXCEPT !.approved = run.answer.current]
    BY <1>2 DEF ReviewShips
  <2>2. run.pc = "answered" /\ Step = "review" /\ Onward(mem, work, run.verdict) /\ mem.cursor \in 1..6
    BY <2>1, AnsweredFacts
  <2>3. run.answer.current
    BY <2>2 DEF PathInvariant, Trail, CallHeld
  <2>4. GatesDue \subseteq work.passed
    BY <2>2, StepIs, IndexIs DEF Onward
  <2>5. work'.passed = work.passed /\ work'.approved = TRUE
    BY <1>1, <2>1, <2>3 DEF Workspaces
  <2> DEFINE n == [Consumed EXCEPT !.cursor = @ + 1]
  <2>6. n.routes = mem.routes
    BY <2>2, ConsumedFields DEF Memories
  <2>7. Again(n, "SHIP")
    BY <2>1
  <2> HIDE DEF n
  <2>8. mem' = n /\ run'.pc = "head" /\ run'.team = "no"
    BY <1>1, <2>7 DEF Again, Controls
  <2>9. PhaseNow = "working" /\ PhaseNow' = "working" /\ LeftNow' = LeftNow /\ TeamKept
    <3>1. run.team = "no"
      BY <2>2, LoopFacts DEF Looping
    <3> QED BY <1>1, <2>2, <2>6, <2>8, <3>1, PhaseIs DEF Outcomes, LeftNow, TeamKept
  <2> QED BY <1>1, <2>4, <2>5, <2>9, GatesShown, ApprovedShows DEF Promised
<1>3. CASE TeamShips
  <2>1. /\ run.pc = "reviews" /\ run.team = "ok" /\ mem' = mem
        /\ run' = [run EXCEPT !.pc = IF aborted THEN "returned" ELSE "auditing", !.verdict = "SHIP"]
    BY <1>3 DEF TeamShips, At
  <2>2. PICK approved \in BOOLEAN : (approved => ~aborted) /\ work' = [work EXCEPT !.approved = approved]
    BY <1>3 DEF TeamShips
  <2>3. /\ ~aborted => Before("reviews") \subseteq work.passed
        /\ ~work.approved /\ opts.gates \subseteq Gates
    BY <2>1, GateFacts DEF Gating
  <2>4. ~aborted => DueNow \ {"approved"} \subseteq ShownNow
    <3>1. GatesDue \subseteq Before("reviews")
      BY DEF GatesDue, Before
    <3> QED BY <2>3, <3>1, GatesShown
  <2>5. work'.passed = work.passed /\ work'.approved = approved
    BY <1>1, <2>2 DEF Workspaces
  <2>6. /\ PhaseNow = "working" /\ LeftNow' = LeftNow /\ run'.pc = IF aborted THEN "returned" ELSE "auditing"
        /\ TeamKept /\ PhaseNow' = IF aborted THEN "closed" ELSE "delivering"
    <3>1. run'.pc = (IF aborted THEN "returned" ELSE "auditing") /\ run'.team = "ok"
      BY <1>1, <2>1 DEF Controls
    <3> QED BY <1>1, <2>1, <3>1, PhaseIs DEF Outcomes, LeftNow, TeamKept
  <2>7. CASE approved = FALSE
    <3>1. work.approved = FALSE
      BY <1>1, <2>3 DEF Workspaces
    <3>2. ShownNow' = ShownNow
      BY <1>1, <2>5, <2>7, <3>1, KeptShows DEF MarksKept
    <3> QED BY <2>1, <2>4, <2>6, <3>2 DEF Promised
  <2>8. CASE approved = TRUE
    <3>1. ShownNow' = ShownNow \cup {"approved"}
      BY <1>1, <2>5, <2>8, ApprovedShows
    <3> QED BY <2>2, <2>4, <2>6, <2>8, <3>1 DEF Promised
  <2> QED BY <2>7, <2>8
<1> QED BY <1>2, <1>3

LEMMA EndPromised ==
  ASSUME BudgetInvariant, PathInvariant, End
  PROVE Promised
<1>1. run \in Controls /\ mem \in Memories /\ work \in Workspaces /\ opts' = opts /\ mem' = mem
  BY DEF End, Finalize, PostSuccessStarts, PostSuccessEnds, DeliveryAdvances, DeliveryEnds, WriteResult, Goto,
         BudgetInvariant, LoopHeld, Sound, Surroundings
<1>2. MarksKept
  <2>1. CASE Finalize \/ PostSuccessStarts \/ DeliveryEnds \/ WriteResult
    BY <2>1 DEF Finalize, PostSuccessStarts, DeliveryEnds, WriteResult, MarksKept
  <2>2. CASE PostSuccessEnds
    BY <1>1, <2>2 DEF PostSuccessEnds, MarksKept, Workspaces
  <2>3. CASE DeliveryAdvances
    BY <1>1, <2>3 DEF DeliveryAdvances, MarksKept, Workspaces
  <2> QED BY <2>1, <2>2, <2>3 DEF End
<1>3. ShownNow' = ShownNow /\ LeftNow' = LeftNow /\ TeamKept
  <2>1. run'.team = run.team
    BY <1>1 DEF End, Finalize, PostSuccessStarts, PostSuccessEnds, DeliveryAdvances, DeliveryEnds, WriteResult, Goto, Controls
  <2> QED BY <1>1, <1>2, <2>1, KeptShows DEF LeftNow, TeamKept
<1>4. CASE Finalize
  <2>1. run.pc = "finish" /\ run'.pc = IF Succeeded THEN "auditing" ELSE "returned"
    BY <1>1, <1>4 DEF Finalize, At, Goto, Controls
  <2>2. Succeeded => GatesDue \subseteq work.passed /\ (ReviewDue => work.approved)
    <3>1. mem.cursor \in 1..7
      BY <1>1, MemoryFields
    <3> QED BY <2>1, <3>1, IndexIs DEF Succeeded, PathInvariant, Trail, EndHeld, Onward
  <2>3. Succeeded => DueNow \subseteq ShownNow
    BY <2>2 DEF DueNow, ShownNow
  <2> QED BY <1>3, <2>1, <2>3, PhaseIs DEF Promised, Outcomes
<1>5. CASE PostSuccessStarts \/ DeliveryAdvances
  <2>1. run.pc \in {"auditing", "posting"} /\ run'.pc \in {"auditing", "posting"}
    BY <1>1, <1>5 DEF PostSuccessStarts, DeliveryAdvances, At, Goto, Controls
  <2> QED BY <1>3, <2>1, PhaseIs DEF Promised
<1>6. CASE PostSuccessEnds \/ DeliveryEnds
  <2>1. run.pc = "posting" /\ run'.pc \in {"returned", "over"}
    BY <1>1, <1>6 DEF PostSuccessEnds, DeliveryEnds, At, Goto, Controls
  <2> QED BY <1>3, <2>1, PhaseIs DEF Promised
<1>7. CASE WriteResult
  <2>1. (run.pc = "returned" /\ run'.pc = "over") \/ (run.pc = "posting" /\ run'.pc = "posting")
    BY <1>1, <1>7 DEF WriteResult, At, Controls
  <2> QED BY <1>3, <2>1, PhaseIs DEF Promised
<1> QED BY <1>4, <1>5, <1>6, <1>7 DEF End

LEMMA PromiseStep == BudgetInvariant /\ PathInvariant /\ [Next]_vars => [Delivery!Next]_(Delivery!dvars)
<1> SUFFICES ASSUME BudgetInvariant, PathInvariant, [Next]_vars PROVE Delivery!Next \/ UNCHANGED Delivery!dvars
  OBVIOUS
<1>1. opts' = opts
  BY Unmoving DEF vars
<1>2. DueNow' = DueNow
  BY <1>1 DEF DueNow, GatesDue, ReviewDue
<1>3. Promised
  <2>1. ASSUME Moves, MarksKept PROVE Promised
    BY <1>1, <2>1, MovesPromised
  <2>2. ASSUME Moves, Checks PROVE Promised
    BY <1>1, <2>2, ChecksPromised
  <2>3. CASE Abort \/ UNCHANGED vars
    <3>1. MarksKept /\ LeftNow' = LeftNow /\ PhaseNow' = PhaseNow /\ TeamKept
      BY <2>3 DEF Abort, vars, MarksKept, LeftNow, PhaseNow, TeamKept
    <3> QED BY <1>1, <3>1, KeptShows DEF Promised
  <2>4. CASE LoopHead \/ Baseline
    BY <2>1, <2>4, LoopMoves
  <2>5. CASE Call
    BY <2>1, <2>5, CallMoves, EditsPromised DEF Call
  <2>6. CASE Answer
    BY <2>1, <2>6, AnswerPays
  <2>7. CASE Gate
    BY <2>1, <2>2, <2>7, GateMoves
  <2>8. CASE Review
    BY <2>1, <2>8, AnswerPays, TeamMoves, EditsPromised, ShipsPromised DEF Review
  <2>9. CASE End
    BY <2>9, EndPromised
  <2> QED BY <2>3, <2>4, <2>5, <2>6, <2>7, <2>8, <2>9 DEF Next, Progress
<1> QED BY <1>2, <1>3, PromisedSteps

LEMMA PromiseStarts == Init => Delivery!Init
<1> SUFFICES ASSUME Init PROVE Delivery!Init
  OBVIOUS
<1>1. opts.maxRoutes - mem.routes \in Nat
  <2>1. opts \in Options /\ mem.routes = 0
    BY DEF Init
  <2> QED BY <2>1, OptionFields
<1>2. work.passed = {} /\ work.approved = FALSE /\ run.pc = "head" /\ run.team = "no"
  BY DEF Init
<1> QED BY <1>1, <1>2 DEF Delivery!Init, Delivery!Marks, GatesDue

\* The workflow implements GatedDelivery, whatever its options: a scaffold, test or team call takes every
\* mark away, the gates and then the review give them, a rework costs one of the budget, and what is
\* committed or delivered bears every mark that is due; a team's work may lack the review's.
THEOREM GatedDeliveryImplemented == Spec => ImplementsGatedDelivery
<1> QED BY PromiseStarts, PromiseStep, PathInvariance, PTL DEF Spec, ImplementsGatedDelivery, Delivery!Spec

-----------------------------------------------------------------------------
(* What a step does to the place, the calls, the memory and the checkpoint *)
(* of a run: the restarts of SpecRecovery are about these.                 *)

\* A memory that differs in what was said, shown or called, not in place, reworks and violations.
Follows(m) ==
    /\ m \in Memories
    /\ m.cursor = mem.cursor /\ m.routes = mem.routes /\ m.violations = mem.violations /\ m.baseline = mem.baseline

SameCall == run'.resumes = run.resumes /\ run'.recovered = run.recovered /\ run'.answer = run.answer

\* A step leaves the loop, or starts a rework.
Leaves == run'.pc \in {"finish", "returned"} /\ mem'.routes = mem.routes /\ mem'.cursor = mem.cursor /\ SameCall
Reworks ==
    /\ run'.pc = "head" /\ run'.team = "no" /\ mem'.routes = mem.routes + 1 /\ SameCall
    /\ mem'.feedback \in Sources \ {"none"}
    /\ mem'.cursor \in {Index.clarifier, Index.planner} /\ mem'.cursor <= 6 /\ Step' \in RouteTargets \cap opts.steps
    /\ mem'.baseline = mem.baseline
Turns == Leaves \/ Reworks

\* It writes nothing, or what it counted, to the checkpoint.
Silent == ckpt' = ckpt /\ mem'.violations = mem.violations
Recorded(call) ==
    \E m \in Memories :
        /\ ckpt' = Published(m, call) /\ m.cursor = mem.cursor
        /\ m.violations = mem'.violations /\ mem.violations <= mem'.violations

\* A rework from the baseline is published with what it changed.
Rebaselines ==
    /\ Reworks /\ ckpt' = Published(mem', NoCall)
    /\ mem'.violations = mem.violations + 1 /\ mem.violations <= mem'.violations

LEMMA TurnShapes ==
  ASSUME run \in Controls, opts \in Options, NEW m, Follows(m)
  PROVE /\ \A v, f : Stop(m, v, f) => Leaves /\ mem'.violations = mem.violations
        /\ Throw(m) => Leaves /\ mem'.violations = mem.violations
        /\ \A c, v : \A target \in RouteTargets, source \in Sources \ {"none"} :
              RouteTo(m, target, source, c, v) => Turns /\ mem'.violations = mem.violations
        /\ \A b \in BOOLEAN : IntegrityIssue(m, b) => Turns /\ Recorded(NoCall)
        /\ IntegrityUnknown(m) => Leaves /\ Silent
        /\ BaselineIssue(m) => (Leaves /\ Recorded(NoCall)) \/ Rebaselines
<1> DEFINE counted == [m EXCEPT !.violations = @ + 1]
<1>1. ASSUME NEW n \in Memories, n.routes = mem.routes, n.cursor = mem.cursor, NEW v, NEW f, Stop(n, v, f)
      PROVE Leaves /\ mem' = n
  BY <1>1 DEF Stop, Leaves, SameCall, Controls
<1>2. ASSUME NEW n \in Memories, n.routes = mem.routes, n.cursor = mem.cursor, n.baseline = mem.baseline,
             NEW target \in RouteTargets, NEW source \in Sources \ {"none"}, NEW c, NEW v, RouteTo(n, target, source, c, v)
      PROVE Turns /\ mem'.violations = n.violations
  <2>1. CASE CanRoute(n, target)
    <3>1. Again(Routed(n, target, source), c) /\ target \in opts.steps
      BY <1>2, <2>1 DEF RouteTo, CanRoute
    <3>2. run'.pc = "head" /\ run'.team = "no" /\ SameCall /\ mem' = Routed(n, target, source)
      BY <3>1 DEF Again, SameCall, Controls
    <3>3. /\ mem'.routes = mem.routes + 1 /\ mem'.feedback = source /\ mem'.violations = n.violations
          /\ mem'.cursor = Index[target] /\ mem'.baseline = mem.baseline
      BY <1>2, <3>2 DEF Routed, Memories
    <3>4. Step' = target /\ mem'.cursor <= 6 /\ mem'.cursor \in {Index.clarifier, Index.planner}
      BY <3>3 DEF Step, STEP_ORDER, Index, RouteTargets
    <3> HIDE DEF Step
    <3> QED BY <3>1, <3>2, <3>3, <3>4 DEF Turns, Reworks
  <2>2. CASE ~CanRoute(n, target)
    <3>1. Stop(n, v, TRUE)
      BY <1>2, <2>2 DEF RouteTo
    <3> QED BY <1>1, <1>2, <3>1 DEF Turns
  <2> QED BY <2>1, <2>2
<1>3. /\ m \in Memories /\ m.routes = mem.routes /\ m.violations = mem.violations /\ mem.violations \in Nat
      /\ m.cursor = mem.cursor /\ m.baseline = mem.baseline
  BY MemoryFields DEF Follows
<1>4. Throw(m) => Leaves /\ mem' = m
  BY <1>3 DEF Throw, Leaves, SameCall, Controls
<1>5. ASSUME NEW b \in BOOLEAN, IntegrityIssue(m, b) PROVE Turns /\ Recorded(NoCall)
  <2>1. /\ counted \in Memories /\ counted.routes = mem.routes /\ counted.violations = mem.violations + 1
        /\ counted.cursor = mem.cursor /\ counted.baseline = mem.baseline
    BY <1>3 DEF Memories
  <2>2. /\ ckpt' = Published(counted, NoCall)
        /\ RouteTo(counted, "planner", "role-boundary", run.verdict, "FAILED") \/ Stop(counted, "CANCELLED", TRUE)
    BY <1>5 DEF IntegrityIssue
  <2>3. "planner" \in RouteTargets /\ "role-boundary" \in Sources \ {"none"}
    BY StepsAre DEF RouteTargets, Sources
  <2> HIDE DEF counted
  <2>4. Turns /\ mem'.violations = counted.violations
    BY <1>1, <1>2, <2>1, <2>2, <2>3 DEF Turns
  <2> QED BY <1>3, <2>1, <2>2, <2>4 DEF Recorded
<1>6. IntegrityUnknown(m) => Leaves /\ Silent
  BY <1>1, <1>3 DEF IntegrityUnknown, Silent
<1>7. ASSUME BaselineIssue(m) PROVE (Leaves /\ Recorded(NoCall)) \/ Rebaselines
  <2>1. /\ counted \in Memories /\ counted.routes = mem.routes /\ counted.violations = mem.violations + 1
        /\ counted.cursor = mem.cursor /\ counted.baseline = mem.baseline
    BY <1>3 DEF Memories
  <2>2. /\ ckpt' = Published(mem', NoCall)
        /\ RouteTo(counted, "planner", "role-boundary", run.verdict, "FAILED")
    BY <1>7 DEF BaselineIssue
  <2>3. "planner" \in RouteTargets /\ "role-boundary" \in Sources \ {"none"}
    BY StepsAre DEF RouteTargets, Sources
  <2> HIDE DEF counted
  <2>4. Turns /\ mem'.violations = counted.violations
    BY <1>2, <2>1, <2>2, <2>3
  <2>5. CASE Reworks
    BY <1>3, <2>1, <2>2, <2>4, <2>5 DEF Rebaselines
  <2>6. CASE ~CanRoute(counted, "planner")
    <3>1. Leaves /\ mem' = counted
      BY <1>1, <2>1, <2>2, <2>6 DEF RouteTo
    <3> QED BY <1>3, <2>1, <2>2, <3>1 DEF Recorded
  <2>7. CASE CanRoute(counted, "planner")
    <3>1. run'.pc = "head"
      BY <2>2, <2>7 DEF RouteTo, Again, Controls
    <3> QED BY <2>4, <2>5, <3>1 DEF Turns, Leaves
  <2> QED BY <2>6, <2>7
<1> QED BY <1>1, <1>2, <1>3, <1>4, <1>5, <1>6, <1>7

\* What a gate that is left behind has shown, or why it is passed by.
Marked(g) ==
    CASE g = "start" -> \/ run.pc = "answered" /\ Step = "test" /\ "repro" \notin opts.gates
                        \/ run.pc = "reproducing" /\ "repro" \in work'.passed
      [] g = "verify" -> (run.pc = "verify" /\ GatesPassedBy) \/ (run.pc = "verifying" /\ "verify" \in work'.passed)
      [] g = "runtime" -> (run.pc = "runtime" /\ GatesPassedBy) \/ (run.pc = "probing" /\ "runtime" \in work'.passed)

\* A gate that is passed, or that is not declared, leads to the next one, the reviews or the next step.
Passes ==
    /\ run'.pc \in {"verify", "runtime", "reviews", "head"} /\ run'.team = run.team /\ SameCall
    /\ run'.pc = "head" => run.team = "no"
    /\ run'.pc = "reviews" => run.team # "no"
    /\ mem'.routes = mem.routes /\ mem'.violations = mem.violations
    /\ mem'.cursor = IF run'.pc = "head" THEN mem.cursor + 1 ELSE mem.cursor
    /\ \E g \in {"start", "verify", "runtime"} :
         Marked(g) /\ GateAfter(g) = IF run'.pc \in {"head", "reviews"} THEN "end" ELSE run'.pc

LEMMA PassShapes ==
  ASSUME run \in Controls, NEW m, Follows(m), NEW g \in {"start", "verify", "runtime"}, PassGate(m, g), Marked(g)
  PROVE Passes
<1>1. GateAfter(g) \in {"verify", "runtime", "end"}
  BY DEF GateAfter
<1>2. m.cursor \in 1..7 /\ m.routes = mem.routes /\ m.violations = mem.violations /\ m.cursor = mem.cursor
  BY MemoryFields DEF Follows
<1> HIDE DEF Marked, GateAfter
<1>3. CASE GateAfter(g) # "end"
  BY <1>1, <1>2, <1>3 DEF PassGate, Goto, Passes, SameCall, Controls
<1>4. CASE GateAfter(g) = "end" /\ run.team = "no"
  <2>1. Again([m EXCEPT !.cursor = @ + 1], run.verdict)
    BY <1>4 DEF PassGate
  <2>2. mem'.routes = m.routes /\ mem'.violations = m.violations /\ mem'.cursor = m.cursor + 1
    BY <2>1 DEF Again, Follows, Memories
  <2> QED BY <1>2, <1>4, <2>1, <2>2 DEF Again, Passes, SameCall, Controls
<1>5. CASE GateAfter(g) = "end" /\ run.team # "no"
  BY <1>2, <1>5 DEF PassGate, Goto, Passes, SameCall, Controls
<1> QED BY <1>3, <1>4, <1>5

\* The head of the loop: it is left, skips a step that is not enabled, or enters one that is.
Skips == Step \notin opts.steps /\ run'.pc = "head" /\ run'.team = "no" /\ mem' = [mem EXCEPT !.cursor = @ + 1]
Enters == Step \in opts.steps /\ run'.pc = "step" /\ run'.team = run.team /\ mem' = mem

LEMMA HeadShapes ==
  ASSUME run \in Controls, opts \in Options, mem \in Memories, LoopHead
  PROVE /\ run.pc = "head" /\ SameCall /\ Silent /\ mem'.routes = mem.routes /\ child' = child /\ work' = work
        /\ Leaves \/ Skips \/ Enters
<1>1. Follows(mem)
  BY DEF Follows
<1>2. CASE CancelAtHead
  BY <1>1, <1>2, TurnShapes DEF CancelAtHead, At, Leaves, Silent
<1>3. CASE SkipStep
  BY <1>3 DEF SkipStep, At, Again, Skips, Silent, SameCall, Memories, Controls
<1>4. CASE EnterStep
  BY <1>4 DEF EnterStep, At, Goto, Enters, Silent, SameCall, Controls
<1>5. CASE LeaveLoop
  BY <1>5 DEF LeaveLoop, At, Goto, Leaves, Silent, SameCall, Controls
<1> QED BY <1>2, <1>3, <1>4, <1>5 DEF LoopHead

\* The baseline: taken at a step that needs one, and looked at after its command.
Captures ==
    /\ run.pc = "step" /\ BaselineMissing /\ mem' = [mem EXCEPT !.baseline = TRUE] /\ SameCall /\ run'.team = run.team
    /\ \/ run'.pc = "step" /\ ckpt' = Published(mem', NoCall)
       \/ run'.pc = "baselining" /\ ckpt' = Published(mem', Intent("verify", "verify-baseline"))
Baselined ==
    /\ run.pc = "baselining" /\ mem' = [mem EXCEPT !.results = @ \cup {"verify-baseline"}] /\ SameCall /\ run'.team = run.team
    /\ run'.pc = "step" /\ ckpt' = Published(mem', NoCall)
Held == Turns /\ (Recorded(NoCall) \/ Silent)

LEMMA BaselineShapes ==
  ASSUME run \in Controls, opts \in Options, mem \in Memories, Baseline
  PROVE \/ Captures \/ Baselined \/ (run.pc = "baselining" /\ Rebaselines)
        \/ (Held /\ (run.pc = "baselining" \/ (run.pc = "step" /\ BaselineMissing /\ Leaves /\ Silent)))
<1>1. CASE CaptureFails
  BY <1>1, TurnShapes DEF CaptureFails, At, Follows, Held, Turns, Silent
<1>2. CASE CaptureBaseline
  BY <1>2 DEF CaptureBaseline, At, Goto, Captures, SameCall, Controls
<1>3. CASE BaselineEnds
  <2> DEFINE m == [mem EXCEPT !.results = @ \cup {"verify-baseline"}]
  <2>1. Follows(m)
    <3>1. mem.results \cup {"verify-baseline"} \in ResultSets
      BY MemoryFields DEF ResultSets
    <3> QED BY <3>1 DEF Follows, Memories
  <2>2. \/ Stop(m, "CANCELLED", FALSE) /\ ckpt' = ckpt
        \/ Throw(m) /\ ckpt' = ckpt
        \/ BaselineIssue(m)
        \/ Stop(m, "BLOCKED", TRUE) /\ ckpt' = ckpt
        \/ Goto(m, "step") /\ ckpt' = Published(m, NoCall)
    BY <1>3 DEF BaselineEnds
  <2>3. run.pc = "baselining"
    BY <1>3 DEF BaselineEnds, At
  <2>4. CASE Goto(m, "step") /\ ckpt' = Published(m, NoCall)
    BY <2>3, <2>4 DEF Goto, Baselined, SameCall, Controls
  <2> HIDE DEF m
  <2>6. CASE BaselineIssue(m)
    BY <2>1, <2>3, <2>6, TurnShapes DEF Held, Turns
  <2> QED BY <2>1, <2>2, <2>3, <2>4, <2>6, TurnShapes DEF Held, Turns, Silent
<1> QED BY <1>1, <1>2, <1>3 DEF Baseline

\* A step's call: skipped, held back, answered by what a former process left, made, started and ended.
SkipsPlan ==
    CicdUnplanned /\ run'.pc = "head" /\ run'.team = "no" /\ mem' = [mem EXCEPT !.cursor = @ + 1] /\ SameCall /\ Silent
Replays ==
    /\ run'.pc = "answered" /\ run'.team = run.team /\ ckpt' = ckpt /\ Resumed /\ run.recovered # NoAnswer
    /\ run'.resumes = "none" /\ run'.recovered = NoAnswer /\ run'.answer = run.recovered
Announces ==
    /\ run'.pc = "calling" /\ run'.team = run.team /\ ~CicdUnplanned /\ (Step = "review" => ~work.tampered) /\ ~(Resumed /\ run.recovered # NoAnswer)
    /\ run'.resumes = (IF Resumed THEN "none" ELSE run.resumes) /\ run'.recovered = run.recovered /\ run'.answer = NoAnswer
    /\ ckpt' = Published(mem', [Intent("agent", Step) EXCEPT !.input = InputFor(Counted, Step)])
SameCount == mem'.cursor = mem.cursor /\ mem'.routes = mem.routes /\ mem'.violations = mem.violations
             /\ mem'.feedback = mem.feedback /\ mem'.baseline = mem.baseline /\ mem'.plan = mem.plan

LEMMA ReadyShapes ==
  ASSUME run \in Controls, opts \in Options, mem \in Memories, SkipCicd \/ ReviewHeld \/ SnapshotFails \/ StartStep
  PROVE /\ run.pc = "step" /\ ~BaselineMissing /\ child' = child /\ work' = work
        /\ \/ SkipsPlan
           \/ Step = "review" /\ work.tampered /\ Turns /\ Recorded(NoCall)
           \/ Leaves /\ Silent
           \/ SameCount /\ (Replays \/ Announces)
<1>1. Follows(mem) /\ Follows(Counted)
  BY MemoryFields DEF Follows, Counted, Memories
<1>2. CASE SkipCicd
  BY <1>2 DEF SkipCicd, StepReady, At, Again, SkipsPlan, SameCall, Silent, Memories, Controls
<1>3. CASE ReviewHeld
  <2>1. IntegrityUnknown(mem) \/ (work.tampered /\ IntegrityIssue(mem, TRUE))
    BY <1>3 DEF ReviewHeld
  <2>2. run.pc = "step" /\ ~BaselineMissing /\ Step = "review" /\ TRUE \in BOOLEAN /\ child' = child /\ work' = work
    BY <1>3 DEF ReviewHeld, StepReady, At
  <2> QED BY <1>1, <2>1, <2>2, TurnShapes
<1>4. CASE SnapshotFails
  <2>1. run.pc = "step" /\ ~BaselineMissing /\ Stop(Counted, "BLOCKED", TRUE) /\ ckpt' = ckpt /\ child' = child /\ work' = work
    BY <1>4 DEF SnapshotFails, StepAllowed, StepReady, At
  <2> QED BY <1>1, <2>1, TurnShapes DEF Silent
<1>5. CASE StartStep
  <2> DEFINE m == [Counted EXCEPT !.instructed = @ \/ opts.instruction]
  <2>1. /\ run.pc = "step" /\ ~BaselineMissing /\ ~CicdUnplanned /\ child' = child /\ work' = work
        /\ Step = "review" => ~work.tampered
    BY <1>5 DEF StartStep, StepAllowed, StepReady, At
  <2>2. /\ m.cursor = mem.cursor /\ m.routes = mem.routes /\ m.violations = mem.violations
        /\ m.feedback = mem.feedback /\ m.baseline = mem.baseline /\ m.plan = mem.plan
    BY DEF Counted, Memories
  <2>3. CASE Stop(Counted, run.verdict, run.failure) /\ ckpt' = ckpt
    BY <1>1, <2>1, <2>3, TurnShapes DEF Silent
  <2>4. CASE /\ Resumed /\ run.recovered # NoAnswer /\ ckpt' = ckpt /\ mem' = m
             /\ run' = [run EXCEPT !.pc = "answered", !.resumes = "none", !.before = "late",
                                   !.answer = run.recovered, !.recovered = NoAnswer]
    <3>1. Replays
      BY <2>4 DEF Replays, Controls
    <3> QED BY <2>1, <2>2, <2>4, <3>1 DEF SameCount
  <2>5. CASE /\ ~(Resumed /\ run.recovered # NoAnswer) /\ mem' = m
             /\ run' = [run EXCEPT !.pc = "calling", !.answer = NoAnswer, !.before = "own",
                                   !.resumes = IF Resumed THEN "none" ELSE @]
             /\ ckpt' = Published(m, [Intent("agent", Step) EXCEPT !.input = InputFor(Counted, Step)])
    <3>1. Announces
      BY <2>1, <2>5 DEF Announces, Controls
    <3> QED BY <2>1, <2>2, <2>5, <3>1 DEF SameCount
  <2>6. m.executed \in Nat /\ Cap \in Nat
    BY OptionFields, MemoryFields DEF Cap, Counted, Memories
  <2>7. m.executed > Cap \/ m.executed <= Cap
    BY <2>6
  <2> QED BY <1>5, <2>3, <2>4, <2>5, <2>7 DEF StartStep
<1> QED BY <1>2, <1>3, <1>4, <1>5

LEMMA CallShapes ==
  ASSUME run \in Controls, child \in Answers, CallStarts \/ CallEnds
  PROVE /\ mem' = mem /\ run'.resumes = run.resumes /\ run'.team = run.team
        /\ \/ /\ run.pc = "calling" /\ run'.pc \in {"working", "answered"}
              /\ ckpt' = Published(mem, [ckpt.call EXCEPT !.started = TRUE, !.before = FALSE])
              /\ child'.step = Step /\ child'.out = "none"
              /\ child'.status = IF run'.pc = "working" THEN "RUNNING" ELSE "BLOCKED"
              /\ run'.pc = "answered" => run'.answer = child'
              /\ run.recovered = NoAnswer => run'.recovered = NoAnswer
           \/ /\ run.pc = "working" /\ run'.pc \in {"answered", "returned"} /\ ckpt' = ckpt
              /\ child'.step = child.step /\ child'.status \in {"DONE", "FAILED", "CANCELLED"}
              /\ child'.out \in Outputs(Step) \cup {"none"}
              /\ run'.pc = "answered" => run'.answer = child'
              /\ run'.pc = "returned" => child'.status = "FAILED"
              /\ run'.recovered = run.recovered
<1>1. CASE CallStarts
  <2>1. PICK status \in {"RUNNING", "BLOCKED"} :
         LET started == [NoChild EXCEPT !.step = Step, !.status = status, !.current = TRUE] IN
         /\ child' = started
         /\ run' = [run EXCEPT !.pc = IF status = "RUNNING" THEN "working" ELSE "answered",
                               !.answer = IF status = "RUNNING" THEN NoAnswer ELSE started,
                               !.recovered.current = IF Step \in {"scaffold", "test"} THEN FALSE ELSE @]
    BY <1>1 DEF CallStarts
  <2>2. child'.step = Step /\ child'.out = "none" /\ child'.status = status
    BY <2>1 DEF NoChild, NoAnswer
  <2>3. /\ run'.pc = (IF status = "RUNNING" THEN "working" ELSE "answered") /\ run'.resumes = run.resumes /\ run'.team = run.team
        /\ status # "RUNNING" => run'.answer = child'
    BY <2>1 DEF Controls
  <2>5. run.recovered = NoAnswer => run'.recovered = NoAnswer
    <3> DEFINE kept == IF Step \in {"scaffold", "test"} THEN FALSE ELSE run.recovered.current
    <3>1. run'.recovered = [run.recovered EXCEPT !.current = kept]
      BY <2>1 DEF Controls
    <3>2. run.recovered = NoAnswer => kept = FALSE
      BY DEF NoAnswer
    <3> HIDE DEF kept
    <3>3. [NoAnswer EXCEPT !.current = FALSE] = NoAnswer
      <4>1. NoAnswer \in Answers /\ NoAnswer.current = FALSE
        BY DEF NoAnswer, Answers, AllOutputs
      <4>2. ASSUME NEW c \in Answers PROVE [c EXCEPT !.current = c.current] = c
        BY DEF Answers
      <4> HIDE DEF NoAnswer
      <4> QED BY <4>1, <4>2
    <3>4. ASSUME run.recovered = NoAnswer PROVE run'.recovered = [NoAnswer EXCEPT !.current = FALSE]
      BY <3>1, <3>2, <3>4
    <3> QED BY <3>3, <3>4
  <2>4. run.pc = "calling" /\ mem' = mem /\ ckpt' = Published(mem, [ckpt.call EXCEPT !.started = TRUE, !.before = FALSE])
    BY <1>1 DEF CallStarts, At
  <2> QED BY <2>2, <2>3, <2>4, <2>5
<1>2. CASE CallEnds
  <2>1. PICK status \in IF aborted THEN {"CANCELLED"} ELSE {"DONE", "FAILED"},
             out \in Outputs(Step) \cup {"none"}, changed, tampered, stray, throws \in BOOLEAN :
           CallResult(status, out, changed, tampered, stray, throws)
    BY <1>2 DEF CallEnds
  <2>2. child'.step = child.step /\ child'.status = status /\ child'.out = out
    BY <2>1 DEF CallResult, Answers
  <2>3. /\ run' = IF throws THEN [run EXCEPT !.pc = "returned", !.verdict = "FAILED", !.failure = TRUE]
                            ELSE [run EXCEPT !.pc = "answered", !.answer = child']
        /\ throws => status = "FAILED"
    BY <2>1 DEF CallResult
  <2>4. run.pc = "working" /\ mem' = mem /\ ckpt' = ckpt
    BY <1>2 DEF CallEnds, At
  <2>5. /\ run'.pc \in {"answered", "returned"} /\ run'.resumes = run.resumes /\ run'.recovered = run.recovered
        /\ run'.team = run.team
        /\ run'.pc = "answered" => run'.answer = child'
        /\ run'.pc = "returned" => throws
    BY <2>3 DEF Controls
  <2> QED BY <2>1, <2>2, <2>3, <2>4, <2>5
<1> QED BY <1>1, <1>2

\* What an answer leads to: a rework or the end, the next step, a gate, the reproduction or the team.
Onwards ==
    /\ run'.pc = "head" /\ mem'.routes = mem.routes /\ SameCall /\ Silent /\ run'.team = "no"
    /\ \/ mem'.cursor = mem.cursor
       \/ mem'.cursor = mem.cursor + 1 /\ Step # "test" /\ (Step = "review" => ReviewShips)
Reproduces ==
    /\ run'.pc = "reproducing" /\ run'.team = run.team /\ ckpt' = Published(mem', Intent("verify", "repro")) /\ SameCall
    /\ mem'.routes = mem.routes /\ mem'.violations = mem.violations /\ mem'.cursor = mem.cursor /\ Step = "test"
TeamsUp ==
    /\ run'.pc = "team" /\ run'.team = "ok" /\ ckpt' = Published(mem', Intent("team", "team")) /\ SameCall
    /\ mem'.routes = mem.routes /\ mem'.violations = mem.violations /\ mem'.cursor = mem.cursor /\ Step = "planner"

LEMMA AnswerShapes ==
  ASSUME LoopHeld, opts \in Options, Answer \/ TestAnswered \/ ReviewShips \/ ReviewRefuses \/ TeamStarts
  PROVE /\ run.pc = "answered" /\ child' = child
        /\ \/ Leaves /\ (Silent \/ Recorded(NoCall))
           \/ Reworks /\ Recorded(NoCall)
           \/ run.answer.status = "DONE" /\ run.answer.out \in RouteTargets /\ Turns /\ Silent
           \/ run.answer.status = "DONE" /\ run.answer.out \notin RouteTargets /\ Onwards
           \/ run.answer.status = "DONE" /\ run.answer.out = "pass" /\ Passes /\ Silent
           \/ run.answer.status = "DONE" /\ Reproduces
           \/ run.answer.status = "DONE" /\ run.answer.out = "team" /\ TeamsUp
<1>1. run.pc = "answered" /\ child' = child
  BY DEF Answer, AnswerHeld, AnswerStopped, AnswerStrays, ClarifierReady, ClarifierAsks, AnswerInvalid, PlannerPlans,
         WriterDone, AnswerBlocked, TestAnswered, ReviewShips, ReviewRefuses, TeamStarts, Answered, Checked, At
<1>2. run \in Controls /\ mem \in Memories
  BY DEF LoopHeld, Sound
<1>3. /\ Consumed \in Memories /\ Consumed.cursor = mem.cursor /\ Consumed.routes = mem.routes
      /\ Consumed.violations = mem.violations /\ Consumed.baseline = mem.baseline
  <2>1. Sound(Consumed) /\ Consumed.cursor = mem.cursor /\ Consumed.routes = mem.routes
    BY <1>1, ConsumedTyped
  <2>2. Consumed.violations = mem.violations /\ Consumed.baseline = mem.baseline
    BY <1>2 DEF Consumed, Memories
  <2> QED BY <2>1, <2>2 DEF Sound
<1>4. Follows(Consumed)
  BY <1>3 DEF Follows
<1> HIDE DEF Consumed
<1>5. ASSUME NEW v, NEW f, Stop(Consumed, v, f), ckpt' = ckpt PROVE Leaves /\ Silent
  BY <1>2, <1>4, <1>5, TurnShapes DEF Silent
<1>6. ASSUME NEW n, n.routes = mem.routes, n.violations = mem.violations, NEW v, Again(n, v), ckpt' = ckpt,
             \/ n.cursor = mem.cursor
             \/ n.cursor = mem.cursor + 1 /\ Step # "test" /\ (Step = "review" => ReviewShips)
      PROVE Onwards
  BY <1>2, <1>6 DEF Again, Onwards, SameCall, Silent, Controls
<1>7. ASSUME NEW n, NEW v, n = [Consumed EXCEPT !.cursor = @ + 1], Again(n, v), ckpt' = ckpt,
             Step # "test" /\ (Step = "review" => ReviewShips)
      PROVE Onwards
  <2>1. n.routes = mem.routes /\ n.violations = mem.violations /\ n.cursor = mem.cursor + 1
    BY <1>3, <1>7 DEF Memories
  <2> QED BY <1>6, <1>7, <2>1
<1>8. CASE AnswerHeld
  <2>1. PICK b \in BOOLEAN : IntegrityUnknown(Consumed) \/ IntegrityIssue(Consumed, b)
    BY <1>8 DEF AnswerHeld
  <2> QED BY <1>1, <1>2, <1>4, <2>1, TurnShapes DEF Turns
<1>9. CASE AnswerStopped
  BY <1>1, <1>5, <1>9 DEF AnswerStopped
<1>10. CASE AnswerStrays
  BY <1>1, <1>5, <1>10 DEF AnswerStrays
<1>11. CASE ClarifierReady
  BY <1>1, <1>7, <1>11 DEF ClarifierReady, Answered, RouteTargets
<1>12. CASE ClarifierAsks
  <2>1. CASE Again([Consumed EXCEPT !.rounds = @ + 1], run.verdict)
    <3>1. ckpt' = ckpt
      BY <1>12 DEF ClarifierAsks
    <3>2. /\ [Consumed EXCEPT !.rounds = @ + 1].routes = mem.routes /\ [Consumed EXCEPT !.rounds = @ + 1].violations = mem.violations
          /\ [Consumed EXCEPT !.rounds = @ + 1].cursor = mem.cursor
      BY <1>3 DEF Memories
    <3>3. run.answer.status = "DONE" /\ run.answer.out \notin RouteTargets
      BY <1>12 DEF ClarifierAsks, Answered, RouteTargets
    <3> QED BY <1>1, <1>6, <2>1, <3>1, <3>2, <3>3
  <2>2. CASE Stop(Consumed, "NEEDS-CLARIFICATION", FALSE)
    BY <1>1, <1>5, <1>12, <2>2 DEF ClarifierAsks
  <2> QED BY <1>12, <2>1, <2>2 DEF ClarifierAsks
<1>13. CASE AnswerInvalid
  BY <1>1, <1>5, <1>13 DEF AnswerInvalid
<1>14. CASE PlannerPlans
  <2> DEFINE n == [Consumed EXCEPT !.cursor = @ + 1, !.plan = run.answer.out]
  <2>1. n.routes = mem.routes /\ n.violations = mem.violations /\ n.cursor = mem.cursor + 1
    BY <1>3 DEF Memories
  <2>2. Again(n, run.verdict) /\ ckpt' = ckpt /\ Step = "planner"
    BY <1>14 DEF PlannerPlans, Answered
  <2>3. run.answer.status = "DONE" /\ run.answer.out \notin RouteTargets
    BY <1>14 DEF PlannerPlans, Answered, RouteTargets
  <2> HIDE DEF n
  <2> QED BY <1>1, <1>6, <2>1, <2>2, <2>3
<1>15. CASE WriterDone
  BY <1>1, <1>7, <1>15 DEF WriterDone, Answered, RouteTargets
<1>16. CASE AnswerBlocked
  BY <1>1, <1>5, <1>16 DEF AnswerBlocked
<1>17. CASE TestAnswered
  <2>1. run.answer.status = "DONE" /\ run.answer.out \in {"pass"} \cup RouteTargets /\ Step = "test"
    BY <1>17 DEF TestAnswered, Answered
  <2>2. CASE "repro" \in opts.gates
    <3>1. Goto(Consumed, "reproducing") /\ ckpt' = Published(Consumed, Intent("verify", "repro"))
      BY <1>17, <2>2 DEF TestAnswered
    <3>2. Reproduces
      BY <1>2, <1>3, <2>1, <3>1 DEF Goto, Reproduces, SameCall, Controls
    <3> QED BY <1>1, <2>1, <3>2
  <2>3. CASE "repro" \notin opts.gates
    <3>1. \/ run.answer.out = "pass" /\ PassGate(Consumed, "start") /\ ckpt' = ckpt
          \/ run.answer.out \in RouteTargets /\ RouteTo(Consumed, run.answer.out, "test", run.verdict, "FAILED") /\ ckpt' = ckpt
      BY <1>17, <2>1, <2>3 DEF TestAnswered
    <3>2. "test" \in Sources \ {"none"}
      BY StepsAre DEF Sources
    <3>3. CASE run.answer.out = "pass" /\ PassGate(Consumed, "start") /\ ckpt' = ckpt
      <4>1. Marked("start")
        BY <1>1, <2>1, <2>3 DEF Marked
      <4>2. Passes
        BY <1>2, <1>4, <3>3, <4>1, PassShapes
      <4> QED BY <1>1, <2>1, <3>3, <4>2 DEF Passes, Silent
    <3>4. CASE run.answer.out \in RouteTargets /\ RouteTo(Consumed, run.answer.out, "test", run.verdict, "FAILED") /\ ckpt' = ckpt
      <4>1. Turns /\ mem'.violations = mem.violations
        BY <1>2, <1>4, <3>2, <3>4, TurnShapes
      <4> QED BY <1>1, <2>1, <3>4, <4>1 DEF Silent
    <3> QED BY <3>1, <3>3, <3>4
  <2> QED BY <2>2, <2>3
<1>18. CASE ReviewShips
  BY <1>1, <1>7, <1>18 DEF ReviewShips, Answered, RouteTargets
<1>19. CASE ReviewRefuses
  <2>1. /\ run.answer.status = "DONE" /\ run.answer.out \in RouteTargets /\ ckpt' = ckpt
        /\ RouteTo(Consumed, run.answer.out, "review", "NEEDS-WORK", "NEEDS-WORK")
    BY <1>19 DEF ReviewRefuses, Answered
  <2>2. "review" \in Sources \ {"none"}
    BY StepsAre DEF Sources
  <2>3. Turns /\ mem'.violations = mem.violations
    BY <1>2, <1>4, <2>1, <2>2, TurnShapes
  <2> QED BY <1>1, <2>1, <2>3 DEF Silent
<1>20. CASE TeamStarts
  <2> DEFINE m == [Consumed EXCEPT !.plan = "team"]
  <2>1. m.routes = mem.routes /\ m.violations = mem.violations /\ m.cursor = mem.cursor
    BY <1>3 DEF Memories
  <2>2. /\ mem' = m /\ run' = [run EXCEPT !.pc = "team", !.team = "ok"] /\ ckpt' = Published(m, Intent("team", "team"))
        /\ run.answer.status = "DONE" /\ run.answer.out = "team" /\ Step = "planner"
    BY <1>20 DEF TeamStarts, Answered
  <2> HIDE DEF m
  <2>3. TeamsUp
    BY <1>2, <2>1, <2>2 DEF TeamsUp, SameCall, Controls
  <2> QED BY <1>1, <2>2, <2>3
<1> QED BY <1>8, <1>9, <1>10, <1>11, <1>12, <1>13, <1>14, <1>15, <1>16, <1>17, <1>18, <1>19, <1>20 DEF Answer

\* What a command, a gate or a team leads to.
GateOpens ==
    /\ run.pc \in {"verify", "runtime"} /\ run'.pc = (IF run.pc = "verify" THEN "verifying" ELSE "probing")
    /\ run'.team = run.team /\ mem' = mem /\ SameCall
    /\ \E g \in {"verify", "runtime"} : ckpt' = Published(mem', Intent(g, g))

LEMMA GateShapes ==
  ASSUME LoopHeld, Surroundings, ReproEnds \/ GateSkipped \/ GateHeld \/ GateStarts \/ VerifyEnds \/ RuntimeEnds
  PROVE /\ run.pc \in {"reproducing", "verify", "verifying", "runtime", "probing"} /\ child' = child
        /\ \/ Leaves /\ (Silent \/ Recorded(NoCall))
           \/ Reworks /\ (Recorded(NoCall) \/ (run.pc \notin {"verify", "runtime"} /\ Silent))
           \/ Passes /\ Silent /\ (run.pc = "reproducing" => run.answer.out = "pass")
           \/ GateOpens
<1>1. run.pc \in {"reproducing", "verify", "verifying", "runtime", "probing"} /\ child' = child
  BY DEF ReproEnds, GateSkipped, GateHeld, GateStarts, VerifyEnds, RuntimeEnds, At
<1>2. run \in Controls /\ mem \in Memories /\ opts \in Options /\ work \in Workspaces
  BY DEF LoopHeld, Sound, Surroundings
<1>3. {"repro", "test", "verify"} \subseteq Sources \ {"none"} /\ "planner" \in RouteTargets
  BY StepsAre DEF Sources, RouteTargets
<1>4. ASSUME NEW m, Follows(m), ckpt' = ckpt,
             \/ Throw(m)
             \/ \E v, f : Stop(m, v, f)
             \/ \E c, v : \E target \in RouteTargets, source \in Sources \ {"none"} : RouteTo(m, target, source, c, v)
      PROVE Turns /\ Silent
  BY <1>2, <1>4, TurnShapes DEF Turns, Silent
<1>5. ASSUME NEW m, Follows(m), IntegrityUnknown(m) \/ \E b \in BOOLEAN : IntegrityIssue(m, b)
      PROVE (Leaves /\ Silent) \/ (Turns /\ Recorded(NoCall))
  BY <1>2, <1>5, TurnShapes
<1>6. ASSUME NEW m, Follows(m), NEW g \in {"start", "verify", "runtime"}, PassGate(m, g), Marked(g), ckpt' = ckpt
      PROVE Passes /\ Silent
  BY <1>2, <1>6, PassShapes DEF Passes, Silent
<1>7. Follows(mem) /\ \A r \in {"repro", "verify"} : Follows([mem EXCEPT !.results = @ \cup {r}])
  <2>1. \A r \in {"repro", "verify"} : mem.results \cup {r} \in ResultSets
    BY <1>2, MemoryFields DEF ResultSets
  <2> QED BY <1>2, <2>1 DEF Follows, Memories
<1>8. \A m, g : Follows(m) /\ g \in {"verify", "runtime"} => Follows([m EXCEPT !.evidence = Shown(m, g)])
  <2> SUFFICES ASSUME NEW m, NEW g, Follows(m), g \in {"verify", "runtime"} PROVE Follows([m EXCEPT !.evidence = Shown(m, g)])
    OBVIOUS
  <2>1. m \in Memories /\ m.evidence \in EvidenceSets /\ m.routes \in Nat
    BY MemoryFields DEF Follows
  <2>2. Shown(m, g) \in EvidenceSets
    BY <2>1 DEF Shown, EvidenceSets
  <2> QED BY <2>1, <2>2 DEF Follows, Memories
<1>9. CASE ReproEnds
  <2> DEFINE m == [mem EXCEPT !.results = @ \cup {"repro"}]
  <2>1. run.pc = "reproducing" /\ ckpt' = ckpt /\ Follows(m)
    BY <1>7, <1>9 DEF ReproEnds, At
  <2>2. \/ Throw(m)
        \/ Stop(m, "CANCELLED", FALSE)
        \/ RouteTo(m, "planner", "repro", run.verdict, "FAILED")
        \/ /\ run.answer.out = "pass" /\ PassGate(m, "start")
           /\ \E t : work' = [[work EXCEPT !.tampered = t, !.changed = @ \/ t] EXCEPT !.passed = @ \cup {"repro"}]
        \/ run.answer.out # "pass" /\ RouteTo(m, run.answer.out, "test", run.verdict, "FAILED")
    BY <1>9 DEF ReproEnds
  <2>3. run.answer.out # "pass" => run.answer.out \in RouteTargets
    BY <2>1 DEF LoopHeld, AnswersHeld, Judged
  <2> HIDE DEF m
  <2>4. CASE /\ run.answer.out = "pass" /\ PassGate(m, "start")
             /\ \E t : work' = [[work EXCEPT !.tampered = t, !.changed = @ \/ t] EXCEPT !.passed = @ \cup {"repro"}]
    <3>1. Marked("start")
      BY <1>2, <2>1, <2>4 DEF Marked, Workspaces
    <3> QED BY <1>1, <1>6, <2>1, <2>4, <3>1
  <2>5. CASE \/ Throw(m)
             \/ Stop(m, "CANCELLED", FALSE)
             \/ RouteTo(m, "planner", "repro", run.verdict, "FAILED")
             \/ run.answer.out # "pass" /\ RouteTo(m, run.answer.out, "test", run.verdict, "FAILED")
    BY <1>1, <1>3, <1>4, <2>1, <2>3, <2>5 DEF Turns
  <2> QED BY <2>2, <2>4, <2>5
<1>10. CASE GateSkipped
  <2>1. PICK g \in {"verify", "runtime"} : At(g) /\ GatesPassedBy /\ PassGate(mem, g)
    BY <1>10 DEF GateSkipped
  <2>2. ckpt' = ckpt /\ run.pc # "reproducing" /\ Marked(g)
    BY <1>10, <2>1 DEF GateSkipped, At, Marked
  <2> QED BY <1>1, <1>6, <1>7, <2>1, <2>2
<1>11. CASE GateHeld
  <2>1. IntegrityUnknown(mem) \/ IntegrityIssue(mem, TRUE)
    BY <1>11 DEF GateHeld
  <2> QED BY <1>1, <1>5, <1>7, <2>1 DEF Turns
<1>12. CASE GateStarts
  <2>1. PICK g \in {"verify", "runtime"} : /\ At(g) /\ Goto(mem, IF g = "verify" THEN "verifying" ELSE "probing")
                                            /\ ckpt' = Published(mem, Intent(g, g))
    BY <1>12 DEF GateStarts
  <2>2. GateOpens
    BY <1>2, <2>1 DEF At, Goto, GateOpens, SameCall, Controls
  <2> QED BY <1>1, <2>2
<1>13. CASE VerifyEnds
  <2> DEFINE m == [mem EXCEPT !.results = @ \cup {"verify"}]
             good == [m EXCEPT !.evidence = Shown(m, "verify")]
  <2>1. run.pc = "verifying" /\ Follows(m)
    BY <1>7, <1>13 DEF VerifyEnds, At
  <2>2. Follows(good)
    <3> HIDE DEF m
    <3> QED BY <1>8, <2>1
  <2>3. \/ IntegrityUnknown(m)
        \/ \E b \in BOOLEAN : IntegrityIssue(m, b)
        \/ Throw(m) /\ ckpt' = ckpt
        \/ Stop(m, "CANCELLED", FALSE) /\ ckpt' = ckpt
        \/ RouteTo(m, "planner", "verify", run.verdict, "FAILED") /\ ckpt' = ckpt
        \/ Stop(m, "FAILED", TRUE) /\ ckpt' = ckpt
        \/ IntegrityUnknown(good)
        \/ \E b \in BOOLEAN : IntegrityIssue(good, b)
        \/ /\ PassGate(good, "verify") /\ ckpt' = ckpt
           /\ \E t : work' = [[work EXCEPT !.tampered = t, !.changed = @ \/ t] EXCEPT !.passed = @ \cup {"verify"}]
    BY <1>13 DEF VerifyEnds
  <2> HIDE DEF m, good
  <2>4. CASE /\ PassGate(good, "verify") /\ ckpt' = ckpt
             /\ \E t : work' = [[work EXCEPT !.tampered = t, !.changed = @ \/ t] EXCEPT !.passed = @ \cup {"verify"}]
    <3>1. Marked("verify")
      BY <1>2, <2>1, <2>4 DEF Marked, Workspaces
    <3> QED BY <1>1, <1>6, <2>1, <2>2, <2>4, <3>1
  <2>5. CASE \/ IntegrityUnknown(m)
             \/ \E b \in BOOLEAN : IntegrityIssue(m, b)
             \/ IntegrityUnknown(good)
             \/ \E b \in BOOLEAN : IntegrityIssue(good, b)
    BY <1>1, <1>5, <2>1, <2>2, <2>5 DEF Turns
  <2>6. CASE \/ Throw(m) /\ ckpt' = ckpt
             \/ Stop(m, "CANCELLED", FALSE) /\ ckpt' = ckpt
             \/ RouteTo(m, "planner", "verify", run.verdict, "FAILED") /\ ckpt' = ckpt
             \/ Stop(m, "FAILED", TRUE) /\ ckpt' = ckpt
    BY <1>1, <1>3, <1>4, <2>1, <2>6 DEF Turns
  <2> QED BY <2>3, <2>4, <2>5, <2>6
<1>14. CASE RuntimeEnds
  <2> DEFINE n == [mem EXCEPT !.results = @ \cup {"verify"}]
             m == [mem EXCEPT !.results = @ \cup {"verify"}, !.evidence = Shown(mem, "runtime")]
             strayed == [m EXCEPT !.violations = @ + 1]
  <2>1. run.pc = "probing" /\ Follows(n)
    BY <1>7, <1>14 DEF RuntimeEnds, At
  <2>2. m = [n EXCEPT !.evidence = Shown(n, "runtime")]
    BY <1>2 DEF Memories, Shown
  <2>3. Follows(m)
    <3> HIDE DEF m, n
    <3> QED BY <1>8, <2>1, <2>2
  <2>4. \/ Stop(strayed, "FAILED", TRUE) /\ ckpt' = Published(strayed, NoCall)
        \/ Throw(m) /\ ckpt' = ckpt
        \/ IntegrityUnknown(m)
        \/ \E b \in BOOLEAN : IntegrityIssue(m, b)
        \/ Stop(m, "CANCELLED", FALSE) /\ ckpt' = ckpt
        \/ Stop(m, "BLOCKED", TRUE) /\ ckpt' = ckpt
        \/ RouteTo(m, "planner", "verify", run.verdict, "FAILED") /\ ckpt' = ckpt
        \/ /\ PassGate(m, "runtime") /\ ckpt' = ckpt
           /\ \E t, c : work' = [[work EXCEPT !.tampered = t, !.changed = @ \/ t \/ c] EXCEPT !.passed = @ \cup {"runtime"}]
    BY <1>14, ZenonT(40) DEF RuntimeEnds
  <2> HIDE DEF m, n
  <2>5. CASE Stop(strayed, "FAILED", TRUE) /\ ckpt' = Published(strayed, NoCall)
    <3>1. mem.violations \in Nat
      BY <1>2, MemoryFields
    <3>2. /\ strayed \in Memories /\ strayed.routes = mem.routes /\ strayed.violations = mem.violations + 1
          /\ strayed.cursor = mem.cursor
      BY <2>3, <3>1 DEF Follows, Memories
    <3> HIDE DEF strayed
    <3>3. Leaves /\ mem' = strayed
      BY <1>2, <2>5, <3>2 DEF Stop, Leaves, SameCall, Controls
    <3>4. Recorded(NoCall)
      BY <2>5, <3>1, <3>2, <3>3 DEF Recorded
    <3> QED BY <1>1, <3>3, <3>4
  <2>6. CASE /\ PassGate(m, "runtime") /\ ckpt' = ckpt
             /\ \E t, c : work' = [[work EXCEPT !.tampered = t, !.changed = @ \/ t \/ c] EXCEPT !.passed = @ \cup {"runtime"}]
    <3>1. Marked("runtime")
      BY <1>2, <2>1, <2>6 DEF Marked, Workspaces
    <3> QED BY <1>1, <1>6, <2>1, <2>3, <2>6, <3>1
  <2>7. CASE IntegrityUnknown(m) \/ \E b \in BOOLEAN : IntegrityIssue(m, b)
    BY <1>1, <1>5, <2>3, <2>7 DEF Turns
  <2>8. CASE \/ Throw(m) /\ ckpt' = ckpt
             \/ Stop(m, "CANCELLED", FALSE) /\ ckpt' = ckpt
             \/ Stop(m, "BLOCKED", TRUE) /\ ckpt' = ckpt
             \/ RouteTo(m, "planner", "verify", run.verdict, "FAILED") /\ ckpt' = ckpt
    BY <1>1, <1>3, <1>4, <2>1, <2>3, <2>8 DEF Turns
  <2> QED BY <2>4, <2>5, <2>6, <2>7, <2>8
<1> QED BY <1>9, <1>10, <1>11, <1>12, <1>13, <1>14

\* The team comes back to its gates or reviews; the reviews end the run or ask for a rework.
TeamReturns ==
    /\ run.pc = "team" /\ run'.pc \in {"verify", "runtime", "reviews"} /\ Silent /\ mem'.routes = mem.routes /\ SameCall
    /\ run'.team \in {"ok", "failed"} /\ mem'.cursor = mem.cursor
    /\ GateAfter("start") = IF run'.pc = "reviews" THEN "end" ELSE run'.pc
Reviewed == TeamShips /\ run.pc = "reviews" /\ run'.pc \in {"returned", "auditing"} /\ mem' = mem /\ ckpt' = ckpt /\ SameCall

LEMMA TeamShapes ==
  ASSUME LoopHeld, opts \in Options, TeamEnds \/ TeamShips \/ TeamReviewRefuses \/ TeamFails
  PROVE /\ run.pc \in {"team", "reviews"} /\ child' = child
        /\ Held \/ TeamReturns \/ Reviewed
<1>1. run.pc \in {"team", "reviews"} /\ child' = child
  BY DEF TeamEnds, TeamShips, TeamReviewRefuses, TeamFails, At
<1>2. run \in Controls /\ mem \in Memories /\ Follows(mem)
  BY DEF LoopHeld, Sound, Follows
<1>3. CASE TeamEnds
  <2> DEFINE m == [mem EXCEPT !.results = @ \cup {"team"}]
  <2>1. Follows(m)
    <3>1. mem.results \cup {"team"} \in ResultSets
      BY <1>2, MemoryFields DEF ResultSets
    <3> QED BY <1>2, <3>1 DEF Follows, Memories
  <2>2. \/ Throw(m) /\ ckpt' = ckpt
        \/ IntegrityUnknown(m)
        \/ \E b \in BOOLEAN : IntegrityIssue(m, b)
        \/ /\ mem' = m /\ ckpt' = ckpt
           /\ \E outcome \in {"ok", "failed"} :
                run' = [run EXCEPT !.team = outcome,
                                   !.pc = IF GateAfter("start") = "end" THEN "reviews" ELSE GateAfter("start")]
    BY <1>3 DEF TeamEnds
  <2>3. run.pc = "team" /\ GateAfter("start") \in {"verify", "runtime", "end"}
    BY <1>3 DEF TeamEnds, At, GateAfter
  <2>4. m.routes = mem.routes /\ m.violations = mem.violations /\ m.cursor = mem.cursor
    BY <2>1 DEF Follows
  <2> HIDE DEF m
  <2>5. CASE \/ Throw(m) /\ ckpt' = ckpt
             \/ IntegrityUnknown(m)
             \/ \E b \in BOOLEAN : IntegrityIssue(m, b)
    BY <1>1, <1>2, <2>1, <2>5, TurnShapes DEF Held, Turns, Silent
  <2>6. CASE /\ mem' = m /\ ckpt' = ckpt
             /\ \E outcome \in {"ok", "failed"} :
                  run' = [run EXCEPT !.team = outcome,
                                     !.pc = IF GateAfter("start") = "end" THEN "reviews" ELSE GateAfter("start")]
    <3>1. TeamReturns
      BY <1>2, <2>3, <2>4, <2>6 DEF TeamReturns, Silent, SameCall, Controls
    <3> QED BY <1>1, <3>1
  <2> QED BY <2>2, <2>5, <2>6
<1>4. CASE TeamShips
  <2>1. Reviewed
    BY <1>2, <1>4 DEF TeamShips, At, Reviewed, SameCall, Controls
  <2> QED BY <1>1, <2>1
<1>5. CASE TeamReviewRefuses
  <2>1. "review" \in Sources \ {"none"}
    BY StepsAre DEF Sources
  <2>2. ckpt' = ckpt /\ (Stop(mem, "BLOCKED", TRUE) \/ \E target \in RouteTargets : RouteTo(mem, target, "review", run.verdict, "NEEDS-WORK"))
    BY <1>5 DEF TeamReviewRefuses
  <2> QED BY <1>1, <1>2, <2>1, <2>2, TurnShapes DEF Held, Turns, Silent
<1>6. CASE TeamFails
  BY <1>1, <1>2, <1>6, TurnShapes DEF TeamFails, Held, Turns, Silent
<1> QED BY <1>3, <1>4, <1>5, <1>6

\* The work after success, stage by stage, and the end.
Stages == {"docs-audit", "commit", "push", "pull-request"}
Delivers ==
    /\ run'.pc = "posting"
    /\ \E s \in IF opts.pr THEN Stages ELSE {"post-success"} : ckpt' = Published(mem, Intent("delivery", s))
Closes ==
    /\ run'.pc \in {"auditing", "returned", "over"}
    /\ ckpt' = ckpt \/ \E call \in {NoCall, [NoCall EXCEPT !.action = "finalize", !.step = "finalize"]} : ckpt' = Published(mem, call)

LEMMA EndShapes ==
  ASSUME run \in Controls, End
  PROVE /\ run.pc \in {"finish", "auditing", "posting", "returned"} /\ child' = child /\ mem' = mem /\ SameCall
        /\ Delivers \/ Closes \/ (~opts.checkpointed /\ run.pc = "posting" /\ run'.pc = "posting" /\ ckpt' = ckpt)
<1>1. CASE Finalize
  BY <1>1 DEF Finalize, At, Goto, Closes, SameCall, Controls
<1>2. CASE PostSuccessStarts
  BY <1>2 DEF PostSuccessStarts, At, Goto, Delivers, Stages, SameCall, Controls
<1>3. CASE PostSuccessEnds
  <2>1. run.pc = "posting" /\ Goto(mem, IF row = "RUNNING" THEN "returned" ELSE "over") /\ child' = child
        /\ (ckpt' = ckpt \/ ckpt' = Published(mem, NoCall))
    BY <1>3 DEF PostSuccessEnds
  <2>2. run'.pc \in {"returned", "over"} /\ mem' = mem /\ SameCall
    BY <2>1 DEF Goto, SameCall, Controls
  <2> QED BY <2>1, <2>2 DEF Closes
<1>4. CASE DeliveryAdvances
  <2>1. run.pc = "posting" /\ run' = run /\ mem' = mem /\ child' = child /\ opts.pr
    BY <1>4 DEF DeliveryAdvances, At
  <2>2. PICK s \in {"docs-audit", "commit", "push"} : ckpt' = Published(mem, Intent("delivery", NextStage[s]))
    BY <1>4 DEF DeliveryAdvances, NextStage
  <2>3. NextStage[s] \in Stages
    BY DEF NextStage, Stages
  <2> QED BY <2>1, <2>2, <2>3 DEF Delivers, SameCall
<1>5. CASE DeliveryEnds
  <2>1. run.pc = "posting" /\ mem' = mem /\ child' = child /\ (ckpt' = ckpt \/ ckpt' = Published(mem, NoCall))
    BY <1>5 DEF DeliveryEnds, At
  <2>2. run'.pc = "returned" /\ SameCall
    BY <1>5 DEF DeliveryEnds, SameCall, Controls
  <2> QED BY <2>1, <2>2 DEF Closes
<1>6. CASE WriteResult
  <2>1. mem' = mem /\ child' = child /\ ckpt' = ckpt /\ (run.pc = "returned" \/ (run.pc = "posting" /\ ~opts.checkpointed))
        /\ run' = [run EXCEPT !.pc = IF @ = "returned" THEN "over" ELSE @]
    BY <1>6 DEF WriteResult, At
  <2>2. CASE run.pc = "returned"
    BY <2>1, <2>2 DEF Closes, SameCall, Controls
  <2>3. CASE run.pc = "posting" /\ ~opts.checkpointed
    BY <2>1, <2>3 DEF SameCall, Controls
  <2> QED BY <2>1, <2>2, <2>3
<1> QED BY <1>1, <1>2, <1>3, <1>4, <1>5, <1>6 DEF End

-----------------------------------------------------------------------------
(* Restarts: the checkpoint says what a dying process was doing. *)

Actions == {"none", "agent", "verify", "runtime", "team", "finalize", "delivery"}
Inputs == ({"feedback"} \X Sources) \cup ({"instruction"} \X {0}) \cup ({"evidence"} \X ({"verify", "runtime"} \X Nat))
Calls == [action: Actions, started: BOOLEAN, before: BOOLEAN, input: SUBSET Inputs,
          step: Steps \cup Stages \cup {"none", "verify-baseline", "repro", "verify", "runtime", "team", "finalize", "post-success"}]

\* The step a memory m is at, enabled, planned and with its baseline taken, is the given one.
ReadyAt(m, step) ==
    /\ m.cursor <= 6 /\ STEP_ORDER[m.cursor] = step /\ step \in opts.steps
    /\ step = "cicd" => m.plan \in {"none", "plan+cicd"}
    /\ step # "clarifier" => m.baseline

\* Where the workflow runs a command or a team itself, and where a team's gates and reviews are.
Commands == {"baselining", "reproducing", "verifying", "probing", "team"}
TeamPlaces == {"team", "verify", "verifying", "runtime", "probing", "reviews"}

\* What the published call says of the place the run is at.
CallNamed ==
    /\ run.pc \in {"calling", "working"} => ckpt.call.action = "agent" /\ ckpt.call.step = Step /\ ckpt.mem = mem
    /\ run.pc = "calling" => ~ckpt.call.started
    /\ run.pc = "working" => ckpt.call.started
    /\ run.pc \in Commands => ckpt.call.action \in {"verify", "runtime", "team"}
    /\ run.pc \in TeamPlaces /\ run.team # "no" => ckpt.call.action \in {"verify", "runtime", "team"}
    /\ run.pc = "posting" =>
         ckpt.call.action = "delivery" /\ ckpt.call.step \in IF opts.pr THEN Stages ELSE {"post-success"}

Noted ==
    /\ ckpt.call \in Calls
    /\ ckpt.call.action = "agent" => ReadyAt(ckpt.mem, ckpt.call.step)
    /\ run.pc \in {"step", "baselining"} => Step \in opts.steps
    /\ run.pc \in {"calling", "working"} => ReadyAt(mem, Step)
    /\ run.pc = "working" => child.status = "RUNNING" /\ child.step = Step
    /\ run.pc = "reviews" => run.team # "no"
    /\ run.team # "no" => run.pc \in TeamPlaces \cup {"finish", "auditing", "posting", "returned", "over", "down"}
    /\ IF opts.checkpointed THEN CallNamed /\ ckpt.mem.violations = mem.violations ELSE ckpt.call = NoCall

LEMMA CallsMade ==
  ASSUME opts \in Options
  PROVE /\ NoCall \in Calls /\ NoCall.action = "none"
        /\ \A a \in Actions, s \in Steps \cup Stages \cup {"verify-baseline", "repro", "verify", "runtime", "team", "post-success"} :
              Intent(a, s) \in Calls /\ Intent(a, s).action = a /\ Intent(a, s).step = s
        /\ LET final == [NoCall EXCEPT !.action = "finalize", !.step = "finalize"] IN
              final \in Calls /\ final.action = "finalize"
        /\ \A c \in Calls : LET begun == [c EXCEPT !.started = TRUE, !.before = FALSE] IN
              begun \in Calls /\ begun.action = c.action /\ begun.step = c.step /\ begun.started /\ begun.input = c.input
        /\ \A m \in Memories, s \in Steps : LET c == [Intent("agent", s) EXCEPT !.input = InputFor(m, s)] IN
              c \in Calls /\ c.action = "agent" /\ c.step = s /\ ~c.started /\ c.input = InputFor(m, s)
<1>1. NoCall \in Calls /\ NoCall.action = "none" /\ ~NoCall.started
  BY DEF NoCall, Calls, Actions
<1>2. ASSUME NEW a \in Actions, NEW s \in Steps \cup Stages \cup {"verify-baseline", "repro", "verify", "runtime", "team", "post-success"}
      PROVE Intent(a, s) \in Calls /\ Intent(a, s).action = a /\ Intent(a, s).step = s /\ ~Intent(a, s).started
  BY DEF Intent, NoCall, Calls, Actions
<1>3. LET final == [NoCall EXCEPT !.action = "finalize", !.step = "finalize"] IN final \in Calls /\ final.action = "finalize"
  BY DEF NoCall, Calls, Actions
<1>4. ASSUME NEW c \in Calls
      PROVE LET begun == [c EXCEPT !.started = TRUE, !.before = FALSE] IN
              begun \in Calls /\ begun.action = c.action /\ begun.step = c.step /\ begun.started /\ begun.input = c.input
  BY DEF Calls
<1>5. ASSUME NEW m \in Memories, NEW s \in Steps
      PROVE LET c == [Intent("agent", s) EXCEPT !.input = InputFor(m, s)] IN
              c \in Calls /\ c.action = "agent" /\ c.step = s /\ ~c.started /\ c.input = InputFor(m, s)
  <2>1. InputFor(m, s) \in SUBSET Inputs
    BY MemoryFields DEF InputFor, Inputs, EvidenceSets
  <2>2. Intent("agent", s) \in Calls /\ Intent("agent", s).action = "agent" /\ Intent("agent", s).step = s /\ ~Intent("agent", s).started
    BY <1>2 DEF Actions
  <2>3. ASSUME NEW c \in Calls, NEW i \in SUBSET Inputs
        PROVE LET n == [c EXCEPT !.input = i] IN
                n \in Calls /\ n.action = c.action /\ n.step = c.step /\ n.started = c.started /\ n.input = i
    BY DEF Calls
  <2>4. PICK c \in Calls : c = Intent("agent", s)
    BY <2>2
  <2>5. PICK i \in SUBSET Inputs : i = InputFor(m, s)
    BY <2>1
  <2>6. LET n == [c EXCEPT !.input = i] IN n \in Calls /\ n.action = "agent" /\ n.step = s /\ ~n.started /\ n.input = i
    BY <2>2, <2>3, <2>4
  <2> QED BY <2>4, <2>5, <2>6
<1> QED BY ONLY <1>1, <1>2, <1>3, <1>4, <1>5, ZenonT(60)

LEMMA IntentMade ==
  ASSUME opts \in Options, NEW a \in {"verify", "runtime", "team", "delivery"},
         NEW s \in Stages \cup {"verify-baseline", "repro", "verify", "runtime", "team", "post-success"}
  PROVE Intent(a, s) \in Calls /\ Intent(a, s).action = a /\ Intent(a, s).step = s
<1>1. a \in Actions /\ s \in Steps \cup Stages \cup {"verify-baseline", "repro", "verify", "runtime", "team", "post-success"}
  BY DEF Actions
<1> HIDE DEF Intent
<1> QED BY <1>1, CallsMade

\* A step is a cancellation or one of these groups.
LEMMA StepGroups ==
  Next => \/ Abort
          \/ LoopHead
          \/ Baseline
          \/ SkipCicd \/ ReviewHeld \/ SnapshotFails \/ StartStep
          \/ CallStarts \/ CallEnds
          \/ Answer \/ TestAnswered \/ ReviewShips \/ ReviewRefuses \/ TeamStarts
          \/ ReproEnds \/ GateSkipped \/ GateHeld \/ GateStarts \/ VerifyEnds \/ RuntimeEnds
          \/ TeamEnds \/ TeamShips \/ TeamReviewRefuses \/ TeamFails
          \/ End
  BY DEF Next, Progress, Call, Gate, Review

\* What the records of a counted memory, or of none, leave of the notes.
LEMMA RecordedNotes ==
  ASSUME Noted, Surroundings, opts' = opts, Recorded(NoCall)
  PROVE /\ ckpt'.call \in Calls /\ ckpt'.call.action # "agent"
        /\ IF opts.checkpointed THEN ckpt'.mem.violations = mem'.violations ELSE ckpt'.call = NoCall
<1>1. PICK m \in Memories : ckpt' = Published(m, NoCall) /\ m.violations = mem'.violations
  BY DEF Recorded
<1> QED BY <1>1, CallsMade DEF Published, Noted, Surroundings

\* A step that ends between two pieces of work keeps the notes.
LEMMA BetweenNoted ==
  ASSUME Noted, Surroundings, opts' = opts, Silent \/ Recorded(NoCall),
         run'.pc \in {"head", "answered", "finish", "returned", "auditing", "over", "down"},
         run'.pc \in {"head", "answered"} => run'.team = "no"
  PROVE Noted'
<1>1. /\ ckpt'.call \in Calls
      /\ ckpt'.call.action = "agent" => ReadyAt(ckpt'.mem, ckpt'.call.step)
      /\ IF opts.checkpointed THEN ckpt'.mem.violations = mem'.violations ELSE ckpt'.call = NoCall
  BY RecordedNotes DEF Silent, Noted
<1>2. CallNamed'
  BY DEF CallNamed, Commands, TeamPlaces
<1>3. (ReadyAt(ckpt.mem, ckpt.call.step))' <=> ReadyAt(ckpt'.mem, ckpt'.call.step)
  BY DEF ReadyAt
<1> QED BY <1>1, <1>2, <1>3 DEF Noted

LEMMA PublishedFields ==
  ASSUME NEW m, NEW call
  PROVE /\ opts.checkpointed => Published(m, call).mem = m /\ Published(m, call).call = call
        /\ ~opts.checkpointed => Published(m, call) = ckpt
  BY DEF Published

\* The ends of the cases below: the published call fits the place the step leads to.
LEMMA PublishedNoted ==
  ASSUME Noted, Surroundings, opts' = opts, NEW call \in Calls, ckpt' = Published(mem', call),
         call.action = "agent" => ReadyAt(mem', call.step),
         opts.checkpointed => CallNamed',
         run'.pc \in {"step", "baselining"} => Step' \in opts.steps,
         run'.pc \in {"calling", "working"} => ReadyAt(mem', Step'),
         run'.pc = "working" => child'.status = "RUNNING" /\ child'.step = Step',
         run'.pc = "reviews" => run'.team # "no",
         run'.team # "no" => run'.pc \in TeamPlaces \cup {"finish", "auditing", "posting", "returned", "over", "down"}
  PROVE Noted'
<1>1. (ReadyAt(ckpt.mem, ckpt.call.step))' <=> ReadyAt(ckpt'.mem, ckpt'.call.step)
  BY DEF ReadyAt
<1>2. (ReadyAt(mem, Step))' <=> ReadyAt(mem', Step')
  BY DEF ReadyAt
<1>3. CASE opts.checkpointed
  <2>1. ckpt'.mem = mem' /\ ckpt'.call = call
    BY <1>3, PublishedFields
  <2> QED BY <1>1, <1>2, <1>3, <2>1 DEF Noted
<1>4. CASE ~opts.checkpointed
  <2>1. ckpt' = ckpt
    BY <1>4, PublishedFields
  <2>2. NoCall \in Calls /\ NoCall.action # "agent" /\ ckpt'.call = NoCall
    BY <1>4, <2>1, CallsMade DEF Noted, Surroundings
  <2> QED BY <1>1, <1>2, <1>4, <2>2 DEF Noted
<1> QED BY <1>3, <1>4

LEMMA HeadNoted == LoopHeld /\ Surroundings /\ Noted /\ LoopHead => Noted'
<1> SUFFICES ASSUME LoopHeld, Surroundings, Noted, LoopHead PROVE Noted'
  OBVIOUS
<1>1. run \in Controls /\ mem \in Memories /\ opts \in Options
  BY DEF LoopHeld, Surroundings, Sound
<1>2. opts' = opts
  BY DEF LoopHead, CancelAtHead, SkipStep, EnterStep, LeaveLoop
<1>3. run.pc = "head" /\ Silent /\ (Leaves \/ Skips \/ Enters)
  BY <1>1, HeadShapes
<1>4. CASE Leaves \/ Skips
  BY <1>2, <1>3, <1>4, BetweenNoted DEF Leaves, Skips
<1>5. CASE Enters
  <2>1. /\ run'.pc = "step" /\ run'.team = "no" /\ mem' = mem /\ ckpt' = ckpt /\ Step \in opts.steps
    BY <1>3, <1>5 DEF Enters, Silent, Noted, TeamPlaces
  <2>2. Step' = Step
    BY <2>1 DEF Step
  <2>3. CallNamed'
    BY <2>1 DEF CallNamed, Commands, TeamPlaces
  <2>4. (ReadyAt(ckpt.mem, ckpt.call.step))' <=> ReadyAt(ckpt.mem, ckpt.call.step)
    BY <1>2, <2>1 DEF ReadyAt
  <2> HIDE DEF Step
  <2> QED BY <1>2, <2>1, <2>2, <2>3, <2>4 DEF Noted
<1> QED BY <1>3, <1>4, <1>5

LEMMA BaselineNoted == LoopHeld /\ Surroundings /\ Noted /\ Baseline => Noted'
<1> SUFFICES ASSUME LoopHeld, Surroundings, Noted, Baseline PROVE Noted'
  OBVIOUS
<1>1. run \in Controls /\ mem \in Memories /\ opts \in Options
  BY DEF LoopHeld, Surroundings, Sound
<1>2. opts' = opts
  BY DEF Baseline, CaptureFails, CaptureBaseline, BaselineEnds
<1>3. Captures \/ Baselined \/ Rebaselines \/ (Turns /\ (Recorded(NoCall) \/ Silent))
  BY <1>1, BaselineShapes DEF Held
<1>4. CASE Turns /\ (Recorded(NoCall) \/ Silent)
  BY <1>2, <1>4, BetweenNoted DEF Turns, Leaves, Reworks
<1>5. CASE Captures \/ Baselined
  <2>1. /\ run.pc \in {"step", "baselining"} /\ mem'.cursor = mem.cursor /\ run'.team = "no"
        /\ Step \in opts.steps /\ run'.pc \in {"step", "baselining"}
    BY <1>1, <1>5 DEF Captures, Baselined, Memories, Noted, TeamPlaces
  <2>2. Step' = Step
    BY <2>1 DEF Step
  <2>3. PICK call \in {NoCall, Intent("verify", "verify-baseline")} :
          ckpt' = Published(mem', call) /\ (run'.pc = "baselining" => call = Intent("verify", "verify-baseline"))
    BY <1>5 DEF Captures, Baselined
  <2>4. call \in Calls /\ call.action # "agent" /\ (run'.pc = "baselining" => call.action = "verify")
    <3>1. NoCall \in Calls /\ NoCall.action = "none"
      BY <1>1, CallsMade
    <3>2. Intent("verify", "verify-baseline") \in Calls /\ Intent("verify", "verify-baseline").action = "verify"
      BY <1>1, IntentMade
    <3> QED BY <2>1, <2>3, <3>1, <3>2
  <2>5. opts.checkpointed => CallNamed'
    BY <2>1, <2>3, <2>4, PublishedFields DEF CallNamed, Commands, TeamPlaces
  <2> HIDE DEF Step
  <2> QED BY <1>2, <2>1, <2>2, <2>3, <2>4, <2>5, PublishedNoted
<1>6. CASE Rebaselines
  <2>1. run'.pc = "head" /\ run'.team = "no" /\ ckpt' = Published(mem', NoCall)
    BY <1>6 DEF Rebaselines, Reworks
  <2>2. NoCall \in Calls /\ NoCall.action # "agent"
    BY <1>1, CallsMade
  <2>3. CallNamed'
    BY <2>1 DEF CallNamed, Commands, TeamPlaces
  <2> QED BY <1>2, <2>1, <2>2, <2>3, PublishedNoted
<1> QED BY <1>3, <1>4, <1>5, <1>6

LEMMA ReadyNoted == LoopHeld /\ Surroundings /\ Noted /\ (SkipCicd \/ ReviewHeld \/ SnapshotFails \/ StartStep) => Noted'
<1> SUFFICES ASSUME LoopHeld, Surroundings, Noted, SkipCicd \/ ReviewHeld \/ SnapshotFails \/ StartStep PROVE Noted'
  OBVIOUS
<1>1. run \in Controls /\ mem \in Memories /\ opts \in Options /\ (run.pc = "step" => mem.cursor <= 6)
  BY DEF LoopHeld, Surroundings, Sound, InLoop, Places
<1>2. opts' = opts
  BY DEF SkipCicd, ReviewHeld, SnapshotFails, StartStep
<1>3. /\ run.pc = "step" /\ ~BaselineMissing
      /\ \/ SkipsPlan
         \/ Turns /\ Recorded(NoCall)
         \/ Leaves /\ Silent
         \/ SameCount /\ (Replays \/ Announces)
  BY <1>1, ReadyShapes
<1>4. CASE SkipsPlan \/ (Turns /\ Recorded(NoCall)) \/ (Leaves /\ Silent)
  BY <1>2, <1>4, BetweenNoted DEF SkipsPlan, Turns, Leaves, Reworks
<1>5. run.team = "no"
  BY <1>3 DEF Noted, TeamPlaces
<1>6. CASE SameCount /\ Replays
  BY <1>2, <1>5, <1>6, BetweenNoted DEF SameCount, Replays, Silent
<1>7. CASE SameCount /\ Announces
  <2> DEFINE call == [Intent("agent", Step) EXCEPT !.input = InputFor(Counted, Step)]
  <2>1. run'.pc = "calling" /\ run'.team = "no" /\ ckpt' = Published(mem', call)
    BY <1>5, <1>7 DEF Announces
  <2>2. Step' = Step
    BY <1>7 DEF SameCount, Step
  <2>3. Step \in Steps
    BY <1>1, <1>3, MemoryFields, StepsAre DEF Step, STEP_ORDER
  <2>4. Counted \in Memories
    BY <1>1, MemoryFields DEF Counted, Memories
  <2>5. call \in Calls /\ call.action = "agent" /\ call.step = Step /\ ~call.started
    <3> HIDE DEF Step
    <3> QED BY <1>1, <2>3, <2>4, CallsMade, ZenonT(40)
  <2>6. ReadyAt(mem', Step)
    BY <1>1, <1>3, <1>7 DEF ReadyAt, SameCount, Announces, CicdUnplanned, BaselineMissing, Step, Noted
  <2> HIDE DEF call, Step
  <2>7. ASSUME opts.checkpointed PROVE CallNamed'
    <3>1. ckpt'.mem = mem' /\ ckpt'.call = call
      BY <2>1, <2>7, PublishedFields
    <3>2. ckpt'.call.action = "agent" /\ ckpt'.call.step = Step' /\ ~ckpt'.call.started
      BY <2>2, <2>5, <3>1
    <3> QED BY <2>1, <3>1, <3>2 DEF CallNamed, Commands, TeamPlaces
  <2> QED BY <1>2, <2>1, <2>2, <2>5, <2>6, <2>7, PublishedNoted
<1> QED BY <1>3, <1>4, <1>6, <1>7

LEMMA CallNotedKept == LoopHeld /\ Surroundings /\ Noted /\ (CallStarts \/ CallEnds) => Noted'
<1> SUFFICES ASSUME LoopHeld, Surroundings, Noted, CallStarts \/ CallEnds PROVE Noted'
  OBVIOUS
<1>1. run \in Controls /\ child \in Answers /\ opts \in Options
  BY DEF LoopHeld, Surroundings
<1>2. opts' = opts
  BY DEF CallStarts, CallEnds
<1>3. /\ mem' = mem /\ run'.team = run.team /\ run.pc \in {"calling", "working"}
      /\ \/ /\ run.pc = "calling" /\ run'.pc \in {"working", "answered"}
            /\ ckpt' = Published(mem, [ckpt.call EXCEPT !.started = TRUE, !.before = FALSE])
            /\ child'.step = Step
            /\ run'.pc = "working" => child'.status = "RUNNING"
         \/ /\ run.pc = "working" /\ run'.pc \in {"answered", "returned"} /\ ckpt' = ckpt
  BY <1>1, CallShapes
<1>4. Step' = Step /\ run.team = "no"
  BY <1>3 DEF Step, Noted, TeamPlaces
<1>5. CASE run.pc = "calling"
  <2> DEFINE call == [ckpt.call EXCEPT !.started = TRUE, !.before = FALSE]
  <2>1. /\ run'.pc \in {"working", "answered"} /\ ckpt' = Published(mem', call)
        /\ child'.step = Step /\ (run'.pc = "working" => child'.status = "RUNNING")
    BY <1>3, <1>5
  <2>2. call \in Calls /\ call.action = ckpt.call.action /\ call.step = ckpt.call.step /\ call.started
    BY <1>1, CallsMade DEF Noted
  <2>3. ReadyAt(mem, Step) /\ (opts.checkpointed => ckpt.call.action = "agent" /\ ckpt.call.step = Step)
    BY <1>5 DEF Noted, CallNamed
  <2>4. call.action = "agent" => ReadyAt(mem', call.step)
    <3>1. ~opts.checkpointed => ckpt.call.action # "agent"
      BY <1>1, CallsMade DEF Noted
    <3> QED BY <1>3, <2>2, <2>3, <3>1
  <2> HIDE DEF call, Step
  <2>5. ASSUME opts.checkpointed PROVE CallNamed'
    <3>1. ckpt'.mem = mem' /\ ckpt'.call = call
      BY <2>1, <2>5, PublishedFields
    <3>2. ckpt'.call.action = "agent" /\ ckpt'.call.step = Step' /\ ckpt'.call.started
      BY <1>4, <2>2, <2>3, <2>5, <3>1
    <3>3. CASE run'.pc = "working"
      BY <3>1, <3>2, <3>3 DEF CallNamed, Commands, TeamPlaces
    <3>4. CASE run'.pc = "answered"
      BY <3>4 DEF CallNamed, Commands, TeamPlaces
    <3> QED BY <2>1, <3>3, <3>4
  <2> QED BY <1>2, <1>3, <1>4, <2>1, <2>2, <2>3, <2>4, <2>5, PublishedNoted
<1>6. CASE run.pc = "working"
  BY <1>2, <1>3, <1>4, <1>6, BetweenNoted DEF Silent
<1> QED BY <1>3, <1>5, <1>6

LEMMA AnswerNoted ==
  LoopHeld /\ Surroundings /\ Noted /\ (Answer \/ TestAnswered \/ ReviewShips \/ ReviewRefuses \/ TeamStarts) => Noted'
<1> SUFFICES ASSUME LoopHeld, Surroundings, Noted, Answer \/ TestAnswered \/ ReviewShips \/ ReviewRefuses \/ TeamStarts PROVE Noted'
  OBVIOUS
<1>1. opts \in Options
  BY DEF Surroundings
<1>2. opts' = opts
  BY DEF Answer, AnswerHeld, AnswerStopped, AnswerStrays, ClarifierReady, ClarifierAsks, AnswerInvalid, PlannerPlans,
         WriterDone, AnswerBlocked, TestAnswered, ReviewShips, ReviewRefuses, TeamStarts
<1>3. /\ run.pc = "answered"
      /\ \/ Turns /\ (Silent \/ Recorded(NoCall))
         \/ Onwards
         \/ Passes /\ Silent
         \/ Reproduces
         \/ TeamsUp
  BY <1>1, AnswerShapes DEF Turns
<1>4. run.team = "no"
  BY <1>3 DEF Noted, TeamPlaces
<1>5. CASE Turns /\ (Silent \/ Recorded(NoCall))
  BY <1>2, <1>5, BetweenNoted DEF Turns, Leaves, Reworks
<1>6. CASE Onwards
  BY <1>2, <1>6, BetweenNoted DEF Onwards
<1>7. CASE Passes /\ Silent
  <2>1. CASE run'.pc = "head"
    BY <1>2, <1>4, <1>7, <2>1, BetweenNoted DEF Passes
  <2>2. CASE run'.pc # "head"
    <3>1. run'.pc \in {"verify", "runtime"} /\ run'.team = "no" /\ ckpt' = ckpt /\ mem'.violations = mem.violations
      BY <1>4, <1>7, <2>2 DEF Passes, Silent
    <3>2. CallNamed'
      BY <3>1 DEF CallNamed, Commands, TeamPlaces
    <3>3. (ReadyAt(ckpt.mem, ckpt.call.step))' <=> ReadyAt(ckpt.mem, ckpt.call.step)
      BY <1>2, <3>1 DEF ReadyAt
    <3> QED BY <1>2, <3>1, <3>2, <3>3 DEF Noted
  <2> QED BY <2>1, <2>2
<1>8. CASE Reproduces \/ TeamsUp
  <2>1. PICK call \in {Intent("verify", "repro"), Intent("team", "team")} :
          /\ ckpt' = Published(mem', call) /\ call.action \in {"verify", "team"} /\ call \in Calls
          /\ run'.pc \in {"reproducing", "team"} /\ (run'.team # "no" => run'.pc = "team")
    <3>1. /\ Intent("verify", "repro").action = "verify" /\ Intent("verify", "repro") \in Calls
          /\ Intent("team", "team").action = "team" /\ Intent("team", "team") \in Calls
      BY <1>1, IntentMade
    <3> QED BY <1>4, <1>8, <3>1 DEF Reproduces, TeamsUp
  <2>2. opts.checkpointed => CallNamed'
    BY <2>1, PublishedFields DEF CallNamed, Commands
  <2>3. run'.team # "no" => run'.pc \in TeamPlaces
    BY <2>1 DEF TeamPlaces
  <2> QED BY <1>2, <2>1, <2>2, <2>3, PublishedNoted
<1> QED BY <1>3, <1>5, <1>6, <1>7, <1>8

LEMMA GateNoted ==
  LoopHeld /\ Surroundings /\ Noted
    /\ (ReproEnds \/ GateSkipped \/ GateHeld \/ GateStarts \/ VerifyEnds \/ RuntimeEnds
        \/ TeamEnds \/ TeamShips \/ TeamReviewRefuses \/ TeamFails) => Noted'
<1> SUFFICES ASSUME LoopHeld, Surroundings, Noted,
                    ReproEnds \/ GateSkipped \/ GateHeld \/ GateStarts \/ VerifyEnds \/ RuntimeEnds
                    \/ TeamEnds \/ TeamShips \/ TeamReviewRefuses \/ TeamFails
             PROVE Noted'
  OBVIOUS
<1>1. opts \in Options
  BY DEF Surroundings
<1>2. opts' = opts
  BY DEF ReproEnds, GateSkipped, GateHeld, GateStarts, VerifyEnds, RuntimeEnds, TeamEnds, TeamShips, TeamReviewRefuses, TeamFails
<1>3. /\ run.pc \in {"reproducing", "verify", "verifying", "runtime", "probing", "team", "reviews"}
      /\ \/ Turns /\ (Silent \/ Recorded(NoCall))
         \/ Passes /\ Silent
         \/ GateOpens
         \/ TeamReturns
         \/ Reviewed
  BY <1>1, GateShapes, TeamShapes DEF Turns, Held
<1>4. CASE Turns /\ (Silent \/ Recorded(NoCall))
  BY <1>2, <1>4, BetweenNoted DEF Turns, Leaves, Reworks
<1>5. CASE Reviewed
  BY <1>2, <1>5, BetweenNoted DEF Reviewed, Silent
<1>6. run.team # "no" => (opts.checkpointed => ckpt.call.action \in {"verify", "runtime", "team"})
  BY <1>3 DEF Noted, CallNamed, TeamPlaces, Commands
<1>7. CASE GateOpens
  <2>1. PICK g \in {"verify", "runtime"} : ckpt' = Published(mem', Intent(g, g))
    BY <1>7 DEF GateOpens
  <2>2. Intent(g, g) \in Calls /\ Intent(g, g).action = g
    <3> QED BY <1>1, IntentMade
  <2>3. /\ run'.pc \in {"verifying", "probing"} /\ run'.team = run.team
    BY <1>7 DEF GateOpens
  <2> HIDE DEF Intent
  <2>4. opts.checkpointed => CallNamed'
    BY <2>1, <2>2, <2>3, PublishedFields DEF CallNamed, Commands
  <2>5. run'.pc \in TeamPlaces
    BY <2>3 DEF TeamPlaces
  <2> QED BY <1>2, <2>1, <2>2, <2>3, <2>4, <2>5, PublishedNoted
<1>8. CASE (Passes /\ Silent) \/ TeamReturns
  <2>1. CASE run'.pc = "head"
    BY <1>2, <1>8, <2>1, BetweenNoted DEF Passes, TeamReturns
  <2>2. CASE run'.pc # "head"
    <3>1. /\ run'.pc \in {"verify", "runtime", "reviews"} /\ ckpt' = ckpt /\ mem'.violations = mem.violations
          /\ run'.pc = "reviews" => run'.team # "no"
      BY <1>8, <2>2 DEF Passes, TeamReturns, Silent
    <3>2. ASSUME opts.checkpointed PROVE run'.team # "no" => ckpt.call.action \in {"verify", "runtime", "team"}
      <4>1. CASE Passes
        BY <1>6, <3>2, <4>1 DEF Passes
      <4>2. CASE TeamReturns
        BY <3>2, <4>2 DEF TeamReturns, Noted, CallNamed, Commands
      <4> QED BY <1>8, <4>1, <4>2
    <3>3. opts.checkpointed => CallNamed'
      BY <3>1, <3>2 DEF CallNamed, Commands
    <3>4. (ReadyAt(ckpt.mem, ckpt.call.step))' <=> ReadyAt(ckpt.mem, ckpt.call.step)
      BY <1>2, <3>1 DEF ReadyAt
    <3>5. run'.pc \in TeamPlaces
      BY <3>1 DEF TeamPlaces
    <3> QED BY <1>2, <3>1, <3>3, <3>4, <3>5 DEF Noted
  <2> QED BY <2>1, <2>2
<1> QED BY <1>3, <1>4, <1>5, <1>7, <1>8

LEMMA EndNoted == LoopHeld /\ Surroundings /\ Noted /\ End => Noted'
<1> SUFFICES ASSUME LoopHeld, Surroundings, Noted, End PROVE Noted'
  OBVIOUS
<1>1. run \in Controls /\ opts \in Options
  BY DEF LoopHeld, Surroundings
<1>2. opts' = opts
  BY DEF End, Finalize, PostSuccessStarts, PostSuccessEnds, DeliveryAdvances, DeliveryEnds, WriteResult
<1>3. /\ mem' = mem
      /\ Delivers \/ Closes \/ (~opts.checkpointed /\ run.pc = "posting" /\ run'.pc = "posting" /\ ckpt' = ckpt)
  BY <1>1, EndShapes
<1>4. CASE Delivers
  <2>1. PICK s \in IF opts.pr THEN Stages ELSE {"post-success"} : ckpt' = Published(mem', Intent("delivery", s))
    BY <1>3, <1>4 DEF Delivers
  <2>2. Intent("delivery", s) \in Calls /\ Intent("delivery", s).action = "delivery" /\ Intent("delivery", s).step = s
    BY <1>1, IntentMade
  <2>3. run'.pc = "posting"
    BY <1>4 DEF Delivers
  <2> HIDE DEF Intent
  <2>4. opts.checkpointed => CallNamed'
    BY <1>2, <2>1, <2>2, <2>3, PublishedFields DEF CallNamed, Commands, TeamPlaces
  <2> QED BY <1>2, <2>1, <2>2, <2>3, <2>4, PublishedNoted
<1>5. CASE Closes
  <2>1. CASE ckpt' = ckpt
    BY <1>2, <1>3, <1>5, <2>1, BetweenNoted DEF Closes, Silent
  <2>2. CASE ckpt' # ckpt
    <3>1. PICK call \in {NoCall, [NoCall EXCEPT !.action = "finalize", !.step = "finalize"]} : ckpt' = Published(mem', call)
      BY <1>3, <1>5, <2>2 DEF Closes
    <3>2. call \in Calls /\ call.action # "agent"
      BY <1>1, <3>1, CallsMade
    <3>3. run'.pc \in {"auditing", "returned", "over"}
      BY <1>5 DEF Closes
    <3>4. CallNamed'
      BY <3>3 DEF CallNamed, Commands, TeamPlaces
    <3> QED BY <1>2, <3>1, <3>2, <3>3, <3>4, PublishedNoted
  <2> QED BY <2>1, <2>2
<1>6. CASE ~opts.checkpointed /\ run.pc = "posting" /\ run'.pc = "posting" /\ ckpt' = ckpt
  <2>1. ckpt'.call = NoCall /\ NoCall \in Calls /\ NoCall.action # "agent"
    BY <1>1, <1>6, CallsMade DEF Noted
  <2> QED BY <1>2, <1>6, <2>1 DEF Noted
<1> QED BY <1>3, <1>4, <1>5, <1>6

LEMMA NotesKept == LoopHeld /\ Surroundings /\ Noted /\ Next => Noted'
<1> SUFFICES ASSUME LoopHeld, Surroundings, Noted, Next PROVE Noted'
  OBVIOUS
<1>1. CASE Abort
  <2>1. opts' = opts /\ mem' = mem /\ run' = run /\ ckpt' = ckpt /\ child' = child
    BY <1>1 DEF Abort
  <2>2. CallNamed' = CallNamed /\ Step' = Step
    BY <2>1 DEF CallNamed, Step
  <2>3. (ReadyAt(ckpt.mem, ckpt.call.step))' <=> ReadyAt(ckpt.mem, ckpt.call.step)
    BY <2>1 DEF ReadyAt
  <2>4. (ReadyAt(mem, Step))' <=> ReadyAt(mem, Step)
    BY <2>1, <2>2 DEF ReadyAt
  <2> QED BY <2>1, <2>2, <2>3, <2>4 DEF Noted
<1> QED BY <1>1, StepGroups, HeadNoted, BaselineNoted, ReadyNoted, CallNotedKept, AnswerNoted, GateNoted, EndNoted

-----------------------------------------------------------------------------
(* Restarts: the types, the budget and the torn work of SpecRecovery. *)

Lives == [restarts: 0..MaxRestarts, edit: Edits, edited: BOOLEAN, used: BOOLEAN, torn: BOOLEAN, owed: Sources]

\* What a process that may have left work half done has published: nothing the workflow goes on from.
Uncertain ==
    opts.checkpointed =>
        /\ ckpt.call.action # "none"
        /\ ckpt.call.action = "agent" => ckpt.call.started /\ ckpt.call.step \in Writers /\ child.status \in {"RUNNING", "LOST"}
        /\ ckpt.call.action = "delivery" => ckpt.call.step \notin {"commit", "push", "pull-request"}

TornHeld ==
    /\ run.pc = "over" => row # "RUNNING"
    /\ life.torn => \/ run.pc = "down" /\ row = "RUNNING" /\ Uncertain
                    \/ run.pc = "over" /\ row \in {"FAILED", "RECOVERY_REQUIRED"}

\* Every restart pays for the call that it may make again.
DownPaid == run.pc = "down" => Paid(life.restarts, ckpt.mem, 1)

RestartInvariant == Budgeted(life.restarts) /\ Noted /\ life \in Lives /\ DownPaid /\ TornHeld

LEMMA RestartFacts ==
  ASSUME RestartInvariant
  PROVE /\ LoopHeld /\ Surroundings /\ Noted
        /\ run \in Controls /\ mem \in Memories /\ ckpt.mem \in Memories /\ opts \in Options /\ child \in Answers
        /\ work \in Workspaces /\ aborted \in BOOLEAN /\ row \in Rows /\ life \in Lives
        /\ life.restarts \in 0..MaxRestarts /\ life.restarts \in Nat
<1>1. LoopHeld /\ Surroundings /\ Noted /\ life \in Lives
  BY DEF RestartInvariant, Budgeted, LoopPaid
<1>2. life.restarts \in 0..MaxRestarts /\ life.restarts \in Nat
  BY <1>1, RecoveryAssumption DEF Lives
<1> QED BY <1>1, <1>2 DEF LoopHeld, Surroundings, Sound

\* Nothing of the workflow happens where no process runs, or where the run is over.
LEMMA NextRuns == Next /\ (run.pc = "over" => row # "RUNNING") => run.pc \notin {"down", "over"}
<1> SUFFICES ASSUME Next, run.pc = "over" => row # "RUNNING" PROVE run.pc \notin {"down", "over"}
  OBVIOUS
<1>1. CASE Abort
  BY <1>1 DEF Abort
<1>2. CASE LoopHead
  BY <1>2 DEF LoopHead, CancelAtHead, SkipStep, EnterStep, LeaveLoop, At
<1>3. CASE Baseline
  BY <1>3 DEF Baseline, CaptureFails, CaptureBaseline, BaselineEnds, At
<1>4. CASE Call
  BY <1>4 DEF Call, SkipCicd, ReviewHeld, SnapshotFails, StartStep, StepAllowed, StepReady, CallStarts, CallEnds, At
<1>5. CASE Answer
  BY <1>5 DEF Answer, AnswerHeld, AnswerStopped, AnswerStrays, ClarifierReady, ClarifierAsks, AnswerInvalid,
              PlannerPlans, WriterDone, AnswerBlocked, Answered, Checked, At
<1>6. CASE Gate
  BY <1>6 DEF Gate, TestAnswered, ReproEnds, GateSkipped, GateHeld, GateStarts, VerifyEnds, RuntimeEnds, Answered, Checked, At
<1>7. CASE Review
  BY <1>7 DEF Review, ReviewShips, ReviewRefuses, TeamStarts, TeamEnds, TeamShips, TeamReviewRefuses, TeamFails, Answered, Checked, At
<1>8. CASE End
  BY <1>8 DEF End, Finalize, PostSuccessStarts, PostSuccessEnds, DeliveryAdvances, DeliveryEnds, WriteResult, At
<1> QED BY <1>1, <1>2, <1>3, <1>4, <1>5, <1>6, <1>7, <1>8 DEF Next, Progress

\* What a step of the workflow leads to, and that only the end of the run writes its row.
LEMMA NextLeads ==
  ASSUME LoopHeld, Surroundings, Next
  PROVE /\ run'.pc # "down"
        /\ ~End => row' = row /\ (Abort \/ run'.pc # "over")
        /\ run'.pc = "over" => row' # "RUNNING" \/ (row = "RUNNING" /\ run.pc = "over")
<1>1. run \in Controls /\ mem \in Memories /\ opts \in Options /\ child \in Answers /\ run.verdict \in Verdicts
  BY ControlFields DEF LoopHeld, Surroundings, Sound
<1>2. CASE Abort
  BY <1>2 DEF Abort
<1>3. CASE End
  <2>1. Delivers \/ Closes \/ run'.pc = "posting"
    BY <1>1, <1>3, EndShapes
  <2>2. CASE WriteResult
    <3>1. row' = Outcome(run.verdict, run.delivery)
      BY <2>2 DEF WriteResult
    <3>2. row' # "RUNNING"
      BY <1>1, <3>1 DEF Outcome, Verdicts
    <3> QED BY <1>3, <2>1, <3>2 DEF Delivers, Closes
  <2>3. CASE PostSuccessEnds
    <3>1. row' = row /\ run'.pc = IF row = "RUNNING" THEN "returned" ELSE "over"
      BY <1>1, <2>3 DEF PostSuccessEnds, Goto, Controls
    <3> QED BY <1>3, <3>1
  <2>4. CASE Finalize \/ PostSuccessStarts \/ DeliveryAdvances \/ DeliveryEnds
    BY <1>1, <1>3, <2>4 DEF Finalize, PostSuccessStarts, DeliveryAdvances, DeliveryEnds, Goto, Controls, At
  <2> QED BY <1>3, <2>2, <2>3, <2>4 DEF End
<1>4. CASE ~Abort /\ ~End
  <2>1. row' = row
    BY <1>4 DEF Next, Progress, LoopHead, CancelAtHead, SkipStep, EnterStep, LeaveLoop, Baseline, CaptureFails, CaptureBaseline, BaselineEnds,
         Call, SkipCicd, ReviewHeld, SnapshotFails, StartStep, CallStarts, CallEnds, Answer, AnswerHeld, AnswerStopped, AnswerStrays,
         ClarifierReady, ClarifierAsks, AnswerInvalid, PlannerPlans, WriterDone, AnswerBlocked, Gate, TestAnswered, ReproEnds,
         GateSkipped, GateHeld, GateStarts, VerifyEnds, RuntimeEnds, Review, ReviewShips, ReviewRefuses, TeamStarts, TeamEnds,
         TeamShips, TeamReviewRefuses, TeamFails
  <2>2. run'.pc \notin {"down", "over"}
    <3>1. CASE LoopHead
      BY <1>1, <3>1, HeadShapes DEF Leaves, Skips, Enters
    <3>2. CASE Baseline
      BY <1>1, <3>2, BaselineShapes DEF Captures, Baselined, Rebaselines, Held, Turns, Leaves, Reworks
    <3>3. CASE SkipCicd \/ ReviewHeld \/ SnapshotFails \/ StartStep
      BY <1>1, <3>3, ReadyShapes DEF SkipsPlan, Turns, Leaves, Reworks, Replays, Announces
    <3>4. CASE CallStarts \/ CallEnds
      BY <1>1, <3>4, CallShapes
    <3>5. CASE Answer \/ TestAnswered \/ ReviewShips \/ ReviewRefuses \/ TeamStarts
      BY <1>1, <3>5, AnswerShapes DEF Turns, Leaves, Reworks, Onwards, Passes, Reproduces, TeamsUp
    <3>6. CASE ReproEnds \/ GateSkipped \/ GateHeld \/ GateStarts \/ VerifyEnds \/ RuntimeEnds
      BY <1>1, <3>6, GateShapes DEF Leaves, Reworks, Passes, GateOpens
    <3>7. CASE TeamEnds \/ TeamShips \/ TeamReviewRefuses \/ TeamFails
      BY <1>1, <3>7, TeamShapes DEF Held, Turns, Leaves, Reworks, TeamReturns, Reviewed
    <3> QED BY <1>4, <3>1, <3>2, <3>3, <3>4, <3>5, <3>6, <3>7, StepGroups
  <2> QED BY <1>4, <2>1, <2>2
<1> QED BY <1>2, <1>3, <1>4

LEMMA WorkingRestarts == RestartInvariant /\ Working => RestartInvariant'
<1> SUFFICES ASSUME RestartInvariant, Working PROVE RestartInvariant'
  OBVIOUS
<1>1. LoopHeld /\ Surroundings /\ Noted /\ life \in Lives /\ run.pc \notin {"down", "over"} /\ Next
  BY RestartFacts, NextRuns DEF Working, RestartInvariant, TornHeld
<1>2. PICK k \in Nat : k = life.restarts
  BY RestartFacts
<1>3. Budgeted(k)
  BY <1>2 DEF RestartInvariant
<1>4. Budgeted(k)'
  BY <1>1, <1>3, BudgetStep
<1>5. life'.restarts = life.restarts /\ life' \in Lives /\ life'.torn = life.torn
  <2>1. mem'.feedback \in Sources
    BY <1>4, MemoryFields DEF Budgeted, LoopPaid, LoopHeld, Sound
  <2>2. PICK u, o : life' = [life EXCEPT !.used = u, !.owed = o] /\ u \in BOOLEAN /\ o \in Sources
    <3>1. life.used \in BOOLEAN /\ life.owed \in Sources /\ "none" \in Sources
      BY <1>1 DEF Lives, Sources
    <3> DEFINE u == CASE run.pc = "calling" /\ run'.pc # "calling" -> FALSE
                      [] run.pc = "answered" /\ run'.pc # "answered" -> TRUE
                      [] OTHER -> life.used
    <3> DEFINE o == CASE mem'.routes > mem.routes -> mem'.feedback
                      [] run.pc = "working" -> "none"
                      [] OTHER -> life.owed
    <3>2. u \in BOOLEAN /\ o \in Sources
      BY <2>1, <3>1
    <3>3. life' = [life EXCEPT !.used = u, !.owed = o]
      BY <1>1 DEF Working, Lives
    <3> HIDE DEF u, o
    <3> QED BY <3>2, <3>3
  <2> QED BY <1>1, <2>2 DEF Lives
<1>6. Budgeted(life.restarts)'
  BY <1>2, <1>4, <1>5 DEF Budgeted, LoopPaid, Backed, Sound, Paid
<1>7. Noted'
  BY <1>1, NotesKept
<1>8. run'.pc # "down" /\ (run'.pc = "over" => row' # "RUNNING") /\ ~life'.torn
  <2>1. ~life.torn
    BY <1>1 DEF RestartInvariant, TornHeld
  <2> QED BY <1>1, <1>5, <2>1, NextLeads
<1> QED BY <1>5, <1>6, <1>7, <1>8 DEF RestartInvariant, DownPaid, TornHeld

LEMMA CrashRestarts == RestartInvariant /\ Crash => RestartInvariant'
<1> SUFFICES ASSUME RestartInvariant, Crash PROVE RestartInvariant'
  OBVIOUS
<1>1. PICK k \in Nat : k = life.restarts
  BY RestartFacts
<1>2. Budgeted(k)
  BY <1>1 DEF RestartInvariant
<1>3. /\ opts' = opts /\ mem' = mem /\ ckpt' = ckpt /\ child' = child /\ row' = row /\ aborted' = FALSE
      /\ run' = [run EXCEPT !.pc = "down"] /\ row = "RUNNING" /\ run.pc \notin {"over", "down"}
      /\ life' = [life EXCEPT !.restarts = @ + 1, !.torn = @ \/ Tearing] /\ life.restarts < MaxRestarts
  BY DEF Crash
<1>4. run' \in Controls /\ run'.pc = "down" /\ run'.recovered = run.recovered /\ run'.team = run.team
  BY <1>3, RestartFacts DEF Controls, Places
<1>5. LoopHeld'
  BY <1>3, <1>4, RestartFacts DEF LoopHeld, Sound, AnswersHeld, InLoop
<1>6. Surroundings'
  <2>1. work' \in Workspaces
    BY RestartFacts DEF Crash, Workspaces
  <2> QED BY <1>3, <2>1, RestartFacts DEF Surroundings
<1>7. life' \in Lives /\ life'.restarts = k + 1 /\ (life'.torn <=> life.torn \/ Tearing)
  <2> DEFINE torn == life.torn \/ Tearing
  <2>1. torn \in BOOLEAN /\ k + 1 \in 0..MaxRestarts
    BY <1>1, <1>3, RestartFacts, RecoveryAssumption DEF Lives, Tearing
  <2>2. life' = [life EXCEPT !.restarts = k + 1, !.torn = torn]
    BY <1>1, <1>3
  <2> HIDE DEF torn
  <2>3. life' \in Lives /\ life'.restarts = k + 1 /\ life'.torn = torn
    BY <2>1, <2>2, RestartFacts DEF Lives
  <2> QED BY ONLY <2>3 DEF torn
<1>8. Paid(k + 1, mem, 0) /\ Sound(mem) /\ Paid(k + 1, ckpt.mem, 1) /\ Paid(k + 1, ckpt.mem, 0) /\ Sound(ckpt.mem)
  BY <1>2, Here, RestartFacts, MemoryFields DEF Budgeted, Backed, Paid
<1>9. Budgeted(life.restarts)' /\ DownPaid'
  BY <1>3, <1>4, <1>5, <1>6, <1>7, <1>8 DEF Budgeted, LoopPaid, Backed, Sound, Paid, DownPaid, Unentered
<1>10. Noted'
  <2>1. CallNamed'
    BY <1>4 DEF CallNamed, Commands, TeamPlaces
  <2>2. (ReadyAt(ckpt.mem, ckpt.call.step))' <=> ReadyAt(ckpt.mem, ckpt.call.step)
    BY <1>3 DEF ReadyAt
  <2> QED BY <1>3, <1>4, <2>1, <2>2, RestartFacts DEF Noted
<1>11. TornHeld'
  <2>1. ~life.torn
    BY <1>3 DEF RestartInvariant, TornHeld
  <2>2. ASSUME Tearing, opts.checkpointed PROVE Uncertain'
    <3>1. CallNamed /\ (run.pc = "working" => child.status = "RUNNING")
      BY <2>2, RestartFacts DEF Noted
    <3>2. CASE run.pc = "working" /\ Step \in Writers
      BY <1>3, <3>1, <3>2 DEF CallNamed, Uncertain, Writers
    <3>3. CASE run.pc \in Commands
      BY <1>3, <3>1, <3>3 DEF CallNamed, Uncertain
    <3>4. CASE run.pc = "posting" /\ (opts.pr => ckpt.call.step = "docs-audit")
      BY <1>3, <3>1, <3>4 DEF CallNamed, Uncertain
    <3> QED BY <2>2, <3>2, <3>3, <3>4 DEF Tearing, Commands
  <2> QED BY <1>3, <1>4, <1>7, <2>1, <2>2 DEF TornHeld, Uncertain
<1> QED BY <1>7, <1>9, <1>10, <1>11 DEF RestartInvariant

\* The child's row as the recovery finds it.
LEMMA ChildIsFound ==
  ASSUME child \in Answers, NEW repaired \in BOOLEAN, NEW c, c = ChildFound(repaired)
  PROVE /\ c \in Answers /\ c.step = child.step /\ c.out = child.out /\ c.current = child.current
        /\ c.status = child.status \/ (child.status = "RUNNING" /\ c.status = "LOST")
  BY DEF ChildFound, Answers

\* What a resumed run starts from: its checkpoint, and the answer of its child if there is one.
LEMMA ResumedFrom ==
  ASSUME RestartInvariant, Resume
  PROVE /\ run.pc = "down" /\ row = "RUNNING" /\ opts.checkpointed /\ ~life.torn /\ child' \in Answers
        /\ child'.step = child.step /\ child'.out = child.out /\ child'.current = child.current
        /\ child'.status = child.status \/ (child.status = "RUNNING" /\ child'.status = "LOST")
        /\ mem' = ckpt.mem /\ opts' = opts /\ ckpt' = ckpt /\ work' = work /\ aborted' = aborted /\ row' = row
        /\ run' \in Controls /\ run'.pc = "head" /\ run'.team = "no" /\ run'.answer = NoAnswer
        /\ life' = [life EXCEPT !.edit = "none", !.owed = IF ckpt.call.action = "none" THEN "none" ELSE @]
        /\ \/ /\ ckpt.call.action = "agent" /\ run'.resumes = ckpt.call.step
              /\ \/ /\ ckpt.call.started /\ child'.status \in Ended /\ run'.recovered = child'
                 \/ /\ ~(ckpt.call.started /\ child'.status \in Ended) /\ run'.recovered = NoAnswer
                    /\ ckpt.call.step \notin Writers /\ ckpt.call.before /\ ~opts.ignored /\ life.edit # "files"
           \/ ckpt.call.action = "none" /\ run'.resumes = "none" /\ run'.recovered = NoAnswer /\ ~work.changed
<1>1. PICK repaired \in BOOLEAN :
        LET c == ChildFound(repaired) IN
        /\ Resumable(c)
        /\ child' = c
        /\ mem' = ckpt.mem
        /\ run' = [pc |-> "head", verdict |-> "none", failure |-> FALSE, team |-> "no", before |-> "own",
                   resumes |-> IF Interrupted.action = "agent" THEN Interrupted.step ELSE "none",
                   recovered |-> IF Interrupted.action = "agent" /\ HasResult(c) THEN c ELSE NoAnswer,
                   answer |-> NoAnswer, delivery |-> "none"]
  BY DEF Resume
<1>2. /\ child' \in Answers /\ child'.step = child.step /\ child'.out = child.out /\ child'.current = child.current
      /\ child'.status = child.status \/ (child.status = "RUNNING" /\ child'.status = "LOST")
  BY <1>1, ChildIsFound, RestartFacts
<1>3. /\ run.pc = "down" /\ row = "RUNNING" /\ opts.checkpointed
      /\ mem' = ckpt.mem /\ opts' = opts /\ ckpt' = ckpt /\ work' = work /\ aborted' = aborted /\ row' = row
      /\ life' = [life EXCEPT !.edit = "none", !.owed = IF ckpt.call.action = "none" THEN "none" ELSE @]
  BY <1>1 DEF Resume, Recovering, Interrupted
<1>4. /\ run'.pc = "head" /\ run'.team = "no" /\ run'.answer = NoAnswer /\ run'.verdict = "none" /\ run'.failure = FALSE
      /\ run'.resumes = IF ckpt.call.action = "agent" THEN ckpt.call.step ELSE "none"
      /\ run'.recovered = IF ckpt.call.action = "agent" /\ ckpt.call.started /\ child'.status \in Ended THEN child' ELSE NoAnswer
  BY <1>1 DEF Interrupted, HasResult, Ended
<1>5. /\ life.edit # "config"
      /\ \/ ckpt.call.action = "agent"
            /\ \/ ckpt.call.started /\ child'.status \in Ended
               \/ ckpt.call.step \notin Writers /\ ckpt.call.before /\ ~opts.ignored /\ life.edit # "files"
         \/ ckpt.call.action = "none" /\ ~work.changed
  BY <1>1 DEF Resumable, HasResult, RetrySafe, Unmoved, Interrupted, Ended
<1>6. ckpt.call.action = "agent" => ckpt.call.step \in Steps
  BY RestartFacts, OptionsAssumption DEF Noted, ReadyAt, OptionSet
<1>7. run' \in Controls
  <2>1. NoAnswer \in Answers
    BY DEF NoAnswer, Answers, AllOutputs
  <2>2. PICK s, r : run' = [pc |-> "head", verdict |-> "none", failure |-> FALSE, team |-> "no", before |-> "own",
                           resumes |-> s, recovered |-> r, answer |-> NoAnswer, delivery |-> "none"]
    BY <1>1
  <2>3. s = run'.resumes /\ r = run'.recovered
    BY <2>2
  <2>4. s \in Steps \cup {"none"} /\ r \in Answers
    BY <1>2, <1>4, <1>6, <2>1, <2>3
  <2> QED BY <2>1, <2>2, <2>4 DEF Controls, Places, Verdicts
<1>8. ~life.torn
  <2>1. life.torn => Uncertain
    BY <1>3 DEF RestartInvariant, TornHeld
  <2> QED BY <1>2, <1>3, <1>5, <2>1 DEF Uncertain, Ended
<1> QED BY <1>2, <1>3, <1>4, <1>5, <1>7, <1>8

LEMMA ResumeRestarts == RestartInvariant /\ Resume => RestartInvariant'
<1> SUFFICES ASSUME RestartInvariant, Resume PROVE RestartInvariant'
  OBVIOUS
<1>1. PICK k \in Nat : k = life.restarts
  BY RestartFacts
<1>2. Budgeted(k) /\ run.pc = "down"
  BY <1>1, ResumedFrom DEF RestartInvariant
<1>3. /\ opts' = opts /\ mem' = ckpt.mem /\ ckpt' = ckpt /\ child' \in Answers /\ row' = row /\ aborted' = aborted /\ work' = work
      /\ run' \in Controls /\ run'.pc = "head" /\ run'.team = "no" /\ row = "RUNNING" /\ ~life.torn /\ opts.checkpointed
      /\ run'.recovered = NoAnswer \/ run'.recovered.status \in Ended
  BY ResumedFrom
<1>4. life' \in Lives /\ life'.restarts = k /\ life'.torn = life.torn
  <2> DEFINE owed == IF ckpt.call.action = "none" THEN "none" ELSE life.owed
  <2>1. owed \in Sources
    BY RestartFacts DEF Lives, Sources
  <2>2. life' = [life EXCEPT !.edit = "none", !.owed = owed]
    BY ResumedFrom
  <2> HIDE DEF owed
  <2> QED BY <1>1, <2>1, <2>2, RestartFacts DEF Lives, Edits
<1>5. Sound(ckpt.mem) /\ Paid(k, ckpt.mem, 1) /\ Paid(k, ckpt.mem, 0)
  BY <1>1, <1>2 DEF Budgeted, Backed, RestartInvariant, DownPaid
<1>6. LoopHeld'
  BY <1>3, <1>5 DEF LoopHeld, Sound, AnswersHeld, InLoop
<1>7. Surroundings'
  BY <1>3, RestartFacts DEF Surroundings
<1>8. Budgeted(life.restarts)' /\ DownPaid'
  BY <1>3, <1>4, <1>5, <1>6, <1>7 DEF Budgeted, LoopPaid, Backed, Sound, Paid, DownPaid, Unentered
<1>9. Noted'
  <2>1. CallNamed'
    BY <1>3 DEF CallNamed, Commands, TeamPlaces
  <2>2. (ReadyAt(ckpt.mem, ckpt.call.step))' <=> ReadyAt(ckpt.mem, ckpt.call.step)
    BY <1>3 DEF ReadyAt
  <2> QED BY <1>3, <2>1, <2>2, RestartFacts DEF Noted
<1>10. TornHeld'
  BY <1>3, <1>4 DEF TornHeld
<1> QED BY <1>4, <1>8, <1>9, <1>10 DEF RestartInvariant

\* The other steps of a run without a process: its project is edited, or it ends.
LEMMA SettlesRestarts == RestartInvariant /\ (Edit \/ RepairOrphan \/ ResumeDelivery \/ RequireRecovery) => RestartInvariant'
<1> SUFFICES ASSUME RestartInvariant, Edit \/ RepairOrphan \/ ResumeDelivery \/ RequireRecovery PROVE RestartInvariant'
  OBVIOUS
<1>1. PICK k \in Nat : k = life.restarts
  BY RestartFacts
<1>2. Budgeted(k) /\ run.pc = "down" /\ row = "RUNNING"
  BY <1>1 DEF RestartInvariant, Edit, RepairOrphan, ResumeDelivery, RequireRecovery, Recovering
<1>3. /\ opts' = opts /\ mem' = mem /\ ckpt' = ckpt /\ aborted' = aborted
      /\ \/ run' = run /\ row' = row
         \/ run' = [run EXCEPT !.pc = "over"] /\ row' \in Rows \ {"RUNNING"}
  BY DEF Edit, RepairOrphan, ResumeDelivery, RequireRecovery, Rows
<1>4. run' \in Controls /\ run'.pc \in {"down", "over"} /\ run'.recovered = run.recovered /\ run'.team = run.team
      /\ (run'.pc = "down" => run' = run)
  BY <1>2, <1>3, RestartFacts DEF Controls, Places
<1>5. child' \in Answers
  <2>1. child' = child \/ \E repaired \in BOOLEAN : child' = ChildFound(repaired)
    BY DEF Edit, RepairOrphan, ResumeDelivery, RequireRecovery
  <2> QED BY <2>1, ChildIsFound, RestartFacts
<1>6. work' \in Workspaces
  <2>1. CASE Edit
    BY <2>1, RestartFacts DEF Edit, Workspaces
  <2>2. CASE ~Edit
    BY <2>2, RestartFacts DEF RepairOrphan, ResumeDelivery, RequireRecovery
  <2> QED BY <2>1, <2>2
<1>7. life' \in Lives /\ life'.restarts = k /\ life'.torn = life.torn
  <2>1. CASE Edit
    BY <1>1, <2>1, RestartFacts DEF Edit, Lives, Edits
  <2>2. CASE ~Edit
    BY <1>1, <2>2, RestartFacts DEF RepairOrphan, ResumeDelivery, RequireRecovery
  <2> QED BY <2>1, <2>2
<1>8. LoopHeld'
  BY <1>3, <1>4, RestartFacts DEF LoopHeld, Sound, AnswersHeld, InLoop
<1>9. Surroundings'
  BY <1>3, <1>5, <1>6, RestartFacts DEF Surroundings
<1>10. Paid(k, mem, 0) /\ Sound(mem) /\ Paid(k, ckpt.mem, 1) /\ Paid(k, ckpt.mem, 0) /\ Sound(ckpt.mem)
  BY <1>1, <1>2, Here DEF Budgeted, Backed, RestartInvariant, DownPaid
<1>11. Budgeted(life.restarts)' /\ DownPaid'
  BY <1>3, <1>4, <1>7, <1>8, <1>9, <1>10 DEF Budgeted, LoopPaid, Backed, Sound, Paid, DownPaid, Unentered
<1>12. Noted'
  <2>1. CallNamed'
    BY <1>4 DEF CallNamed, Commands, TeamPlaces
  <2>2. (ReadyAt(ckpt.mem, ckpt.call.step))' <=> ReadyAt(ckpt.mem, ckpt.call.step)
    BY <1>3 DEF ReadyAt
  <2> QED BY <1>3, <1>4, <2>1, <2>2, RestartFacts DEF Noted
<1>13. TornHeld'
  <2>1. life.torn => Uncertain
    BY <1>2 DEF RestartInvariant, TornHeld
  <2>2. CASE Edit
    <3>1. Uncertain' = Uncertain
      BY <2>2 DEF Edit, Uncertain
    <3> QED BY <1>2, <1>7, <2>1, <2>2, <3>1 DEF Edit, TornHeld
  <2>3. CASE RepairOrphan
    BY <1>2, <1>4, <2>3 DEF RepairOrphan, TornHeld
  <2>4. CASE ResumeDelivery
    <3>1. ~Uncertain
      BY <2>4 DEF ResumeDelivery, Recovering, DeliveryStage, Interrupted, Uncertain
    <3> QED BY <1>2, <1>4, <1>7, <2>1, <2>4, <3>1 DEF ResumeDelivery, TornHeld
  <2>5. CASE RequireRecovery
    BY <1>2, <1>4, <2>5 DEF RequireRecovery, TornHeld
  <2> QED BY <2>2, <2>3, <2>4, <2>5
<1> QED BY <1>7, <1>11, <1>12, <1>13 DEF RestartInvariant

LEMMA RestartsStart == RInit => RestartInvariant
<1> SUFFICES ASSUME RInit PROVE RestartInvariant
  OBVIOUS
<1>1. Init /\ life = [restarts |-> 0, edit |-> "none", edited |-> FALSE, used |-> TRUE, torn |-> FALSE, owed |-> "none"]
  BY DEF RInit
<1>2. Budgeted(0) /\ 0 \in Nat
  BY <1>1, BudgetStarts
<1>3. life.restarts = 0 /\ ~life.torn
  BY <1>1
<1>4. life \in Lives
  BY <1>1, RecoveryAssumption DEF Lives, Edits, Sources
<1>5. /\ run.pc = "head" /\ run.team = "no" /\ ckpt.call = NoCall /\ ckpt.mem = mem /\ opts \in Options
  BY <1>1 DEF Init
<1>6. Noted
  BY <1>5, CallsMade DEF Noted, CallNamed, Commands, TeamPlaces
<1>7. DownPaid /\ TornHeld
  BY <1>3, <1>5 DEF DownPaid, TornHeld
<1> QED BY <1>2, <1>3, <1>4, <1>6, <1>7 DEF RestartInvariant

LEMMA RestartStep == RestartInvariant /\ [RNext]_rvars => RestartInvariant'
<1> SUFFICES ASSUME RestartInvariant, [RNext]_rvars PROVE RestartInvariant'
  OBVIOUS
<1>1. CASE UNCHANGED rvars
  <2>1. vars' = vars /\ life' = life
    BY <1>1 DEF rvars
  <2>2. PICK k \in Nat : k = life.restarts
    BY RestartFacts
  <2>3. Budgeted(k)'
    BY <2>1, <2>2, BudgetStep DEF RestartInvariant
  <2>4. Budgeted(life.restarts)'
    BY <2>1, <2>2, <2>3 DEF Budgeted, LoopPaid, Backed, Sound, Paid
  <2>5. opts' = opts /\ mem' = mem /\ run' = run /\ ckpt' = ckpt /\ child' = child /\ row' = row
    BY <2>1 DEF vars
  <2>6. Noted'
    <3>1. CallNamed' = CallNamed /\ Step' = Step
      BY <2>5 DEF CallNamed, Step
    <3>2. (ReadyAt(ckpt.mem, ckpt.call.step))' <=> ReadyAt(ckpt.mem, ckpt.call.step)
      BY <2>5 DEF ReadyAt
    <3>3. (ReadyAt(mem, Step))' <=> ReadyAt(mem, Step)
      BY <2>5, <3>1 DEF ReadyAt
    <3> QED BY <2>5, <3>1, <3>2, <3>3, RestartFacts DEF Noted
  <2> QED BY <2>1, <2>4, <2>5, <2>6 DEF RestartInvariant, DownPaid, TornHeld, Uncertain, Paid
<1>2. CASE RNext
  BY <1>2, WorkingRestarts, CrashRestarts, ResumeRestarts, SettlesRestarts DEF RNext
<1> QED BY <1>1, <1>2

\* Every call of a run is paid for across its restarts, and its checkpoint says what a dying process was doing.
THEOREM RestartInvariance == RSpec => []RestartInvariant
<1>1. RInit => RestartInvariant
  BY RestartsStart
<1>2. RestartInvariant /\ [RNext]_rvars => RestartInvariant'
  BY RestartStep
<1> QED BY <1>1, <1>2, PTL DEF RSpec

\* Whatever recoverExpiredCheckpoint resumes, the variables of the run keep their types.
THEOREM RestartsTyped == RSpec => []RTypeOK
<1>1. RestartInvariant => RTypeOK
  BY RestartFacts DEF LoopHeld, Surroundings, Sound, TypeOK, RTypeOK, Lives
<1> QED BY <1>1, RestartInvariance, PTL

\* A restart costs a run one agent call at most, however often its process dies.
THEOREM RestartsPaid == RSpec => []BudgetAcrossRestarts
<1>1. ASSUME RestartInvariant PROVE BudgetAcrossRestarts
  <2>1. mem \in Memories /\ Paid(life.restarts, mem, IF run.pc \in {"head", "step", "baselining"} THEN 1 ELSE 0)
    BY <1>1, RestartFacts DEF RestartInvariant, Budgeted, LoopPaid, Unentered
  <2>2. mem.executed \in Nat /\ mem.routes \in Nat /\ mem.rounds \in Nat /\ mem.cursor \in Nat /\ life.restarts \in Nat
    BY <1>1, <2>1, MemoryFields, RestartFacts
  <2>3. CASE run.pc \in {"head", "step", "baselining"}
    BY <2>1, <2>2, <2>3 DEF Paid, BudgetAcrossRestarts
  <2>4. CASE run.pc \notin {"head", "step", "baselining"}
    BY <2>1, <2>2, <2>4 DEF Paid, BudgetAcrossRestarts
  <2> QED BY <2>3, <2>4
<1> QED BY <1>1, RestartInvariance, PTL

\* A run whose process dies five times at most does not reach the loop's safety cap either.
THEOREM CapAcrossRestarts == RSpec => [](life.restarts <= 5 => CapUnreached)
<1>1. ASSUME RestartInvariant, life.restarts <= 5 PROVE CapUnreached
  <2>1. PICK k \in 0..5 : k = life.restarts
    BY <1>1, RestartFacts
  <2>2. Budgeted(k)
    BY <1>1, <2>1 DEF RestartInvariant
  <2> QED BY <2>2, BudgetSuffices DEF BudgetInvariant
<1> QED BY <1>1, RestartInvariance, PTL

\* Work that a dying process may have left half done is never continued: the run fails or waits for a person.
THEOREM TornWorkStays == RSpec => []TornWorkKept
<1>1. RestartInvariant => TornWorkKept
  BY DEF RestartInvariant, TornHeld, TornWorkKept
<1> QED BY <1>1, RestartInvariance, PTL

-----------------------------------------------------------------------------
(* Restarts: a completed call is not made again, and no violation is forgotten. *)

\* Guarded files change as files do, by a command, a team or a call that writes.
Tampers == run.pc \in {"baselining", "reproducing", "verifying", "probing", "team"} \/ (run.pc = "working" /\ Step \in Writers)
TamperingChanges == work.tampered => work.changed

LEMMA WorkGrows ==
  ASSUME work \in Workspaces, Next
  PROVE /\ work.changed => work'.changed
        /\ TamperingChanges => TamperingChanges'
        /\ work'.tampered => work.tampered \/ Tampers
<1>1. CASE Abort \/ LoopHead
  BY <1>1 DEF Abort, LoopHead, CancelAtHead, SkipStep, EnterStep, LeaveLoop, TamperingChanges
<1>2. CASE Baseline
  <2>1. CASE CaptureFails \/ CaptureBaseline
    BY <2>1 DEF CaptureFails, CaptureBaseline, TamperingChanges
  <2>2. CASE BaselineEnds
    <3>1. PICK t \in BOOLEAN : work' = [work EXCEPT !.tampered = t, !.changed = @ \/ t]
      BY <2>2 DEF BaselineEnds
    <3>2. work'.tampered = t /\ work'.changed = (work.changed \/ t)
      BY <3>1 DEF Workspaces
    <3> QED BY <2>2, <3>2 DEF BaselineEnds, At, TamperingChanges, Tampers
  <2> QED BY <1>2, <2>1, <2>2 DEF Baseline
<1>3. CASE Call
  <2>1. CASE SkipCicd \/ ReviewHeld \/ SnapshotFails \/ StartStep
    BY <2>1 DEF SkipCicd, ReviewHeld, SnapshotFails, StartStep, TamperingChanges
  <2>2. CASE CallStarts
    <3>1. work'.changed = work.changed /\ work'.tampered = work.tampered
      BY <2>2 DEF CallStarts, Workspaces
    <3> QED BY <3>1 DEF TamperingChanges
  <2>3. CASE CallEnds
    <3>1. PICK status \in IF aborted THEN {"CANCELLED"} ELSE {"DONE", "FAILED"},
               out \in Outputs(Step) \cup {"none"},
               changed, tampered, stray, throws \in BOOLEAN :
            CallResult(status, out, changed, tampered, stray, throws)
      BY <2>3 DEF CallEnds
    <3>2. /\ work' = [work EXCEPT !.tampered = tampered, !.changed = @ \/ changed]
          /\ Step \notin Writers => tampered = work.tampered
          /\ tampered # work.tampered => changed
      BY <3>1 DEF CallResult
    <3>3. work'.tampered = tampered /\ work'.changed = (work.changed \/ changed)
      BY <3>2 DEF Workspaces
    <3>4. run.pc = "working"
      BY <2>3 DEF CallEnds, At
    <3> QED BY <3>2, <3>3, <3>4 DEF TamperingChanges, Tampers
  <2> QED BY <1>3, <2>1, <2>2, <2>3 DEF Call
<1>4. CASE Answer
  BY <1>4 DEF Answer, AnswerHeld, AnswerStopped, AnswerStrays, ClarifierReady, ClarifierAsks, AnswerInvalid,
              PlannerPlans, WriterDone, AnswerBlocked, TamperingChanges
<1>5. CASE Gate
  <2>1. CASE TestAnswered \/ GateSkipped \/ GateHeld \/ GateStarts
    BY <2>1 DEF TestAnswered, GateSkipped, GateHeld, GateStarts, TamperingChanges
  <2>2. CASE ReproEnds
    <3>1. PICK t \in BOOLEAN :
            LET effect == [work EXCEPT !.tampered = t, !.changed = @ \/ t] IN
              work' = effect \/ work' = [effect EXCEPT !.passed = @ \cup {"repro"}]
      BY <2>2 DEF ReproEnds
    <3>2. work'.tampered = t /\ work'.changed = (work.changed \/ t)
      BY <3>1 DEF Workspaces
    <3> QED BY <2>2, <3>2 DEF ReproEnds, At, TamperingChanges, Tampers
  <2>3. CASE VerifyEnds
    <3>1. PICK t \in BOOLEAN :
            LET effect == [work EXCEPT !.tampered = t, !.changed = @ \/ t] IN
              work' = effect \/ work' = [effect EXCEPT !.passed = @ \cup {"verify"}]
      BY <2>3 DEF VerifyEnds
    <3>2. work'.tampered = t /\ work'.changed = (work.changed \/ t)
      BY <3>1 DEF Workspaces
    <3> QED BY <2>3, <3>2 DEF VerifyEnds, At, TamperingChanges, Tampers
  <2>4. CASE RuntimeEnds
    <3>1. PICK t \in BOOLEAN, s \in BOOLEAN :
            LET effect == [work EXCEPT !.tampered = t, !.changed = @ \/ t \/ s] IN
              work' = effect \/ work' = [effect EXCEPT !.passed = @ \cup {"runtime"}]
      BY <2>4, ZenonT(40) DEF RuntimeEnds
    <3>2. work'.tampered = t /\ work'.changed = (work.changed \/ t \/ s)
      BY <3>1 DEF Workspaces
    <3> QED BY <2>4, <3>2 DEF RuntimeEnds, At, TamperingChanges, Tampers
  <2> QED BY <1>5, <2>1, <2>2, <2>3, <2>4 DEF Gate
<1>6. CASE Review
  <2>1. CASE ReviewRefuses \/ TeamReviewRefuses \/ TeamFails
    BY <2>1 DEF ReviewRefuses, TeamReviewRefuses, TeamFails, TamperingChanges
  <2>2. CASE ReviewShips \/ TeamStarts \/ TeamShips
    <3>1. work'.changed = work.changed /\ work'.tampered = work.tampered
      BY <2>2 DEF ReviewShips, TeamStarts, TeamShips, Workspaces
    <3> QED BY <3>1 DEF TamperingChanges
  <2>3. CASE TeamEnds
    <3>1. work'.changed
      BY <2>3 DEF TeamEnds, Workspaces
    <3> QED BY <2>3, <3>1 DEF TeamEnds, At, TamperingChanges, Tampers
  <2> QED BY <1>6, <2>1, <2>2, <2>3 DEF Review
<1>7. CASE End
  <2>1. CASE Finalize \/ PostSuccessStarts \/ DeliveryEnds \/ WriteResult
    BY <2>1 DEF Finalize, PostSuccessStarts, DeliveryEnds, WriteResult, TamperingChanges
  <2>2. CASE PostSuccessEnds \/ DeliveryAdvances
    <3>1. (work.changed => work'.changed) /\ work'.tampered = work.tampered
      BY <2>2 DEF PostSuccessEnds, DeliveryAdvances, Workspaces
    <3> QED BY <3>1 DEF TamperingChanges
  <2> QED BY <1>7, <2>1, <2>2 DEF End
<1> QED BY <1>1, <1>2, <1>3, <1>4, <1>5, <1>6, <1>7 DEF Next, Progress

\* The count of violations never falls.
LEMMA ViolationsGrow == ASSUME LoopHeld, Surroundings, Next PROVE mem'.violations >= mem.violations
<1>1. run \in Controls /\ mem \in Memories /\ opts \in Options /\ child \in Answers /\ mem.violations \in Nat
  BY MemoryFields DEF LoopHeld, Surroundings, Sound
<1>2. ASSUME Recorded(NoCall) \/ Silent \/ mem' = mem \/ mem'.violations = mem.violations PROVE mem'.violations >= mem.violations
  <2>1. CASE Recorded(NoCall)
    BY <1>1, <2>1, MemoryFields DEF Recorded
  <2>2. CASE ~Recorded(NoCall)
    BY <1>1, <1>2, <2>2 DEF Silent
  <2> QED BY <2>1, <2>2
<1>3. CASE Abort
  BY <1>2, <1>3 DEF Abort
<1>4. CASE LoopHead
  BY <1>1, <1>2, <1>4, HeadShapes
<1>5. CASE Baseline
  <2>1. CASE Rebaselines
    BY <1>1, <2>1 DEF Rebaselines
  <2> QED BY <1>1, <1>2, <1>5, <2>1, BaselineShapes DEF Captures, Baselined, Held, Memories
<1>6. CASE SkipCicd \/ ReviewHeld \/ SnapshotFails \/ StartStep
  BY <1>1, <1>2, <1>6, ReadyShapes DEF SkipsPlan, SameCount, Memories
<1>7. CASE CallStarts \/ CallEnds
  BY <1>1, <1>2, <1>7, CallShapes
<1>8. CASE Answer \/ TestAnswered \/ ReviewShips \/ ReviewRefuses \/ TeamStarts
  BY <1>1, <1>2, <1>8, AnswerShapes DEF Onwards, Passes, Reproduces, TeamsUp
<1>9. CASE ReproEnds \/ GateSkipped \/ GateHeld \/ GateStarts \/ VerifyEnds \/ RuntimeEnds
  BY <1>1, <1>2, <1>9, GateShapes DEF Passes, GateOpens
<1>10. CASE TeamEnds \/ TeamShips \/ TeamReviewRefuses \/ TeamFails
  BY <1>1, <1>2, <1>10, TeamShapes DEF Held, TeamReturns, Reviewed
<1>11. CASE End
  BY <1>1, <1>2, <1>11, EndShapes
<1> QED BY <1>3, <1>4, <1>5, <1>6, <1>7, <1>8, <1>9, <1>10, <1>11, StepGroups

\* An answer that was not taken yet: the last call ended with one, and the loop has not looked at it.
Owes == ~life.used /\ child.status = "DONE"

\* It is in the checkpoint still, or a rework of a review that may not run has discarded it.
CallLeft == ckpt.call.action = "agent" /\ ckpt.call.started /\ ckpt.call.step = child.step
Rewound ==
    /\ child.step = "review" /\ work.changed
    /\ \/ ckpt.call.action = "none"
       \/ ckpt.call.action = "agent" /\ ~ckpt.call.started /\ ckpt.call.step \in RouteTargets
Resuming ==
    /\ run.recovered # NoAnswer /\ run.resumes = child.step /\ ReadyAt(mem, child.step)
    /\ opts.checkpointed => CallLeft
Diverting ==
    /\ Rewound /\ Step \in RouteTargets /\ ReadyAt(mem, Step)
    /\ run.recovered = NoAnswer \/ run.resumes = "review"
Left == opts.checkpointed => CallLeft \/ Rewound \/ ckpt.call.action = "finalize"

Owing ==
    Owes =>
        /\ run.pc \in {"answered", "head", "step", "calling", "finish", "returned", "down", "over"}
        /\ run.pc = "answered" /\ opts.checkpointed => CallLeft
        /\ run.pc \in {"head", "step"} => Resuming \/ Diverting
        /\ run.pc = "calling" => Rewound /\ Step \in RouteTargets
        /\ run.pc \in {"finish", "returned", "down"} => Left
        /\ run.pc = "finish" => mem.cursor <= 6

\* When an answer begins and ceases to be owed.
LEMMA OwedWhen ==
  ASSUME RestartInvariant, Working
  PROVE /\ Owes' /\ run.pc # "calling" => ~life.used
        /\ Owes' /\ run.pc = "answered" => run'.pc = "answered"
<1>1. life \in Lives
  BY RestartFacts
<1> QED BY <1>1 DEF Working, Owes, Lives

LEMMA HeadOwing == RestartInvariant /\ TamperingChanges /\ Owing /\ Working /\ LoopHead => Owing'
<1> SUFFICES ASSUME RestartInvariant, TamperingChanges, Owing, Working, LoopHead, Owes' PROVE Owing'
  BY DEF Owing
<1>1. /\ run \in Controls /\ opts \in Options /\ mem \in Memories /\ Noted
  BY RestartFacts
<1>2. /\ run.pc = "head" /\ SameCall /\ ckpt' = ckpt /\ child' = child /\ work' = work /\ opts' = opts
      /\ Leaves \/ Skips \/ Enters
  BY <1>1, HeadShapes DEF Silent, LoopHead, CancelAtHead, SkipStep, EnterStep, LeaveLoop
<1>3. Resuming \/ Diverting
  BY <1>2, OwedWhen DEF Owes, Owing
<1>4. mem.cursor <= 6 /\ Step \in opts.steps
  BY <1>3 DEF Resuming, Diverting, ReadyAt, Step
<1>5. CASE Leaves
  <2>1. run'.pc \in {"finish", "returned"} /\ mem'.cursor = mem.cursor
    BY <1>5 DEF Leaves
  <2>2. Left
    BY <1>3 DEF Left, Resuming, Diverting
  <2>3. Left'
    BY <1>2, <2>2 DEF Left, CallLeft, Rewound
  <2> QED BY <1>4, <2>1, <2>3 DEF Owing
<1>6. CASE Enters
  <2>1. run'.pc = "step" /\ mem' = mem
    BY <1>6 DEF Enters
  <2>2. Resuming' \/ Diverting'
    BY <1>2, <1>3, <2>1 DEF Resuming, Diverting, CallLeft, Rewound, ReadyAt, SameCall, Step
  <2> QED BY <2>1, <2>2 DEF Owing
<1> QED BY <1>2, <1>4, <1>5, <1>6 DEF Skips

LEMMA ReadyOwing ==
  RestartInvariant /\ TamperingChanges /\ Owing /\ Working /\ (SkipCicd \/ ReviewHeld \/ SnapshotFails \/ StartStep) => Owing'
<1> SUFFICES ASSUME RestartInvariant, TamperingChanges, Owing, Working, SkipCicd \/ ReviewHeld \/ SnapshotFails \/ StartStep, Owes'
             PROVE Owing'
  BY DEF Owing
<1>1. /\ run \in Controls /\ opts \in Options /\ mem \in Memories /\ Noted /\ Surroundings
  BY RestartFacts
<1>2. opts' = opts
  BY DEF SkipCicd, ReviewHeld, SnapshotFails, StartStep
<1>3. /\ run.pc = "step" /\ ~BaselineMissing /\ child' = child /\ work' = work
      /\ \/ SkipsPlan
         \/ Step = "review" /\ work.tampered /\ Turns /\ Recorded(NoCall)
         \/ Leaves /\ Silent
         \/ SameCount /\ (Replays \/ Announces)
  BY <1>1, ReadyShapes
<1>4. Resuming \/ Diverting
  BY <1>3, OwedWhen DEF Owes, Owing
<1>5. mem.cursor <= 6 /\ ~CicdUnplanned /\ (Resuming => Step = child.step)
  BY <1>4 DEF Resuming, Diverting, ReadyAt, Step, CicdUnplanned
<1>6. CASE Step = "review" /\ work.tampered /\ Turns /\ Recorded(NoCall)
  <2>1. child.step = "review" /\ work.changed /\ run.resumes = "review" /\ ReadyAt(mem, "review")
    BY <1>4, <1>5, <1>6 DEF Resuming, Diverting, RouteTargets, TamperingChanges
  <2>2. ckpt'.call.action = "none"
    <3>1. PICK m \in Memories : ckpt' = Published(m, NoCall)
      BY <1>6 DEF Recorded
    <3>2. ckpt'.call = NoCall
      BY <1>1, <3>1, PublishedFields DEF Noted
    <3> QED BY <1>1, <3>2, CallsMade
  <2>3. Rewound'
    BY <1>3, <2>1, <2>2 DEF Rewound
  <2>4. CASE Leaves
    <3>1. run'.pc \in {"finish", "returned"} /\ mem'.cursor = mem.cursor
      BY <2>4 DEF Leaves
    <3> QED BY <1>5, <2>3, <3>1 DEF Owing, Left
  <2>5. CASE Reworks
    <3>1. /\ run'.pc = "head" /\ run'.resumes = "review" /\ mem'.cursor <= 6 /\ Step' \in RouteTargets \cap opts.steps
          /\ mem'.baseline = mem.baseline
      BY <2>1, <2>5 DEF Reworks, SameCall
    <3>2. ReadyAt(mem', Step')
      BY <2>1, <3>1 DEF ReadyAt, Step, RouteTargets
    <3>3. Diverting'
      BY <1>2, <2>3, <3>1, <3>2 DEF Diverting, ReadyAt
    <3> QED BY <3>1, <3>3 DEF Owing
  <2> QED BY <1>6, <2>4, <2>5 DEF Turns
<1>7. CASE Leaves /\ Silent
  <2>1. run'.pc \in {"finish", "returned"} /\ mem'.cursor = mem.cursor /\ ckpt' = ckpt
    BY <1>7 DEF Leaves, Silent
  <2>2. Left
    BY <1>4 DEF Left, Resuming, Diverting
  <2>3. Left'
    BY <1>2, <1>3, <2>1, <2>2 DEF Left, CallLeft, Rewound
  <2> QED BY <1>5, <2>1, <2>3 DEF Owing
<1>8. CASE SameCount /\ Replays
  <2>1. run'.pc = "answered" /\ ckpt' = ckpt /\ run.resumes = Step /\ run.recovered # NoAnswer
    BY <1>8 DEF Replays, Resumed
  <2>2. opts.checkpointed => CallLeft
    BY <1>4, <2>1 DEF Resuming, Diverting, RouteTargets
  <2>3. opts.checkpointed => CallLeft'
    BY <1>3, <2>1, <2>2 DEF CallLeft
  <2> QED BY <1>2, <2>1, <2>3 DEF Owing
<1>9. CASE SameCount /\ Announces
  <2>1. /\ run'.pc = "calling" /\ Step' = Step
        /\ ckpt' = Published(mem', [Intent("agent", Step) EXCEPT !.input = InputFor(Counted, Step)])
    BY <1>9 DEF Announces, SameCount, Step
  <2>2. Diverting
    BY <1>4, <1>5, <1>9 DEF Resuming, Announces, Resumed
  <2>3. ckpt'.call = ckpt.call \/ (ckpt'.call.action = "agent" /\ ~ckpt'.call.started /\ ckpt'.call.step = Step)
    <3>1. Step \in Steps /\ Counted \in Memories
      BY <1>1, <2>2, StepsAre, MemoryFields DEF Diverting, RouteTargets, Counted, Memories
    <3> DEFINE call == [Intent("agent", Step) EXCEPT !.input = InputFor(Counted, Step)]
    <3>2. call.action = "agent" /\ call.step = Step /\ ~call.started
      <4> HIDE DEF Step
      <4> QED BY <1>1, <3>1, CallsMade
    <3>3. ckpt' = Published(mem', call)
      BY <2>1
    <3> HIDE DEF Step, call
    <3>4. ckpt'.call = ckpt.call \/ ckpt'.call = call
      BY <3>3, PublishedFields
    <3> QED BY <3>2, <3>4
  <2>4. Rewound'
    BY <1>3, <2>2, <2>3 DEF Diverting, Rewound
  <2> QED BY <2>1, <2>2, <2>4 DEF Owing, Diverting
<1> QED BY <1>3, <1>5, <1>6, <1>7, <1>8, <1>9 DEF SkipsPlan

LEMMA WorkingOwing == RestartInvariant /\ TamperingChanges /\ Owing /\ Working => Owing'
<1> SUFFICES ASSUME RestartInvariant, TamperingChanges, Owing, Working, Owes' PROVE Owing'
  BY DEF Owing
<1>1. /\ run \in Controls /\ opts \in Options /\ mem \in Memories /\ child \in Answers /\ Noted
      /\ LoopHeld /\ Surroundings /\ Next
  BY RestartFacts DEF Working
<1>2. CASE Abort
  <2>1. opts' = opts /\ mem' = mem /\ run' = run /\ ckpt' = ckpt /\ child' = child /\ work' = work
    BY <1>2 DEF Abort
  <2>2. life'.used = life.used
    BY <2>1, RestartFacts DEF Working, Lives
  <2>3. Owing' = Owing
    BY <2>1, <2>2 DEF Owing, Owes, CallLeft, Rewound, Resuming, Diverting, Left, ReadyAt, Step
  <2> QED BY <2>3
<1>3. CASE Baseline
  <2>1. /\ run.pc = "baselining" \/ (run.pc = "step" /\ BaselineMissing)
        /\ child' = child
    BY <1>3 DEF Baseline, CaptureFails, CaptureBaseline, BaselineEnds, At
  <2>2. Owes
    BY <2>1, OwedWhen DEF Owes
  <2>3. Resuming \/ Diverting
    BY <2>1, <2>2 DEF Owing
  <2>4. ReadyAt(mem, Step)
    BY <2>3 DEF Resuming, Diverting, ReadyAt, Step
  <2> QED BY <2>1, <2>2, <2>4 DEF Owing, ReadyAt, BaselineMissing
<1>4. CASE CallStarts \/ CallEnds
  <2>1. /\ mem' = mem
        /\ \/ run.pc = "calling" /\ child'.status \in {"RUNNING", "BLOCKED"}
           \/ /\ run.pc = "working" /\ run'.pc \in {"answered", "returned"} /\ ckpt' = ckpt /\ child'.step = child.step
              /\ run'.pc = "returned" => child'.status = "FAILED"
    BY <1>1, <1>4, CallShapes
  <2>2. run.pc = "working" /\ run'.pc = "answered" /\ ckpt' = ckpt /\ child'.step = child.step
    BY <2>1 DEF Owes
  <2>3. opts.checkpointed => CallLeft'
    BY <1>1, <2>2 DEF Noted, CallNamed, CallLeft
  <2>4. opts' = opts
    BY <1>4 DEF CallStarts, CallEnds
  <2> QED BY <2>2, <2>3, <2>4 DEF Owing
<1>5. CASE Answer \/ TestAnswered \/ ReviewShips \/ ReviewRefuses \/ TeamStarts
  <2>1. run.pc = "answered" /\ run'.pc # "answered"
    BY <1>1, <1>5, AnswerShapes DEF Turns, Leaves, Reworks, Onwards, Passes, Reproduces, TeamsUp
  <2> QED BY <2>1, OwedWhen
<1>6. CASE \/ ReproEnds \/ GateSkipped \/ GateHeld \/ GateStarts \/ VerifyEnds \/ RuntimeEnds
           \/ TeamEnds \/ TeamShips \/ TeamReviewRefuses \/ TeamFails
  <2>1. run.pc \in {"reproducing", "verify", "verifying", "runtime", "probing", "team", "reviews"} /\ child' = child
    BY <1>1, <1>6, GateShapes, TeamShapes
  <2> QED BY <2>1, OwedWhen DEF Owes, Owing
<1>7. CASE End
  <2>1. run.pc \in {"finish", "auditing", "posting", "returned"} /\ child' = child /\ mem' = mem
    BY <1>1, <1>7, EndShapes
  <2>2. run.pc \in {"finish", "returned"} /\ Left /\ (run.pc = "finish" => mem.cursor <= 6)
    BY <2>1, OwedWhen DEF Owes, Owing
  <2>3. CASE Finalize
    <3>1. /\ ckpt' = Published(mem, [NoCall EXCEPT !.action = "finalize", !.step = "finalize"]) /\ opts' = opts
          /\ run.pc = "finish" /\ Goto(mem, IF Succeeded THEN "auditing" ELSE "returned")
      BY <2>3 DEF Finalize, At
    <3>2. run'.pc = "returned"
      BY <1>1, <2>2, <3>1, MemoryFields DEF Goto, Controls, Succeeded
    <3>3. opts.checkpointed => ckpt'.call.action = "finalize"
      <4> DEFINE final == [NoCall EXCEPT !.action = "finalize", !.step = "finalize"]
      <4>1. final.action = "finalize"
        BY <1>1, CallsMade
      <4>2. ckpt' = Published(mem, final)
        BY <3>1
      <4> HIDE DEF final
      <4> QED BY <4>1, <4>2, PublishedFields
    <3> QED BY <3>1, <3>2, <3>3 DEF Owing, Left
  <2>4. CASE WriteResult
    <3>1. run'.pc = "over"
      BY <1>1, <2>2, <2>4 DEF WriteResult, At, Controls
    <3> QED BY <3>1 DEF Owing
  <2> QED BY <1>7, <2>2, <2>3, <2>4 DEF End, PostSuccessStarts, PostSuccessEnds, DeliveryAdvances, DeliveryEnds, At
<1> QED BY <1>1, <1>2, <1>3, <1>4, <1>5, <1>6, <1>7, HeadOwing, ReadyOwing, StepGroups

LEMMA ResumeOwing == RestartInvariant /\ Owing /\ Resume => Owing'
<1> SUFFICES ASSUME RestartInvariant, Owing, Resume, Owes' PROVE Owing'
  BY DEF Owing
<1>1. /\ run.pc = "down" /\ opts.checkpointed
      /\ child'.step = child.step
      /\ child'.status = child.status \/ (child.status = "RUNNING" /\ child'.status = "LOST")
      /\ mem' = ckpt.mem /\ opts' = opts /\ ckpt' = ckpt /\ work' = work /\ run'.pc = "head" /\ life'.used = life.used
      /\ \/ /\ ckpt.call.action = "agent" /\ run'.resumes = ckpt.call.step
            /\ \/ /\ ckpt.call.started /\ child'.status \in Ended /\ run'.recovered = child'
               \/ ~(ckpt.call.started /\ child'.status \in Ended) /\ run'.recovered = NoAnswer
         \/ ckpt.call.action = "none" /\ ~work.changed
  BY ResumedFrom, RestartFacts DEF Lives
<1>2. child'.status = "DONE" /\ child'.status \in Ended /\ Owes
  BY <1>1 DEF Owes, Ended
<1>3. CallLeft \/ Rewound \/ ckpt.call.action = "finalize"
  BY <1>1, <1>2 DEF Owing, Left
<1>4. ckpt.call.action = "agent" /\ ReadyAt(ckpt.mem, ckpt.call.step)
  BY <1>1, <1>3, RestartFacts DEF CallLeft, Rewound, Noted
<1>5. (ReadyAt(mem', ckpt.call.step))
  BY <1>1, <1>4
<1>6. CASE ckpt.call.started
  <2>1. CallLeft
    BY <1>3, <1>4, <1>6 DEF CallLeft, Rewound
  <2>2. run'.recovered = child' /\ run'.resumes = child'.step /\ run'.recovered # NoAnswer
    BY <1>1, <1>2, <1>4, <1>6, <2>1 DEF CallLeft, NoAnswer
  <2>3. CallLeft'
    BY <1>1, <2>1 DEF CallLeft
  <2>4. ReadyAt(mem', child'.step)
    BY <1>1, <1>5, <2>1 DEF CallLeft
  <2>5. Resuming'
    BY <1>1, <2>2, <2>3, <2>4 DEF Resuming, ReadyAt
  <2> QED BY <1>1, <2>5 DEF Owing
<1>7. CASE ~ckpt.call.started
  <2>1. Rewound /\ run'.recovered = NoAnswer /\ ckpt.call.step \in RouteTargets
    BY <1>1, <1>3, <1>4, <1>7 DEF CallLeft, Rewound
  <2>2. Step' = ckpt.call.step
    BY <1>1, <1>4 DEF ReadyAt, Step
  <2>3. Rewound'
    BY <1>1, <2>1 DEF Rewound
  <2>4. Diverting'
    BY <1>1, <1>5, <2>1, <2>2, <2>3 DEF Diverting, ReadyAt
  <2> QED BY <1>1, <2>4 DEF Owing
<1> QED BY <1>6, <1>7

LEMMA RestartOwing == RestartInvariant /\ Owing /\ (Crash \/ Edit \/ RepairOrphan \/ ResumeDelivery \/ RequireRecovery) => Owing'
<1> SUFFICES ASSUME RestartInvariant, Owing, Crash \/ Edit \/ RepairOrphan \/ ResumeDelivery \/ RequireRecovery, Owes'
             PROVE Owing'
  BY DEF Owing
<1>1. run \in Controls /\ work \in Workspaces /\ life \in Lives /\ child \in Answers
  BY RestartFacts
<1>2. CASE RepairOrphan \/ ResumeDelivery \/ RequireRecovery
  <2>1. run'.pc = "over"
    BY <1>1, <1>2 DEF RepairOrphan, ResumeDelivery, RequireRecovery, Controls
  <2> QED BY <2>1 DEF Owing
<1>3. CASE Crash \/ Edit
  <2>1. /\ opts' = opts /\ mem' = mem /\ ckpt' = ckpt /\ child' = child /\ life'.used = life.used
        /\ run'.pc = "down" /\ run.pc # "over"
    BY <1>1, <1>3 DEF Crash, Edit, Lives, Controls
  <2>2. work.changed => work'.changed
    BY <1>1, <1>3 DEF Crash, Edit, Workspaces
  <2>3. Left
    BY <2>1 DEF Owes, Owing, Left, Resuming, Diverting
  <2>4. Left'
    BY <2>1, <2>2, <2>3 DEF Left, CallLeft, Rewound
  <2> QED BY <2>1, <2>4 DEF Owing
<1> QED BY <1>2, <1>3

\* What an edit or a crash leaves of the guarded files.
LEMMA RestartTampers ==
  RestartInvariant /\ TamperingChanges /\ (Crash \/ Edit \/ RepairOrphan \/ Resume \/ ResumeDelivery \/ RequireRecovery)
    => TamperingChanges'
<1> SUFFICES ASSUME RestartInvariant, TamperingChanges, Crash \/ Edit \/ RepairOrphan \/ Resume \/ ResumeDelivery \/ RequireRecovery
             PROVE TamperingChanges'
  OBVIOUS
<1>1. work \in Workspaces
  BY RestartFacts
<1>2. CASE Crash
  BY <1>1, <1>2 DEF Crash, Workspaces, TamperingChanges
<1>3. CASE Edit
  BY <1>1, <1>3 DEF Edit, Workspaces, TamperingChanges
<1>4. CASE ~Crash /\ ~Edit
  BY <1>4 DEF RepairOrphan, Resume, ResumeDelivery, RequireRecovery, TamperingChanges
<1> QED BY <1>2, <1>3, <1>4

OwingInvariant == RestartInvariant /\ TamperingChanges /\ Owing

\* Whatever dies, an answer that no step has taken is in the checkpoint or was overtaken by a rework.
THEOREM OwingInvariance == RSpec => []OwingInvariant
<1>1. RInit => OwingInvariant
  <2>1. RInit => RestartInvariant
    BY RestartsStart
  <2>2. RInit => TamperingChanges /\ Owing
    BY DEF RInit, Init, TamperingChanges, Owing, Owes
  <2> QED BY <2>1, <2>2 DEF OwingInvariant
<1>2. OwingInvariant /\ [RNext]_rvars => OwingInvariant'
  <2> SUFFICES ASSUME OwingInvariant, [RNext]_rvars PROVE OwingInvariant'
    OBVIOUS
  <2>1. RestartInvariant /\ TamperingChanges /\ Owing /\ RestartInvariant'
    BY RestartStep DEF OwingInvariant
  <2>2. CASE UNCHANGED rvars
    <3>1. /\ opts' = opts /\ mem' = mem /\ run' = run /\ ckpt' = ckpt /\ child' = child /\ work' = work /\ life' = life
      BY <2>2 DEF rvars, vars
    <3>2. Owing' = Owing
      BY <3>1 DEF Owing, Owes, CallLeft, Rewound, Resuming, Diverting, Left, ReadyAt, Step
    <3> QED BY <2>1, <3>1, <3>2 DEF OwingInvariant, TamperingChanges
  <2>3. CASE Working
    <3>1. TamperingChanges'
      BY <2>1, <2>3, RestartFacts, WorkGrows DEF Working
    <3> QED BY <2>1, <2>3, <3>1, WorkingOwing DEF OwingInvariant
  <2>4. CASE RNext /\ ~Working
    BY <2>1, <2>4, ResumeOwing, RestartOwing, RestartTampers DEF RNext, OwingInvariant
  <2> QED BY <2>2, <2>3, <2>4
<1> QED BY <1>1, <1>2, PTL DEF RSpec

\* An agent call that completed is not made again, and a violation that was counted stays counted,
\* whenever the process dies: recoverExpiredCheckpoint loses nothing that was achieved.
THEOREM ProgressStays == RSpec => ProgressKept
<1>1. OwingInvariant /\ [RNext]_rvars => [CompletedCallUsed /\ ViolationsKept]_rvars
  <2> SUFFICES ASSUME OwingInvariant, RNext PROVE CompletedCallUsed /\ ViolationsKept
    OBVIOUS
  <2>1. RestartInvariant /\ Owing /\ mem \in Memories
    BY RestartFacts DEF OwingInvariant
  <2>2. CompletedCallUsed
    BY <2>1 DEF CompletedCallUsed, Owing, Owes, Rewound, RouteTargets
  <2>3. ViolationsKept
    <3>1. CASE Working
      BY <2>1, <3>1, RestartFacts, ViolationsGrow DEF Working, ViolationsKept
    <3>2. CASE Resume
      BY <2>1, <3>2, ResumedFrom, RestartFacts, MemoryFields DEF Noted, ViolationsKept
    <3>3. CASE Crash \/ Edit \/ RepairOrphan \/ ResumeDelivery \/ RequireRecovery
      <4>1. mem' = mem
        BY <3>3 DEF Crash, Edit, RepairOrphan, ResumeDelivery, RequireRecovery
      <4> QED BY <2>1, <4>1, MemoryFields DEF ViolationsKept
    <3> QED BY <3>1, <3>2, <3>3 DEF RNext
  <2> QED BY <2>2, <2>3
<1> QED BY <1>1, OwingInvariance, PTL DEF ProgressKept, RSpec

-----------------------------------------------------------------------------
(* Restarts: the reason of a rework survives them. *)

\* How a step changes the published call.
LEMMA PublishedCalls ==
  ASSUME LoopHeld, Surroundings, Noted, opts.checkpointed, Next
  PROVE \/ ckpt' = ckpt
        \/ ckpt'.call.action # "agent"
        \/ run.pc = "step" /\ SameCount /\ Announces
        \/ /\ run.pc = "calling" /\ mem' = mem /\ ckpt'.mem = mem
           /\ ckpt'.call.action = "agent" /\ ckpt'.call.step = Step /\ ckpt'.call.started
           /\ ckpt'.call.input = ckpt.call.input
<1>1. run \in Controls /\ mem \in Memories /\ opts \in Options /\ child \in Answers
  BY DEF LoopHeld, Surroundings, Sound
<1>2. ASSUME NEW m, ckpt' = Published(m, NoCall) PROVE ckpt'.call.action # "agent"
  <2>1. NoCall.action # "agent"
    BY <1>1, CallsMade
  <2> QED BY <1>2, <2>1, PublishedFields
<1>3. ASSUME Silent \/ Recorded(NoCall) PROVE ckpt' = ckpt \/ ckpt'.call.action # "agent"
  BY <1>2, <1>3 DEF Silent, Recorded
<1>4. ASSUME NEW m, NEW a \in Actions \ {"agent"},
             NEW s \in Steps \cup Stages \cup {"verify-baseline", "repro", "verify", "runtime", "team", "post-success"},
             ckpt' = Published(m, Intent(a, s))
      PROVE ckpt'.call.action # "agent"
  <2>1. Intent(a, s).action = a
    BY DEF Intent, NoCall
  <2>2. PICK call : call = Intent(a, s)
    OBVIOUS
  <2>3. call.action # "agent" /\ ckpt' = Published(m, call)
    BY <1>4, <2>1, <2>2
  <2> QED BY <2>3, PublishedFields
<1>5. CASE Abort \/ LoopHead
  BY <1>1, <1>5, HeadShapes DEF Abort, Silent
<1>6. CASE Baseline
  <2>1. CASE Captures \/ Baselined \/ Rebaselines
    BY <1>2, <1>4, <2>1 DEF Captures, Baselined, Rebaselines, Actions
  <2> QED BY <1>1, <1>3, <1>6, <2>1, BaselineShapes DEF Held
<1>7. CASE SkipCicd \/ ReviewHeld \/ SnapshotFails \/ StartStep
  BY <1>1, <1>3, <1>7, ReadyShapes DEF SkipsPlan, Replays
<1>8. CASE CallStarts \/ CallEnds
  <2>1. /\ mem' = mem
        /\ \/ /\ run.pc = "calling"
              /\ ckpt' = Published(mem, [ckpt.call EXCEPT !.started = TRUE, !.before = FALSE])
           \/ ckpt' = ckpt
    BY <1>1, <1>8, CallShapes
  <2>2. CASE run.pc = "calling" /\ ckpt' = Published(mem, [ckpt.call EXCEPT !.started = TRUE, !.before = FALSE])
    <3> DEFINE begun == [ckpt.call EXCEPT !.started = TRUE, !.before = FALSE]
    <3>1. begun.action = ckpt.call.action /\ begun.step = ckpt.call.step /\ begun.started /\ begun.input = ckpt.call.input
      BY <1>1, CallsMade DEF Noted
    <3>2. ckpt' = Published(mem, begun)
      BY <2>2
    <3>3. ckpt.call.action = "agent" /\ ckpt.call.step = Step
      BY <2>2 DEF Noted, CallNamed
    <3> HIDE DEF begun
    <3>4. ckpt'.mem = mem /\ ckpt'.call = begun
      BY <3>2, PublishedFields
    <3> QED BY <2>1, <2>2, <3>1, <3>3, <3>4
  <2> QED BY <2>1, <2>2
<1>9. CASE Answer \/ TestAnswered \/ ReviewShips \/ ReviewRefuses \/ TeamStarts
  <2>1. CASE Reproduces \/ TeamsUp
    BY <1>4, <2>1 DEF Reproduces, TeamsUp, Actions
  <2> QED BY <1>1, <1>3, <1>9, <2>1, AnswerShapes DEF Onwards
<1>10. CASE ReproEnds \/ GateSkipped \/ GateHeld \/ GateStarts \/ VerifyEnds \/ RuntimeEnds
  <2>1. CASE GateOpens
    <3>1. PICK g \in {"verify", "runtime"} : ckpt' = Published(mem', Intent(g, g))
      BY <2>1 DEF GateOpens
    <3>2. g \in Actions \ {"agent"} /\ g \in Steps \cup Stages \cup {"verify-baseline", "repro", "verify", "runtime", "team", "post-success"}
      BY DEF Actions
    <3> QED BY <1>4, <3>1, <3>2
  <2> QED BY <1>1, <1>3, <1>10, <2>1, GateShapes
<1>11. CASE TeamEnds \/ TeamShips \/ TeamReviewRefuses \/ TeamFails
  BY <1>1, <1>3, <1>11, TeamShapes DEF Held, TeamReturns, Reviewed
<1>12. CASE End
  <2>1. CASE Delivers
    <3>1. PICK s \in Stages \cup {"post-success"} : ckpt' = Published(mem, Intent("delivery", s))
      BY <2>1 DEF Delivers
    <3> QED BY <1>4, <3>1 DEF Actions
  <2>2. CASE Closes
    <3>1. ckpt' = ckpt \/ \E call \in {NoCall, [NoCall EXCEPT !.action = "finalize", !.step = "finalize"]} : ckpt' = Published(mem, call)
      BY <2>2 DEF Closes
    <3>2. ASSUME ckpt' # ckpt PROVE ckpt'.call.action # "agent"
      <4>1. PICK call \in {NoCall, [NoCall EXCEPT !.action = "finalize", !.step = "finalize"]} : ckpt' = Published(mem, call)
        BY <3>1, <3>2
      <4>2. call.action # "agent"
        BY <1>1, <4>1, CallsMade
      <4> QED BY <4>1, <4>2, PublishedFields
    <3> QED BY <3>2
  <2> QED BY <1>1, <1>12, <2>1, <2>2, EndShapes
<1> QED BY <1>5, <1>6, <1>7, <1>8, <1>9, <1>10, <1>11, <1>12, StepGroups

\* An answer that a former process left waits for its step, whose call is the published one.
Waits ==
    run.recovered # NoAnswer /\ run.pc \notin {"finish", "auditing", "posting", "returned", "over", "down"} =>
        /\ run.pc \in {"head", "step"} /\ ReadyAt(mem, run.resumes)
        /\ run.recovered.status = child.status /\ run.recovered.out = child.out
        /\ ckpt.call.action = "agent" /\ ckpt.call.started /\ ckpt.call.step = run.resumes
        /\ run.resumes = "review" => ~work.tampered

\* The answer looked at is the child's, and a review is called or heard where nothing is tampered with.
Heard == run.pc = "answered" => run.answer.status = child.status /\ run.answer.out = child.out /\ ckpt.call.started
Clean == ckpt.call.action = "agent" /\ ckpt.call.step = "review" => ~work.tampered

Recalled == Waits /\ Heard /\ Clean

\* What Waits says of a step that is ready, and of the step of a place it is not at.
LEMMA WaitingStep ==
  ASSUME Waits, run.recovered # NoAnswer, run.pc \in {"head", "step"}
  PROVE /\ mem.cursor <= 6 /\ Step = run.resumes /\ Resumed /\ Step \in opts.steps /\ ~CicdUnplanned /\ ~BaselineMissing
        /\ Step = "review" => ~work.tampered
  BY DEF Waits, ReadyAt, Step, Resumed, CicdUnplanned, BaselineMissing

LEMMA CleanKept == ASSUME RestartInvariant, opts.checkpointed, Clean, Next PROVE Clean'
<1> SUFFICES ASSUME ckpt'.call.action = "agent", ckpt'.call.step = "review" PROVE ~work'.tampered
  BY DEF Clean
<1>1. LoopHeld /\ Surroundings /\ Noted /\ CallNamed /\ run \in Controls /\ mem \in Memories /\ opts \in Options /\ work \in Workspaces
  BY RestartFacts DEF Noted
<1>2. work'.tampered => work.tampered \/ Tampers
  BY <1>1, WorkGrows
<1>3. CASE ckpt' = ckpt
  <2>1. ~work.tampered
    BY <1>3 DEF Clean
  <2>2. ~Tampers
    BY <1>1, <1>3 DEF Tampers, CallNamed, Commands, Writers
  <2> QED BY <1>2, <2>1, <2>2
<1>4. CASE run.pc = "step" /\ SameCount /\ Announces
  <2> DEFINE call == [Intent("agent", Step) EXCEPT !.input = InputFor(Counted, Step)]
  <2>1. Step \in Steps /\ Counted \in Memories
    BY <1>1, <1>4, OptionsAssumption, MemoryFields DEF Noted, OptionSet, Counted, Memories
  <2>2. call.step = Step
    <3> HIDE DEF Step
    <3> QED BY <1>1, <2>1, CallsMade
  <2>3. ckpt' = Published(mem', call) /\ (Step = "review" => ~work.tampered)
    BY <1>4 DEF Announces
  <2>4. ~Tampers
    BY <1>4 DEF Tampers
  <2> HIDE DEF call, Step
  <2>5. ckpt'.call = call
    BY <2>3, PublishedFields
  <2> QED BY <1>2, <2>2, <2>3, <2>4, <2>5
<1>5. CASE run.pc = "calling" /\ ckpt'.call.step = Step
  <2>1. ~work.tampered
    BY <1>1, <1>5 DEF Clean, CallNamed
  <2> QED BY <1>2, <1>5, <2>1 DEF Tampers
<1> QED BY <1>1, <1>3, <1>4, <1>5, PublishedCalls

LEMMA RecalledKept == ASSUME RestartInvariant, opts.checkpointed, Recalled, Next PROVE Recalled'
<1>1. /\ LoopHeld /\ Surroundings /\ Noted /\ CallNamed /\ run \in Controls /\ mem \in Memories /\ opts \in Options
      /\ child \in Answers
  BY RestartFacts DEF Noted
<1>2. Clean'
  BY CleanKept DEF Recalled
<1>3. ASSUME run.recovered = NoAnswer \/ run.pc \notin {"head", "step"}, run'.recovered = run.recovered, run'.pc # "answered"
      PROVE Waits' /\ Heard'
  <2>1. CASE run.recovered = NoAnswer
    BY <1>3, <2>1 DEF Waits, Heard
  <2>2. CASE run.recovered # NoAnswer
    <3>1. run.pc \in {"finish", "auditing", "posting", "returned", "over", "down"}
      BY <1>3, <2>2 DEF Recalled, Waits
    <3>2. End \/ Abort
      BY <1>1, <3>1, HeadShapes, BaselineShapes, ReadyShapes, CallShapes, AnswerShapes, GateShapes, TeamShapes, StepGroups
         DEF Captures, Baselined
    <3>3. run'.pc \in {"finish", "auditing", "posting", "returned", "over", "down"}
      BY <1>1, <3>1, <3>2, EndShapes DEF Delivers, Closes, Abort
    <3> QED BY <1>3, <3>3 DEF Waits, Heard
  <2> QED BY <2>1, <2>2
<1>4. CASE Abort
  <2>1. opts' = opts /\ mem' = mem /\ run' = run /\ ckpt' = ckpt /\ child' = child /\ work' = work
    BY <1>4 DEF Abort
  <2> QED BY <1>2, <2>1 DEF Recalled, Waits, Heard, ReadyAt
<1>5. CASE LoopHead
  <2>1. /\ run.pc = "head" /\ SameCall /\ ckpt' = ckpt /\ child' = child /\ work' = work /\ opts' = opts
        /\ Leaves \/ Skips \/ Enters
    BY <1>1, <1>5, HeadShapes, Unmoving DEF Silent
  <2>2. run'.pc # "answered"
    BY <2>1 DEF Leaves, Skips, Enters
  <2>3. CASE run.recovered # NoAnswer
    <3>1. Leaves \/ Enters
      BY <2>1, <2>3, WaitingStep DEF Recalled, Skips
    <3>2. CASE Leaves
      BY <1>2, <2>2, <3>2 DEF Leaves, Recalled, Waits, Heard
    <3>3. CASE Enters
      BY <1>2, <2>1, <2>2, <2>3, <3>3 DEF Enters, Recalled, Waits, Heard, ReadyAt, SameCall
    <3> QED BY <3>1, <3>2, <3>3
  <2> QED BY <1>2, <1>3, <2>1, <2>2, <2>3 DEF Recalled, SameCall
<1>6. CASE Baseline
  <2>1. /\ SameCall /\ run'.pc # "answered" /\ run.pc \in {"step", "baselining"}
        /\ run.pc = "step" => BaselineMissing
    BY <1>1, <1>6, BaselineShapes DEF Captures, Baselined, Rebaselines, Held, Turns, Leaves, Reworks
  <2>2. run.recovered = NoAnswer \/ run.pc # "step"
    BY <2>1, WaitingStep DEF Recalled
  <2> QED BY <1>2, <1>3, <2>1, <2>2 DEF Recalled, SameCall
<1>7. CASE SkipCicd \/ ReviewHeld \/ SnapshotFails \/ StartStep
  <2>1. /\ run.pc = "step" /\ child' = child
        /\ \/ SkipsPlan
           \/ Step = "review" /\ work.tampered /\ Turns
           \/ Leaves
           \/ Replays
           \/ Announces
    BY <1>1, <1>7, ReadyShapes
  <2>2. CASE Replays
    <3>1. ckpt' = ckpt /\ run'.answer = run.recovered /\ run.recovered # NoAnswer /\ run'.recovered = NoAnswer
      BY <2>2 DEF Replays
    <3>2. run.recovered.status = child.status /\ run.recovered.out = child.out /\ ckpt.call.started
      BY <2>1, <3>1 DEF Recalled, Waits
    <3> QED BY <1>2, <2>1, <3>1, <3>2 DEF Recalled, Waits, Heard
  <2>3. CASE ~Replays /\ run.recovered # NoAnswer
    <3>1. Leaves
      BY <2>1, <2>3, WaitingStep DEF Recalled, SkipsPlan, Announces
    <3> QED BY <1>2, <3>1 DEF Leaves, Recalled, Waits, Heard
  <2>4. CASE ~Replays /\ run.recovered = NoAnswer
    <3>1. run'.recovered = run.recovered /\ run'.pc # "answered"
      BY <2>1, <2>4 DEF SkipsPlan, Turns, Leaves, Reworks, Announces, SameCall
    <3> QED BY <1>2, <1>3, <2>4, <3>1 DEF Recalled
  <2> QED BY <2>2, <2>3, <2>4
<1>8. CASE CallStarts \/ CallEnds
  <2>1. /\ run.pc \in {"calling", "working"}
        /\ run.recovered = NoAnswer => run'.recovered = NoAnswer
        /\ run'.pc = "answered" => run'.answer = child'
        /\ run.pc = "working" => ckpt' = ckpt
        /\ run.pc = "calling" => ckpt' = Published(mem, [ckpt.call EXCEPT !.started = TRUE, !.before = FALSE])
    BY <1>1, <1>8, CallShapes
  <2>2. run.recovered = NoAnswer
    BY <2>1 DEF Recalled, Waits
  <2>3. ckpt'.call.started
    <3>1. CASE run.pc = "working"
      BY <1>1, <2>1, <3>1 DEF CallNamed
    <3>2. CASE run.pc = "calling"
      <4> DEFINE begun == [ckpt.call EXCEPT !.started = TRUE, !.before = FALSE]
      <4>1. begun.started /\ ckpt' = Published(mem, begun)
        BY <1>1, <2>1, <3>2, CallsMade DEF Noted
      <4> HIDE DEF begun
      <4> QED BY <4>1, PublishedFields
    <3> QED BY <2>1, <3>1, <3>2
  <2> QED BY <1>2, <2>1, <2>2, <2>3 DEF Recalled, Waits, Heard
<1>9. CASE Answer \/ TestAnswered \/ ReviewShips \/ ReviewRefuses \/ TeamStarts
  <2>1. run.pc = "answered" /\ run'.pc # "answered" /\ SameCall
    BY <1>1, <1>9, AnswerShapes DEF Turns, Leaves, Reworks, Onwards, Passes, Reproduces, TeamsUp
  <2> QED BY <1>2, <1>3, <2>1 DEF Recalled, SameCall
<1>10. CASE ReproEnds \/ GateSkipped \/ GateHeld \/ GateStarts \/ VerifyEnds \/ RuntimeEnds
  <2>1. run.pc \notin {"head", "step"} /\ run'.pc # "answered" /\ SameCall
    BY <1>1, <1>10, GateShapes DEF Leaves, Reworks, Passes, GateOpens
  <2> QED BY <1>2, <1>3, <2>1 DEF Recalled, SameCall
<1>11. CASE TeamEnds \/ TeamShips \/ TeamReviewRefuses \/ TeamFails
  <2>1. run.pc \notin {"head", "step"} /\ run'.pc # "answered" /\ SameCall
    BY <1>1, <1>11, TeamShapes DEF Held, Turns, Leaves, Reworks, TeamReturns, Reviewed
  <2> QED BY <1>2, <1>3, <2>1 DEF Recalled, SameCall
<1>12. CASE End
  <2>1. run.pc \notin {"head", "step"} /\ run'.pc # "answered" /\ SameCall
    BY <1>1, <1>12, EndShapes DEF Delivers, Closes
  <2> QED BY <1>2, <1>3, <2>1 DEF Recalled, SameCall
<1> QED BY <1>4, <1>5, <1>6, <1>7, <1>8, <1>9, <1>10, <1>11, <1>12, StepGroups

\* The reason of the last rework: in the memory of a step that the rework chose, or to be given again
\* by the answer of a former process.
Fresh == mem.feedback = life.owed /\ mem.cursor <= 6 /\ Step \in RouteTargets \cap opts.steps /\ run.recovered = NoAnswer
Pending == run.recovered # NoAnswer /\ (run.recovered.status = "DONE" => run.recovered.out \in RouteTargets)

\* A restart finds it where the published call is made again, or in its answer.
Restartable ==
    ckpt.call.action = "agent" =>
        /\ ckpt.call.started /\ child.status = "DONE" => child.out \in RouteTargets
        /\ ~(ckpt.call.started /\ child.status \in Ended) => ckpt.mem.feedback = life.owed /\ ckpt.call.step \in RouteTargets

Owed ==
    life.owed # "none" =>
        /\ run.pc \notin {"verify", "verifying", "runtime", "probing", "team", "reviews", "auditing", "posting"}
        /\ run.pc \in {"head", "step", "baselining"} => Fresh \/ Pending
        /\ run.pc \in {"calling", "working"} => <<"feedback", life.owed>> \in ckpt.call.input
        /\ run.pc = "answered" /\ run.answer.status = "DONE" => run.answer.out \in RouteTargets
        /\ run.pc = "reproducing" => run.answer.out \in RouteTargets
        /\ run.pc = "finish" => mem.cursor <= 6
        /\ Restartable

Remembered == ~life.edited /\ opts.checkpointed => Recalled /\ Owed

\* How a step of the workflow changes what is owed.
LEMMA OwedMoves ==
  ASSUME RestartInvariant, Working
  PROVE /\ life'.edited = life.edited
        /\ mem'.routes > mem.routes /\ run.pc # "working" => life'.owed = mem'.feedback
        /\ ~(mem'.routes > mem.routes) /\ run.pc = "working" => life'.owed = "none"
        /\ ~(mem'.routes > mem.routes) /\ run.pc # "working" => life'.owed = life.owed
<1> DEFINE u == CASE run.pc = "calling" /\ run'.pc # "calling" -> FALSE
                  [] run.pc = "answered" /\ run'.pc # "answered" -> TRUE
                  [] OTHER -> life.used
<1> DEFINE o == CASE mem'.routes > mem.routes -> mem'.feedback
                  [] run.pc = "working" -> "none"
                  [] OTHER -> life.owed
<1>1. life' = [life EXCEPT !.used = u, !.owed = o]
  BY DEF Working
<1>2. /\ mem'.routes > mem.routes /\ run.pc # "working" => o = mem'.feedback
      /\ ~(mem'.routes > mem.routes) /\ run.pc = "working" => o = "none"
      /\ ~(mem'.routes > mem.routes) /\ run.pc # "working" => o = life.owed
  OBVIOUS
<1> HIDE DEF u, o
<1>3. life'.edited = life.edited /\ life'.owed = o
  BY <1>1, RestartFacts DEF Lives
<1> QED BY <1>2, <1>3

\* A step that neither reworks nor ends a call, and leaves the call or publishes none.
LEMMA RestartableKept ==
  ASSUME RestartInvariant, opts.checkpointed, Restartable, Next, life'.owed = life.owed, child' = child,
         ~(run.pc = "step" /\ SameCount /\ Announces), run.pc # "calling"
  PROVE Restartable'
<1>1. ckpt' = ckpt \/ ckpt'.call.action # "agent"
  BY PublishedCalls, RestartFacts
<1> QED BY <1>1 DEF Restartable

\* A rework starts afresh.
LEMMA ReworkOwed ==
  ASSUME RestartInvariant, Recalled, Working, Reworks, run.recovered = NoAnswer, run.pc # "working", Restartable'
  PROVE Owed'
<1>1. /\ mem \in Memories /\ run'.pc = "head" /\ mem'.routes = mem.routes + 1 /\ run'.recovered = NoAnswer
      /\ mem'.cursor <= 6 /\ Step' \in RouteTargets \cap opts.steps
  BY RestartFacts DEF Reworks, SameCall
<1>2. life'.owed = mem'.feedback
  BY <1>1, OwedMoves, MemoryFields
<1>3. opts' = opts
  BY Unmoving DEF Working
<1>4. Fresh'
  BY <1>1, <1>2, <1>3 DEF Fresh
<1> QED BY <1>1, <1>4 DEF Owed

\* Nothing is owed where a command, a gate or a team has run, or its reason is published with no call.
LEMMA LeavesOwed ==
  ASSUME RestartInvariant, opts.checkpointed, Working, Owed, Leaves, life.owed # "none", run.pc # "working",
         run.pc # "head" \/ mem.cursor <= 6, run.pc \in InLoop \cup {"head"}, child' = child, run.pc # "calling"
  PROVE Owed'
<1>1. /\ run'.pc \in {"finish", "returned"} /\ mem'.routes = mem.routes /\ mem'.cursor = mem.cursor /\ mem.cursor <= 6
      /\ mem \in Memories
  BY RestartFacts DEF Leaves, LoopHeld
<1>2. life'.owed = life.owed
  BY <1>1, OwedMoves, MemoryFields
<1>3. Restartable'
  BY <1>1, <1>2, RestartableKept DEF Owed, Working, Announces
<1> QED BY <1>1, <1>3 DEF Owed

LEMMA UnowedKept ==
  ASSUME RestartInvariant, Working, life.owed = "none", mem'.routes = mem.routes
  PROVE Owed'
<1>1. life'.owed = "none"
  BY OwedMoves, RestartFacts, MemoryFields
<1> QED BY <1>1 DEF Owed

\* The published call after a rework: none, a command, or the call that asked for it.
LEMMA ReworkRestartable ==
  ASSUME RestartInvariant, opts.checkpointed, opts' = opts, Recalled, child' = child,
         \/ Recorded(NoCall)
         \/ Silent /\ run.pc = "answered" /\ run.answer.status = "DONE" /\ run.answer.out \in RouteTargets
         \/ Silent /\ (run.pc \in Commands \/ (run.pc \in TeamPlaces /\ run.team # "no"))
  PROVE Restartable'
<1>1. CASE Recorded(NoCall)
  <2>1. ckpt'.call.action # "agent"
    BY <1>1, RestartFacts, RecordedNotes
  <2> QED BY <2>1 DEF Restartable
<1>2. CASE Silent /\ run.pc = "answered" /\ run.answer.status = "DONE" /\ run.answer.out \in RouteTargets
  <2>1. child.status = "DONE" /\ child.out \in RouteTargets /\ ckpt.call.started /\ ckpt' = ckpt
    BY <1>2 DEF Recalled, Heard, Silent
  <2> QED BY <2>1 DEF Restartable, Ended
<1>3. CASE Silent /\ (run.pc \in Commands \/ (run.pc \in TeamPlaces /\ run.team # "no"))
  <2>1. ckpt.call.action # "agent"
    BY <1>3, RestartFacts DEF Noted, CallNamed
  <2> QED BY <1>3, <2>1 DEF Restartable, Silent
<1> QED BY <1>1, <1>2, <1>3

LEMMA HeadOwed ==
  RestartInvariant /\ opts.checkpointed /\ Recalled /\ Owed /\ Working /\ (LoopHead \/ Baseline) => Owed'
<1> SUFFICES ASSUME RestartInvariant, opts.checkpointed, Recalled, Owed, Working, LoopHead \/ Baseline PROVE Owed'
  OBVIOUS
<1>1. run \in Controls /\ opts \in Options /\ mem \in Memories /\ LoopHeld /\ Next /\ opts' = opts
  BY RestartFacts, Unmoving DEF Working
<1>2. CASE LoopHead
  <2>1. /\ run.pc = "head" /\ SameCall /\ ckpt' = ckpt /\ child' = child /\ mem'.routes = mem.routes
        /\ Leaves \/ Skips \/ Enters
    BY <1>1, <1>2, HeadShapes DEF Silent
  <2>2. CASE life.owed # "none"
    <3>1. Fresh \/ Pending
      BY <2>1, <2>2 DEF Owed
    <3>2. mem.cursor <= 6 /\ Step \in opts.steps
      BY <2>1, <3>1, WaitingStep DEF Fresh, Pending, Recalled
    <3>3. CASE Leaves
      BY <2>1, <2>2, <3>2, <3>3, LeavesOwed
    <3>4. CASE Enters
      <4>1. run'.pc = "step" /\ mem' = mem /\ life'.owed = life.owed
        BY <1>1, <2>1, <3>4, OwedMoves, MemoryFields DEF Enters
      <4>2. Restartable'
        BY <1>1, <2>1, <2>2, <4>1, RestartableKept DEF Owed
      <4>3. (Fresh \/ Pending)'
        BY <1>1, <2>1, <3>1, <4>1 DEF Fresh, Pending, SameCall, Step
      <4> QED BY <4>1, <4>2, <4>3 DEF Owed
    <3> QED BY <2>1, <3>2, <3>3, <3>4 DEF Skips
  <2> QED BY <2>1, <2>2, UnowedKept
<1>3. CASE Baseline
  <2>1. child' = child
    BY <1>3 DEF Baseline, CaptureFails, CaptureBaseline, BaselineEnds
  <2>2. \/ Captures \/ Baselined \/ (run.pc = "baselining" /\ Rebaselines)
        \/ (Held /\ (run.pc = "baselining" \/ (run.pc = "step" /\ BaselineMissing /\ Leaves /\ Silent)))
    BY <1>1, <1>3, BaselineShapes
  <2>3. run.recovered = NoAnswer \/ run.pc \notin {"step", "baselining"} 
    <3>1. run.pc = "step" => BaselineMissing
      BY <2>2 DEF Captures, Baselined
    <3> QED BY <3>1, WaitingStep DEF Recalled, Waits
  <2>4. CASE Captures \/ Baselined
    <3>1. /\ run.pc \in {"step", "baselining"} /\ run'.pc \in {"step", "baselining"} /\ mem'.routes = mem.routes
          /\ mem'.feedback = mem.feedback /\ mem'.cursor = mem.cursor /\ SameCall
      BY <1>1, <2>4 DEF Captures, Baselined, Memories
    <3>2. CASE life.owed # "none"
      <4>1. life'.owed = life.owed
        BY <1>1, <3>1, OwedMoves, MemoryFields
      <4>2. Restartable'
        BY <1>1, <2>1, <3>1, <3>2, <4>1, RestartableKept DEF Owed, Announces
      <4>3. Fresh
        BY <2>3, <3>1, <3>2 DEF Owed, Pending
      <4>4. Fresh'
        BY <1>1, <3>1, <4>1, <4>3 DEF Fresh, SameCall, Step
      <4> QED BY <3>1, <4>2, <4>4 DEF Owed
    <3> QED BY <3>1, <3>2, UnowedKept
  <2>5. CASE Leaves /\ run.pc \in {"step", "baselining"}
    <3>1. mem'.routes = mem.routes
      BY <2>5 DEF Leaves
    <3> QED BY <2>1, <2>5, <3>1, LeavesOwed, UnowedKept DEF InLoop, Places
  <2>6. CASE Reworks /\ Held /\ run.pc = "baselining"
    <3>1. Restartable'
      BY <1>1, <2>1, <2>6, ReworkRestartable DEF Held, Commands
    <3> QED BY <2>3, <2>6, <3>1, ReworkOwed
  <2>7. CASE Rebaselines /\ run.pc = "baselining"
    <3>1. Reworks /\ ckpt' = Published(mem', NoCall)
      BY <2>7 DEF Rebaselines
    <3>2. ckpt'.call.action # "agent"
      <4>1. NoCall.action # "agent"
        BY <1>1, CallsMade
      <4> QED BY <3>1, <4>1, PublishedFields
    <3> QED BY <2>3, <2>7, <3>1, <3>2, ReworkOwed DEF Restartable
  <2> QED BY <2>2, <2>4, <2>5, <2>6, <2>7 DEF Held, Turns
<1> QED BY <1>2, <1>3

LEMMA ReadyOwed ==
  RestartInvariant /\ opts.checkpointed /\ Recalled /\ Owed /\ Working /\ (SkipCicd \/ ReviewHeld \/ SnapshotFails \/ StartStep)
    => Owed'
<1> SUFFICES ASSUME RestartInvariant, opts.checkpointed, Recalled, Owed, Working, SkipCicd \/ ReviewHeld \/ SnapshotFails \/ StartStep
             PROVE Owed'
  OBVIOUS
<1>1. run \in Controls /\ opts \in Options /\ mem \in Memories /\ LoopHeld /\ Next /\ opts' = opts /\ mem.cursor \in Nat
  BY RestartFacts, Unmoving, MemoryFields DEF Working
<1>2. /\ run.pc = "step" /\ ~BaselineMissing /\ child' = child
      /\ \/ SkipsPlan
         \/ Step = "review" /\ work.tampered /\ Turns /\ Recorded(NoCall)
         \/ Leaves /\ Silent
         \/ SameCount /\ (Replays \/ Announces)
  BY <1>1, ReadyShapes
<1>3. mem.cursor <= 6
  BY <1>1, <1>2 DEF LoopHeld, InLoop, Places
<1>4. life.owed # "none" => Fresh \/ Pending
  BY <1>2 DEF Owed
<1>5. CASE SkipsPlan
  <2>1. life.owed = "none"
    BY <1>2, <1>4, <1>5, WaitingStep DEF SkipsPlan, Fresh, Pending, Recalled, CicdUnplanned, RouteTargets
  <2>2. mem'.routes = mem.routes
    BY <1>1, <1>5 DEF SkipsPlan, Memories
  <2> QED BY <2>1, <2>2, UnowedKept
<1>6. CASE Leaves
  <2>1. mem'.routes = mem.routes
    BY <1>6 DEF Leaves
  <2> QED BY <1>2, <1>3, <1>6, <2>1, LeavesOwed, UnowedKept DEF InLoop, Places
<1>7. CASE Step = "review" /\ work.tampered /\ Reworks /\ Recorded(NoCall)
  <2>1. run.recovered = NoAnswer
    BY <1>2, <1>7, WaitingStep DEF Recalled
  <2>2. Restartable'
    BY <1>1, <1>2, <1>7, ReworkRestartable
  <2> QED BY <1>2, <1>7, <2>1, <2>2, ReworkOwed
<1>8. CASE SameCount /\ Replays
  <2>1. /\ mem'.routes = mem.routes /\ run'.pc = "answered" /\ ckpt' = ckpt /\ run'.answer = run.recovered
        /\ run.recovered # NoAnswer
    BY <1>8 DEF SameCount, Replays
  <2>2. CASE life.owed # "none"
    <3>1. life'.owed = life.owed
      BY <1>1, <1>2, <2>1, OwedMoves, MemoryFields
    <3>2. Pending
      BY <1>4, <2>1, <2>2 DEF Fresh
    <3>3. Restartable'
      BY <1>2, <2>1, <2>2, <3>1 DEF Owed, Restartable
    <3> QED BY <2>1, <3>2, <3>3 DEF Owed, Pending
  <2> QED BY <2>1, <2>2, UnowedKept
<1>9. CASE SameCount /\ Announces
  <2> DEFINE call == [Intent("agent", Step) EXCEPT !.input = InputFor(Counted, Step)]
  <2>1. mem'.routes = mem.routes /\ run'.pc = "calling" /\ ckpt' = Published(mem', call) /\ mem'.feedback = mem.feedback
    BY <1>9 DEF SameCount, Announces
  <2>2. CASE life.owed # "none"
    <3>1. life'.owed = life.owed
      BY <1>1, <1>2, <2>1, OwedMoves, MemoryFields
    <3>2. Fresh
      BY <1>2, <1>4, <1>9, <2>2, WaitingStep DEF Pending, Announces, Recalled
    <3>3. Step \in Steps /\ Counted \in Memories /\ Counted.feedback = mem.feedback
      BY <1>1, <3>2, StepsAre, MemoryFields DEF Fresh, RouteTargets, Counted, Memories
    <3>4. call.action = "agent" /\ call.step = Step /\ ~call.started /\ call.input = InputFor(Counted, Step)
      <4> HIDE DEF Step
      <4> QED BY <1>1, <3>3, CallsMade
    <3>5. <<"feedback", life.owed>> \in call.input
      BY <2>2, <3>2, <3>3, <3>4 DEF Fresh, InputFor
    <3> HIDE DEF call
    <3>6. ckpt'.call = call /\ ckpt'.mem = mem'
      BY <2>1, PublishedFields
    <3>7. Restartable'
      BY <2>1, <3>1, <3>2, <3>4, <3>6 DEF Restartable, Fresh
    <3> QED BY <2>1, <3>1, <3>5, <3>6, <3>7 DEF Owed
  <2> QED BY <2>1, <2>2, UnowedKept
<1> QED BY <1>2, <1>5, <1>6, <1>7, <1>8, <1>9 DEF Turns

LEMMA CallOwed == RestartInvariant /\ opts.checkpointed /\ Recalled /\ Owed /\ Working /\ (CallStarts \/ CallEnds) => Owed'
<1> SUFFICES ASSUME RestartInvariant, opts.checkpointed, Recalled, Owed, Working, CallStarts \/ CallEnds PROVE Owed'
  OBVIOUS
<1>1. run \in Controls /\ child \in Answers /\ mem \in Memories /\ LoopHeld /\ Surroundings /\ Noted /\ CallNamed /\ Next
  BY RestartFacts DEF Working, Noted
<1>2. /\ mem' = mem
      /\ \/ /\ run.pc = "calling" /\ run'.pc \in {"working", "answered"}
            /\ child'.status = IF run'.pc = "working" THEN "RUNNING" ELSE "BLOCKED"
            /\ run'.pc = "answered" => run'.answer = child'
            /\ ckpt' = Published(mem, [ckpt.call EXCEPT !.started = TRUE, !.before = FALSE])
         \/ run.pc = "working"
  BY <1>1, CallShapes
<1>3. ~(mem'.routes > mem.routes) /\ mem'.routes = mem.routes
  BY <1>1, <1>2, MemoryFields
<1>4. CASE run.pc = "working"
  <2>1. life'.owed = "none"
    BY <1>3, <1>4, OwedMoves
  <2> QED BY <2>1 DEF Owed
<1>5. CASE run.pc = "calling" /\ life.owed # "none"
  <2> DEFINE begun == [ckpt.call EXCEPT !.started = TRUE, !.before = FALSE]
  <2>1. life'.owed = life.owed
    BY <1>3, <1>5, OwedMoves
  <2>2. begun.started /\ begun.step = ckpt.call.step /\ begun.input = ckpt.call.input /\ ckpt' = Published(mem, begun)
    <3>1. begun.started /\ begun.step = ckpt.call.step /\ begun.input = ckpt.call.input
      BY <1>1, RestartFacts, CallsMade DEF Noted
    <3>2. ckpt' = Published(mem, begun)
      BY <1>2, <1>5
    <3> QED BY ONLY <3>1, <3>2
  <2>3. /\ run'.pc \in {"working", "answered"} /\ child'.status = IF run'.pc = "working" THEN "RUNNING" ELSE "BLOCKED"
        /\ run'.pc = "answered" => run'.answer.status = "BLOCKED"
    BY <1>2, <1>5
  <2>4. ckpt.mem = mem /\ ckpt.call.action = "agent" /\ ~ckpt.call.started
    BY <1>1, <1>5 DEF CallNamed
  <2> HIDE DEF begun
  <2>5. ckpt'.call = begun /\ ckpt'.mem = mem
    BY <2>2, PublishedFields
  <2>6. <<"feedback", life.owed>> \in ckpt.call.input /\ ckpt.mem.feedback = life.owed /\ ckpt.call.step \in RouteTargets
    BY <1>5, <2>4 DEF Owed, Restartable
  <2>7. Restartable'
    BY <2>1, <2>2, <2>3, <2>4, <2>5, <2>6 DEF Restartable
  <2> QED BY <2>1, <2>2, <2>3, <2>5, <2>6, <2>7 DEF Owed
<1> QED BY <1>2, <1>3, <1>4, <1>5, UnowedKept

LEMMA AnswerOwed ==
  RestartInvariant /\ opts.checkpointed /\ Recalled /\ Owed /\ Working
    /\ (Answer \/ TestAnswered \/ ReviewShips \/ ReviewRefuses \/ TeamStarts) => Owed'
<1> SUFFICES ASSUME RestartInvariant, opts.checkpointed, Recalled, Owed, Working,
                    Answer \/ TestAnswered \/ ReviewShips \/ ReviewRefuses \/ TeamStarts
             PROVE Owed'
  OBVIOUS
<1>1. opts \in Options /\ mem \in Memories /\ LoopHeld /\ Next /\ opts' = opts
  BY RestartFacts, Unmoving DEF Working
<1>2. /\ run.pc = "answered" /\ child' = child
      /\ \/ Leaves /\ (Silent \/ Recorded(NoCall))
         \/ Reworks /\ Recorded(NoCall)
         \/ run.answer.status = "DONE" /\ run.answer.out \in RouteTargets /\ Turns /\ Silent
         \/ run.answer.status = "DONE" /\ run.answer.out \notin RouteTargets /\ Onwards
         \/ run.answer.status = "DONE" /\ run.answer.out = "pass" /\ Passes /\ Silent
         \/ run.answer.status = "DONE" /\ Reproduces
         \/ run.answer.status = "DONE" /\ run.answer.out = "team" /\ TeamsUp
  BY <1>1, AnswerShapes
<1>3. run.recovered = NoAnswer
  BY <1>2 DEF Recalled, Waits
<1>4. "pass" \notin RouteTargets /\ "team" \notin RouteTargets
  BY DEF RouteTargets
<1>5. CASE Leaves
  <2>1. mem'.routes = mem.routes
    BY <1>5 DEF Leaves
  <2> QED BY <1>2, <1>5, <2>1, LeavesOwed, UnowedKept DEF InLoop, Places
<1>6. CASE Reworks /\ (Recorded(NoCall) \/ (Silent /\ run.answer.status = "DONE" /\ run.answer.out \in RouteTargets))
  <2>1. Restartable'
    BY <1>1, <1>2, <1>6, ReworkRestartable
  <2> QED BY <1>2, <1>3, <1>6, <2>1, ReworkOwed
<1>7. CASE run.answer.status = "DONE" /\ run.answer.out \notin RouteTargets /\ mem'.routes = mem.routes
  <2>1. life.owed = "none"
    BY <1>2, <1>7 DEF Owed
  <2> QED BY <1>7, <2>1, UnowedKept
<1>8. CASE run.answer.status = "DONE" /\ Reproduces
  <2>1. run'.pc = "reproducing" /\ run'.answer = run.answer /\ mem'.routes = mem.routes
    BY <1>8 DEF Reproduces, SameCall
  <2>2. CASE life.owed # "none"
    <3>1. life'.owed = life.owed
      BY <1>1, <1>2, <2>1, OwedMoves, MemoryFields
    <3>2. Restartable'
      BY <1>1, <1>2, <2>2, <3>1, RestartableKept DEF Owed
    <3> QED BY <1>2, <1>8, <2>1, <2>2, <3>2 DEF Owed
  <2> QED BY <2>1, <2>2, UnowedKept
<1> QED BY <1>2, <1>4, <1>5, <1>6, <1>7, <1>8 DEF Turns, Onwards, Passes, TeamsUp

LEMMA GateOwed ==
  RestartInvariant /\ opts.checkpointed /\ Recalled /\ Owed /\ Working
    /\ (ReproEnds \/ GateSkipped \/ GateHeld \/ GateStarts \/ VerifyEnds \/ RuntimeEnds
        \/ TeamEnds \/ TeamShips \/ TeamReviewRefuses \/ TeamFails) => Owed'
<1> SUFFICES ASSUME RestartInvariant, opts.checkpointed, Recalled, Owed, Working,
                    ReproEnds \/ GateSkipped \/ GateHeld \/ GateStarts \/ VerifyEnds \/ RuntimeEnds
                    \/ TeamEnds \/ TeamShips \/ TeamReviewRefuses \/ TeamFails
             PROVE Owed'
  OBVIOUS
<1>1. opts \in Options /\ mem \in Memories /\ LoopHeld /\ Surroundings /\ Noted /\ Next /\ opts' = opts
  BY RestartFacts, Unmoving DEF Working
<1>2. /\ run.pc \in {"reproducing", "verify", "verifying", "runtime", "probing", "team", "reviews"} /\ child' = child
      /\ \/ Leaves /\ (Silent \/ Recorded(NoCall))
         \/ Reworks /\ (Recorded(NoCall) \/ (run.pc \notin {"verify", "runtime"} /\ Silent))
         \/ Passes /\ (run.pc = "reproducing" => run.answer.out = "pass")
         \/ run.pc # "reproducing" /\ mem'.routes = mem.routes
  BY <1>1, GateShapes, TeamShapes DEF Turns, Held, GateOpens, TeamReturns, Reviewed
<1>3. run.recovered = NoAnswer
  BY <1>2 DEF Recalled, Waits
<1>4. life.owed # "none" => run.pc = "reproducing"
  BY <1>2 DEF Owed
<1>5. CASE Leaves
  <2>1. mem'.routes = mem.routes
    BY <1>5 DEF Leaves
  <2> QED BY <1>2, <1>5, <2>1, LeavesOwed, UnowedKept DEF InLoop, Places
<1>6. CASE Reworks /\ (Recorded(NoCall) \/ (run.pc \notin {"verify", "runtime"} /\ Silent))
  <2>1. run.pc = "reviews" => run.team # "no"
    BY <1>1 DEF Noted
  <2>2. Restartable'
    BY <1>1, <1>2, <1>6, <2>1, ReworkRestartable DEF Commands, TeamPlaces
  <2> QED BY <1>2, <1>3, <1>6, <2>2, ReworkOwed
<1>7. CASE \/ Passes /\ (run.pc = "reproducing" => run.answer.out = "pass")
           \/ run.pc # "reproducing" /\ mem'.routes = mem.routes
  <2>1. life.owed = "none"
    BY <1>4, <1>7 DEF Owed, RouteTargets
  <2> QED BY <1>7, <2>1, UnowedKept DEF Passes
<1> QED BY <1>2, <1>5, <1>6, <1>7

LEMMA EndOwed == RestartInvariant /\ opts.checkpointed /\ Recalled /\ Owed /\ Working /\ End => Owed'
<1> SUFFICES ASSUME RestartInvariant, opts.checkpointed, Recalled, Owed, Working, End PROVE Owed'
  OBVIOUS
<1>1. run \in Controls /\ mem \in Memories /\ Next /\ opts' = opts
  BY RestartFacts, Unmoving DEF Working
<1>2. run.pc \in {"finish", "auditing", "posting", "returned"} /\ child' = child /\ mem' = mem
  BY <1>1, EndShapes
<1>3. CASE life.owed # "none"
  <2>1. life'.owed = life.owed
    BY <1>1, <1>2, OwedMoves, MemoryFields
  <2>2. Restartable'
    BY <1>1, <1>2, <1>3, <2>1, RestartableKept DEF Owed
  <2>3. run.pc \in {"finish", "returned"} /\ (run.pc = "finish" => mem.cursor <= 6)
    BY <1>2, <1>3 DEF Owed
  <2>4. run'.pc \in {"returned", "over"}
    <3>1. CASE Finalize
      <4>1. ~Succeeded
        BY <1>1, <2>3, <3>1, MemoryFields DEF Finalize, At, Succeeded
      <4> QED BY <1>1, <3>1, <4>1 DEF Finalize, Goto, Controls
    <3>2. CASE WriteResult
      BY <1>1, <2>3, <3>2, RestartFacts DEF WriteResult, At, Controls
    <3> QED BY <2>3, <3>1, <3>2 DEF End, PostSuccessStarts, PostSuccessEnds, DeliveryAdvances, DeliveryEnds, At
  <2> QED BY <2>2, <2>4 DEF Owed
<1> QED BY <1>2, <1>3, UnowedKept

LEMMA WorkingRemembered == RestartInvariant /\ Remembered /\ Working => Remembered'
<1> SUFFICES ASSUME RestartInvariant, Remembered, Working, ~life'.edited, opts'.checkpointed PROVE Recalled' /\ Owed'
  BY DEF Remembered
<1>1. Next /\ opts' = opts /\ life'.edited = life.edited /\ mem \in Memories
  BY Unmoving, OwedMoves, RestartFacts DEF Working
<1>2. opts.checkpointed /\ Recalled /\ Owed
  BY <1>1 DEF Remembered
<1>3. Recalled'
  BY <1>1, <1>2, RecalledKept
<1>4. CASE Abort
  <2>1. mem' = mem /\ run' = run /\ ckpt' = ckpt /\ child' = child
    BY <1>4 DEF Abort
  <2>2. ~(mem'.routes > mem.routes)
    BY <1>1, <2>1, MemoryFields
  <2>3. CASE run.pc = "working"
    BY <1>3, <2>2, <2>3, OwedMoves DEF Owed
  <2>4. CASE run.pc # "working"
    <3>1. life'.owed = life.owed
      BY <2>2, <2>4, OwedMoves
    <3>2. (Fresh \/ Pending)' <=> (Fresh \/ Pending)
      BY <1>1, <2>1, <3>1 DEF Fresh, Pending, Step
    <3>3. Restartable' <=> Restartable
      BY <2>1, <3>1 DEF Restartable
    <3> QED BY <1>2, <1>3, <2>1, <2>4, <3>1, <3>2, <3>3 DEF Owed
  <2> QED BY <2>3, <2>4
<1>5. CASE ~Abort
  BY <1>1, <1>2, <1>3, <1>5, StepGroups, HeadOwed, ReadyOwed, CallOwed, AnswerOwed, GateOwed, EndOwed
<1> QED BY <1>3, <1>4, <1>5

LEMMA ResumeRemembered == RestartInvariant /\ Remembered /\ Resume => Remembered'
<1> SUFFICES ASSUME RestartInvariant, Remembered, Resume, ~life'.edited PROVE Recalled' /\ Owed'
  BY DEF Remembered
<1>1. /\ opts.checkpointed /\ opts' = opts /\ mem' = ckpt.mem /\ ckpt' = ckpt /\ work' = work /\ child' \in Answers
      /\ run'.pc = "head" /\ child'.out = child.out
      /\ child'.status = child.status \/ (child.status = "RUNNING" /\ child'.status = "LOST")
      /\ life' = [life EXCEPT !.edit = "none", !.owed = IF ckpt.call.action = "none" THEN "none" ELSE @]
      /\ \/ /\ ckpt.call.action = "agent" /\ run'.resumes = ckpt.call.step
            /\ \/ ckpt.call.started /\ child'.status \in Ended /\ run'.recovered = child'
               \/ ~(ckpt.call.started /\ child'.status \in Ended) /\ run'.recovered = NoAnswer
         \/ ckpt.call.action = "none" /\ run'.recovered = NoAnswer
  BY ResumedFrom
<1>2. life'.edited = life.edited /\ life'.owed = (IF ckpt.call.action = "none" THEN "none" ELSE life.owed)
  <2> DEFINE owed == IF ckpt.call.action = "none" THEN "none" ELSE life.owed
  <2>1. life' = [life EXCEPT !.edit = "none", !.owed = owed]
    BY <1>1
  <2> HIDE DEF owed
  <2>2. life'.edited = life.edited /\ life'.owed = owed
    BY <2>1, RestartFacts DEF Lives
  <2> QED BY <2>2 DEF owed
<1>3. Recalled /\ Owed
  BY <1>1, <1>2 DEF Remembered
<1>4. ckpt.call.action = "agent" => ReadyAt(ckpt.mem, ckpt.call.step) /\ ReadyAt(mem, ckpt.call.step)'
  BY <1>1, RestartFacts DEF Noted, ReadyAt
<1>5. Clean' /\ Heard'
  BY <1>1, <1>3 DEF Recalled, Clean, Heard
<1>6. Waits'
  <2>1. (ReadyAt(mem, run.resumes))' <=> ReadyAt(ckpt.mem, run'.resumes)
    BY <1>1 DEF ReadyAt
  <2> QED BY <1>1, <1>3, <1>4, <2>1 DEF Waits, Recalled, Clean
<1>7. CASE life'.owed # "none"
  <2>1. ckpt.call.action = "agent" /\ life'.owed = life.owed /\ life.owed # "none"
    BY <1>1, <1>2, <1>7
  <2>2. Restartable
    BY <1>3, <2>1 DEF Owed
  <2>3. child'.status \in Ended => child'.status = child.status
    BY <1>1 DEF Ended
  <2>4. Restartable'
    BY <1>1, <2>1, <2>2, <2>3 DEF Restartable, Ended
  <2>5. CASE ckpt.call.started /\ child'.status \in Ended /\ run'.recovered = child'
    <3>1. child'.status # NoAnswer.status
      BY <2>5 DEF NoAnswer, Ended
    <3>2. Pending'
      BY <1>1, <2>1, <2>2, <2>3, <2>5, <3>1 DEF Pending, Restartable
    <3> QED BY <1>1, <1>5, <1>6, <2>4, <3>2 DEF Owed, Recalled
  <2>6. CASE ~(ckpt.call.started /\ child'.status \in Ended) /\ run'.recovered = NoAnswer
    <3>1. ckpt.mem.feedback = life.owed /\ ckpt.call.step \in RouteTargets
      BY <2>1, <2>2, <2>3, <2>6, <1>1 DEF Restartable, Ended
    <3>2. Fresh'
      BY <1>1, <1>4, <2>1, <2>6, <3>1 DEF Fresh, ReadyAt, Step
    <3> QED BY <1>1, <1>5, <1>6, <2>4, <3>2 DEF Owed, Recalled
  <2> QED BY <1>1, <2>1, <2>5, <2>6
<1> QED BY <1>5, <1>6, <1>7 DEF Recalled, Owed

LEMMA RestartRemembered ==
  RestartInvariant /\ Remembered /\ (Crash \/ Edit \/ RepairOrphan \/ ResumeDelivery \/ RequireRecovery) => Remembered'
<1> SUFFICES ASSUME RestartInvariant, Remembered, Crash \/ Edit \/ RepairOrphan \/ ResumeDelivery \/ RequireRecovery,
                    ~life'.edited, opts'.checkpointed
             PROVE Recalled' /\ Owed'
  BY DEF Remembered
<1>1. ~Edit
  BY RestartFacts DEF Edit, Lives
<1>2. /\ opts' = opts /\ ckpt' = ckpt /\ run'.pc \in {"down", "over"} /\ work'.tampered = work.tampered
      /\ life'.edited = life.edited /\ life'.owed = life.owed
  <2>1. CASE Crash
    BY <2>1, RestartFacts DEF Crash, Lives, Workspaces, Controls
  <2>2. CASE ~Crash
    BY <1>1, <2>2, RestartFacts DEF RepairOrphan, ResumeDelivery, RequireRecovery, Controls
  <2> QED BY <2>1, <2>2
<1>3. /\ child'.out = child.out
      /\ child'.status = child.status \/ (child.status = "RUNNING" /\ child'.status = "LOST")
  <2>1. child' = child \/ \E repaired \in BOOLEAN : child' = ChildFound(repaired)
    BY <1>1 DEF Crash, RepairOrphan, ResumeDelivery, RequireRecovery
  <2> QED BY <2>1, ChildIsFound, RestartFacts
<1>4. Recalled /\ Owed
  BY <1>2 DEF Remembered
<1>5. Recalled'
  BY <1>2, <1>4 DEF Recalled, Waits, Heard, Clean
<1>6. life.owed # "none" => Restartable'
  BY <1>2, <1>3, <1>4 DEF Owed, Restartable, Ended
<1>7. Owed'
  BY <1>2, <1>6 DEF Owed
<1> QED BY <1>5, <1>7

SurvivalInvariant == RestartInvariant /\ Remembered

LEMMA SurvivalStarts == RInit => SurvivalInvariant
<1>1. RInit => RestartInvariant
  BY RestartsStart
<1>2. ASSUME RInit PROVE Remembered
  <2>1. /\ run.pc = "head" /\ run.recovered = NoAnswer /\ ckpt.call = NoCall /\ life.owed = "none" /\ opts \in Options
    BY <1>2 DEF RInit, Init
  <2>2. ckpt.call.action # "agent"
    BY <2>1, CallsMade
  <2> QED BY <2>1, <2>2 DEF Remembered, Recalled, Waits, Heard, Clean, Owed
<1> QED BY <1>1, <1>2 DEF SurvivalInvariant

LEMMA SurvivalStep == SurvivalInvariant /\ [RNext]_rvars => SurvivalInvariant'
<1> SUFFICES ASSUME SurvivalInvariant, [RNext]_rvars PROVE SurvivalInvariant'
  OBVIOUS
<1>1. RestartInvariant /\ Remembered /\ RestartInvariant'
  BY RestartStep DEF SurvivalInvariant
<1>2. CASE UNCHANGED rvars
  <2>1. /\ opts' = opts /\ mem' = mem /\ run' = run /\ ckpt' = ckpt /\ child' = child /\ work' = work /\ life' = life
    BY <1>2 DEF rvars, vars
  <2>2. Recalled' = Recalled
    BY <2>1 DEF Recalled, Waits, Heard, Clean, ReadyAt
  <2>3. Owed' = Owed
    BY <2>1 DEF Owed, Fresh, Pending, Restartable, Step
  <2> QED BY <1>1, <2>1, <2>2, <2>3 DEF SurvivalInvariant, Remembered
<1>3. CASE RNext
  BY <1>1, <1>3, WorkingRemembered, ResumeRemembered, RestartRemembered DEF RNext, SurvivalInvariant
<1> QED BY <1>2, <1>3

\* Whatever dies, the reason of a rework is in memory, in the published call, or asked for again by its answer.
THEOREM SurvivalInvariance == RSpec => []SurvivalInvariant
  BY SurvivalStarts, SurvivalStep, PTL DEF RSpec

\* Nobody having edited the project meanwhile, the first call after a rework is told why it is made, even
\* when the process that asked for the rework, or the call itself, died in between.
THEOREM FeedbackStays == RSpec => []FeedbackSurvives
<1>1. SurvivalInvariant => FeedbackSurvives
  BY DEF SurvivalInvariant, Remembered, Owed, FeedbackSurvives
<1> QED BY <1>1, SurvivalInvariance, PTL

-----------------------------------------------------------------------------
(* Restarts: no way round the gates and the review. *)

\* What a run at the cursor of m has behind it, and what it says of the code as it is.
Earned(m, w) ==
    /\ m.cursor > Index.test => GatesDue \subseteq w.passed
    /\ ReviewDue /\ m.cursor > Index.review => w.approved

\* An answer given on the code as it is, and one that its agent may give.
Current(a) == a.current /\ (a.out = "team" => "repro" \notin opts.gates)

AnswersCurrent ==
    /\ child.status # "none" => Current(child)
    /\ run.pc = "answered" => Current(run.answer)
    /\ run.recovered # NoAnswer => Current(run.recovered)
    /\ ~opts.checkpointed => run.recovered = NoAnswer

\* A team starts at the planner, and so does a run that is resumed from the checkpoint of one.
InTeam == run.pc = "team" \/ (run.pc \in Gating /\ run.team # "no")

GatesPlaced ==
    /\ run.pc \in Gating /\ run.team = "no" => mem.cursor = Index.test
    /\ InTeam => /\ mem.cursor = Index.planner /\ "repro" \notin opts.gates
                 /\ opts.checkpointed => ckpt.mem.cursor = Index.planner
    /\ run.pc \in Gating /\ ~GatesPassedBy => Before(run.pc) \subseteq work.passed

Gated ==
    /\ Earned(mem, work)
    /\ opts.checkpointed => Earned(ckpt.mem, work)
    /\ AnswersCurrent
    /\ GatesPlaced
    /\ DeliveryGated

\* What a resumed run has earned stays, or what it goes on from has earned nothing yet.
MarksGrow == work.passed \subseteq work'.passed /\ (work.approved => work'.approved)

LEMMA MarksMove ==
  ASSUME work \in Workspaces, Next
  PROVE \/ work.passed \subseteq work'.passed /\ work'.approved = work.approved
        \/ CallStarts /\ Step \in {"scaffold", "test"}
        \/ TeamStarts
        \/ ReviewShips /\ work'.passed = work.passed /\ work'.approved = run.answer.current
        \/ TeamShips /\ work'.passed = work.passed
<1>1. CASE Abort \/ LoopHead
  BY <1>1 DEF Abort, LoopHead, CancelAtHead, SkipStep, EnterStep, LeaveLoop
<1>2. ASSUME NEW t, NEW c, work' = [work EXCEPT !.tampered = t, !.changed = c]
      PROVE work.passed \subseteq work'.passed /\ work'.approved = work.approved
  BY <1>2 DEF Workspaces
<1>4. CASE Baseline
  <2>1. CASE CaptureFails \/ CaptureBaseline
    BY <2>1 DEF CaptureFails, CaptureBaseline
  <2>2. CASE BaselineEnds
    <3>1. \E t : work' = [work EXCEPT !.tampered = t, !.changed = @ \/ t]
      BY <2>2 DEF BaselineEnds
    <3> QED BY <1>2, <3>1
  <2> QED BY <1>4, <2>1, <2>2 DEF Baseline
<1>5. CASE Call
  <2>1. CASE SkipCicd \/ ReviewHeld \/ SnapshotFails \/ StartStep
    BY <2>1 DEF SkipCicd, ReviewHeld, SnapshotFails, StartStep
  <2>2. CASE CallStarts
    BY <2>2 DEF CallStarts
  <2>3. CASE CallEnds
    <3>1. \E t, c : work' = [work EXCEPT !.tampered = t, !.changed = @ \/ c]
      BY <2>3 DEF CallEnds, CallResult
    <3> QED BY <1>2, <3>1
  <2> QED BY <1>5, <2>1, <2>2, <2>3 DEF Call
<1>6. CASE Answer
  BY <1>6 DEF Answer, AnswerHeld, AnswerStopped, AnswerStrays, ClarifierReady, ClarifierAsks, AnswerInvalid,
              PlannerPlans, WriterDone, AnswerBlocked
<1>7. CASE Gate
  <2>1. CASE TestAnswered \/ GateSkipped \/ GateHeld \/ GateStarts
    BY <2>1 DEF TestAnswered, GateSkipped, GateHeld, GateStarts
  <2>2. CASE ReproEnds
    <3>1. PICK t : LET effect == [work EXCEPT !.tampered = t, !.changed = @ \/ t] IN
              work' = effect \/ work' = [effect EXCEPT !.passed = @ \cup {"repro"}]
      BY <2>2 DEF ReproEnds
    <3> QED BY <3>1 DEF Workspaces
  <2>3. CASE VerifyEnds
    <3>1. PICK t : LET effect == [work EXCEPT !.tampered = t, !.changed = @ \/ t] IN
              work' = effect \/ work' = [effect EXCEPT !.passed = @ \cup {"verify"}]
      BY <2>3 DEF VerifyEnds
    <3> QED BY <3>1 DEF Workspaces
  <2>4. CASE RuntimeEnds
    <3>1. PICK t, s : LET effect == [work EXCEPT !.tampered = t, !.changed = @ \/ t \/ s] IN
              work' = effect \/ work' = [effect EXCEPT !.passed = @ \cup {"runtime"}]
      BY <2>4, ZenonT(40) DEF RuntimeEnds
    <3> QED BY <3>1 DEF Workspaces
  <2> QED BY <1>7, <2>1, <2>2, <2>3, <2>4 DEF Gate
<1>8. CASE Review
  <2>1. CASE ReviewRefuses \/ TeamReviewRefuses \/ TeamFails
    BY <2>1 DEF ReviewRefuses, TeamReviewRefuses, TeamFails
  <2>2. CASE ReviewShips
    BY <2>2 DEF ReviewShips, Workspaces
  <2>3. CASE TeamShips
    <3>1. \E approved : work' = [work EXCEPT !.approved = approved]
      BY <2>3 DEF TeamShips
    <3> QED BY <2>3, <3>1 DEF Workspaces
  <2>4. CASE TeamEnds
    <3>1. \E t : work' = [work EXCEPT !.tampered = t, !.changed = TRUE]
      BY <2>4 DEF TeamEnds
    <3> QED BY <1>2, <3>1
  <2> QED BY <1>8, <2>1, <2>2, <2>3, <2>4 DEF Review
<1>9. CASE End
  BY <1>9 DEF End, Finalize, PostSuccessStarts, PostSuccessEnds, DeliveryAdvances, DeliveryEnds, WriteResult, Workspaces
<1> QED BY <1>1, <1>4, <1>5, <1>6, <1>7, <1>8, <1>9 DEF Next, Progress

\* Where the memory of a published checkpoint is.
LEMMA PublishedCursor ==
  ASSUME LoopHeld, Surroundings, Noted, opts.checkpointed, Next
  PROVE ckpt' = ckpt \/ ckpt'.mem.cursor = mem.cursor \/ ckpt'.mem.cursor = mem'.cursor
<1> DEFINE Goal == ckpt' = ckpt \/ ckpt'.mem.cursor = mem.cursor \/ ckpt'.mem.cursor = mem'.cursor
<1> SUFFICES Goal
  OBVIOUS
<1>1. run \in Controls /\ mem \in Memories /\ opts \in Options /\ child \in Answers
  BY DEF LoopHeld, Surroundings, Sound
<1>2. ASSUME NEW m, NEW call, ckpt' = Published(m, call), m.cursor = mem.cursor \/ m.cursor = mem'.cursor PROVE Goal
  BY <1>2, PublishedFields
<1>3. ASSUME NEW call, ckpt' = Published(mem', call) PROVE Goal
  BY <1>2, <1>3
<1>4. ASSUME Silent \/ Recorded(NoCall) PROVE Goal
  BY <1>2, <1>4 DEF Silent, Recorded
<1>5. CASE Abort \/ LoopHead
  BY <1>1, <1>5, HeadShapes DEF Abort, Silent
<1>6. CASE Baseline
  <2>1. CASE Captures \/ Baselined \/ Rebaselines
    BY <1>3, <2>1 DEF Captures, Baselined, Rebaselines
  <2> QED BY <1>1, <1>4, <1>6, <2>1, BaselineShapes DEF Held
<1>7. CASE SkipCicd \/ ReviewHeld \/ SnapshotFails \/ StartStep
  <2>1. CASE SameCount /\ (Replays \/ Announces)
    BY <1>3, <2>1 DEF Replays, Announces
  <2> QED BY <1>1, <1>4, <1>7, <2>1, ReadyShapes DEF SkipsPlan
<1>8. CASE CallStarts \/ CallEnds
  <2>1. ckpt' = Published(mem, [ckpt.call EXCEPT !.started = TRUE, !.before = FALSE]) \/ ckpt' = ckpt
    BY <1>1, <1>8, CallShapes
  <2>2. CASE ckpt' = Published(mem, [ckpt.call EXCEPT !.started = TRUE, !.before = FALSE])
    BY <1>2, <2>2
  <2> QED BY <2>1, <2>2
<1>9. CASE Answer \/ TestAnswered \/ ReviewShips \/ ReviewRefuses \/ TeamStarts
  <2>1. CASE Reproduces \/ TeamsUp
    BY <1>3, <2>1 DEF Reproduces, TeamsUp
  <2> QED BY <1>1, <1>4, <1>9, <2>1, AnswerShapes DEF Onwards
<1>10. CASE ReproEnds \/ GateSkipped \/ GateHeld \/ GateStarts \/ VerifyEnds \/ RuntimeEnds
  <2>1. CASE GateOpens
    BY <1>3, <2>1 DEF GateOpens
  <2> QED BY <1>1, <1>4, <1>10, <2>1, GateShapes
<1>11. CASE TeamEnds \/ TeamShips \/ TeamReviewRefuses \/ TeamFails
  <2>1. Silent \/ Recorded(NoCall) \/ ckpt' = ckpt
    BY <1>1, <1>11, TeamShapes DEF Held, TeamReturns, Reviewed
  <2> QED BY <1>4, <2>1
<1>12. CASE End
  <2>1. ckpt' = ckpt \/ \E call : ckpt' = Published(mem, call)
    BY <1>1, <1>12, EndShapes DEF Delivers, Closes
  <2> QED BY <1>2, <2>1
<1> QED BY <1>5, <1>6, <1>7, <1>8, <1>9, <1>10, <1>11, <1>12, StepGroups

\* A rework goes back behind the test step; what goes forward goes one step.
LEMMA CursorMoves ==
  ASSUME LoopHeld, Surroundings, Noted, Next
  PROVE \/ mem'.cursor = mem.cursor
        \/ mem'.cursor \in {1, 2}
        \/ /\ mem'.cursor = mem.cursor + 1 /\ mem.cursor \in 1..6
           /\ \/ Passes /\ run'.pc = "head"
              \/ Step # "test" /\ (Step = "review" => ReviewShips)
              \/ Step \notin opts.steps
<1> DEFINE Forward == /\ mem'.cursor = mem.cursor + 1 /\ mem.cursor \in 1..6
                      /\ \/ Passes /\ run'.pc = "head"
                         \/ Step # "test" /\ (Step = "review" => ReviewShips)
                         \/ Step \notin opts.steps
           Goal == mem'.cursor = mem.cursor \/ mem'.cursor \in {1, 2} \/ Forward
<1> SUFFICES Goal
  OBVIOUS
<1>1. run \in Controls /\ mem \in Memories /\ opts \in Options /\ child \in Answers /\ mem.cursor \in 1..7
      /\ (run.pc \in InLoop => mem.cursor \in 1..6)
  BY MemoryFields DEF LoopHeld, Surroundings, Sound
<1>2. ASSUME Turns PROVE Goal
  <2>1. Reworks => mem'.cursor \in {1, 2}
    BY IndexIs DEF Reworks
  <2> QED BY <1>2, <2>1 DEF Turns, Leaves
<1>3. CASE Abort \/ End
  BY <1>1, <1>3, EndShapes DEF Abort
<1>4. CASE LoopHead
  <2>1. CASE Skips
    <3>1. mem.cursor <= 6
      BY <1>1, <1>4, <2>1 DEF LoopHead, CancelAtHead, SkipStep, EnterStep, LeaveLoop, Goto, Skips, Controls
    <3> QED BY <1>1, <2>1, <3>1 DEF Skips, Memories
  <2> QED BY <1>1, <1>2, <1>4, <2>1, HeadShapes DEF Turns, Enters
<1>5. CASE Baseline
  <2>1. CASE Captures \/ Baselined
    BY <1>1, <2>1 DEF Captures, Baselined, Memories
  <2> QED BY <1>1, <1>2, <1>5, <2>1, BaselineShapes DEF Held, Rebaselines, Turns
<1>6. CASE SkipCicd \/ ReviewHeld \/ SnapshotFails \/ StartStep
  <2>1. run.pc = "step" /\ (SkipsPlan \/ Turns \/ SameCount)
    BY <1>1, <1>6, ReadyShapes DEF Turns
  <2>2. CASE SkipsPlan
    BY <1>1, <2>1, <2>2 DEF SkipsPlan, CicdUnplanned, InLoop, Places, Memories
  <2> QED BY <1>2, <2>1, <2>2 DEF SameCount
<1>7. CASE CallStarts \/ CallEnds
  BY <1>1, <1>7, CallShapes
<1>8. CASE Answer \/ TestAnswered \/ ReviewShips \/ ReviewRefuses \/ TeamStarts
  <2>1. run.pc = "answered" /\ (Turns \/ Onwards \/ Passes \/ Reproduces \/ TeamsUp)
    BY <1>1, <1>8, AnswerShapes DEF Turns
  <2>2. mem.cursor \in 1..6
    BY <1>1, <2>1 DEF InLoop, Places
  <2> QED BY <1>2, <2>1, <2>2 DEF Onwards, Passes, Reproduces, TeamsUp
<1>9. CASE ReproEnds \/ GateSkipped \/ GateHeld \/ GateStarts \/ VerifyEnds \/ RuntimeEnds
  <2>1. run.pc \in {"reproducing", "verify", "verifying", "runtime", "probing"} /\ (Turns \/ Passes \/ GateOpens)
    BY <1>1, <1>9, GateShapes DEF Turns
  <2>2. mem.cursor \in 1..6
    BY <1>1, <2>1 DEF InLoop, Places
  <2> QED BY <1>2, <2>1, <2>2 DEF Passes, GateOpens
<1>10. CASE TeamEnds \/ TeamShips \/ TeamReviewRefuses \/ TeamFails
  BY <1>1, <1>2, <1>10, TeamShapes DEF Held, TeamReturns, Reviewed
<1> QED BY <1>3, <1>4, <1>5, <1>6, <1>7, <1>8, <1>9, <1>10, StepGroups

\* A mark is taken away only where nothing is earned yet.
LEMMA MarksGrowing ==
  ASSUME LoopHeld, Surroundings, Noted, Gated, Next
  PROVE MarksGrow \/ (mem.cursor <= 4 /\ mem'.cursor = mem.cursor /\ (opts.checkpointed => ckpt'.mem.cursor <= 4))
<1>1. mem \in Memories /\ work \in Workspaces /\ opts \in Options /\ (run.pc \in {"calling", "answered"} => mem.cursor \in 1..6)
  BY MemoryFields DEF LoopHeld, Surroundings, Sound, InLoop, Places
<1>2. CASE CallStarts /\ Step \in {"scaffold", "test"}
  <2>1. run.pc = "calling" /\ mem' = mem /\ ckpt' = Published(mem, [ckpt.call EXCEPT !.started = TRUE, !.before = FALSE])
    BY <1>2 DEF CallStarts, At
  <2>2. mem.cursor \in {3, 4}
    BY <1>1, <1>2, <2>1, StepIs, IndexIs
  <2> QED BY <2>1, <2>2, PublishedFields
<1>3. CASE TeamStarts
  <2> DEFINE m == [Consumed EXCEPT !.plan = "team"]
  <2>1. run.pc = "answered" /\ Step = "planner" /\ mem' = m /\ ckpt' = Published(m, Intent("team", "team"))
    BY <1>3 DEF TeamStarts, Answered, Checked, At
  <2>2. m.cursor = mem.cursor
    BY <1>1 DEF Consumed, Memories
  <2> HIDE DEF m
  <2>3. mem.cursor = 2
    BY <1>1, <2>1, StepIs
  <2> QED BY <2>1, <2>2, <2>3, PublishedFields
<1>4. CASE ReviewShips /\ work'.passed = work.passed /\ work'.approved = run.answer.current
  BY <1>4 DEF ReviewShips, Answered, Checked, At, Gated, AnswersCurrent, Current, MarksGrow
<1>5. CASE TeamShips /\ work'.passed = work.passed
  <2>1. InTeam /\ mem' = mem /\ ckpt' = ckpt
    BY <1>5 DEF TeamShips, At, InTeam, Gating
  <2>2. mem.cursor = 2 /\ (opts.checkpointed => ckpt.mem.cursor = 2)
    BY <2>1, IndexIs DEF Gated, GatesPlaced
  <2> QED BY <2>1, <2>2
<1>6. CASE work.passed \subseteq work'.passed /\ work'.approved = work.approved
  BY <1>6 DEF MarksGrow
<1> QED BY <1>1, <1>2, <1>3, <1>4, <1>5, <1>6, MarksMove

LEMMA EarnedKept ==
  ASSUME NEW m, NEW n, MarksGrow, Earned(m, work), n.cursor = m.cursor \/ n.cursor \in {1, 2}
  PROVE Earned(n, work')
<1>1. CASE n.cursor = m.cursor
  BY <1>1 DEF Earned, MarksGrow
<1>2. CASE n.cursor \in {1, 2}
  <2>1. ~(n.cursor > Index.test) /\ ~(n.cursor > Index.review)
    BY <1>2, IndexIs
  <2> QED BY <2>1 DEF Earned
<1> QED BY <1>1, <1>2

\* A run that goes on from a gate, not passing it by, has passed it and those before it.
LEMMA BehindPassed ==
  ASSUME Surroundings, Gated, Next, Passes, ~GatesPassedBy
  PROVE /\ run'.pc \in {"head", "reviews"} => opts.gates \ {"baseline"} \subseteq work'.passed
        /\ run'.pc \in {"verify", "runtime"} => Before(run'.pc) \subseteq work'.passed
<1>1. opts.gates \subseteq Gates /\ work \in Workspaces
  BY OptionsAssumption DEF Surroundings, OptionSet
<1>2. PICK g \in {"start", "verify", "runtime"} :
        Marked(g) /\ GateAfter(g) = IF run'.pc \in {"head", "reviews"} THEN "end" ELSE run'.pc
  BY DEF Passes
<1>3. run.pc \notin {"answered", "calling"} => work.passed \subseteq work'.passed
  BY <1>1, MarksMove DEF CallStarts, TeamStarts, Answered, Checked, At
<1>4. run.pc \in Gating => Before(run.pc) \subseteq work.passed
  BY DEF Gated, GatesPlaced
<1>5. Behind(g) \subseteq work'.passed
  <2>1. CASE g = "start"
    BY <1>2, <2>1 DEF Marked, Behind
  <2>2. CASE g = "verify"
    <3>1. run.pc = "verifying" /\ "verify" \in work'.passed
      BY <1>2, <2>2 DEF Marked
    <3> QED BY <1>3, <1>4, <2>2, <3>1 DEF Gating, Before, Behind
  <2>3. CASE g = "runtime"
    <3>1. run.pc = "probing" /\ "runtime" \in work'.passed
      BY <1>2, <2>3 DEF Marked
    <3> QED BY <1>1, <1>3, <1>4, <2>3, <3>1 DEF Gating, Before, Behind, Gates
  <2> QED BY <2>1, <2>2, <2>3
<1>6. CASE run'.pc \in {"head", "reviews"}
  <2>1. GateAfter(g) = "end"
    BY <1>2, <1>6
  <2>2. g # "runtime" => "runtime" \notin opts.gates
    BY <2>1 DEF GateAfter
  <2>3. g = "start" => "verify" \notin opts.gates
    BY <2>1 DEF GateAfter
  <2>4. opts.gates \ {"baseline"} \subseteq Behind(g)
    BY <1>1, <2>2, <2>3 DEF Gates, Behind
  <2> QED BY <1>5, <1>6, <2>4
<1>7. CASE run'.pc \in {"verify", "runtime"}
  <2>1. GateAfter(g) = run'.pc
    BY <1>2, <1>7
  <2>2. /\ run'.pc = "verify" => g = "start"
        /\ run'.pc = "runtime" => g = "verify" \/ "verify" \notin opts.gates
    BY <1>7, <2>1 DEF GateAfter
  <2>3. Before(run'.pc) \subseteq Behind(g)
    BY <1>7, <2>1, <2>2 DEF Before, Behind, GateAfter
  <2> QED BY <1>5, <1>7, <2>3
<1> QED BY <1>6, <1>7

\* The place a gate is passed at.
LEMMA PassedAt ==
  ASSUME LoopHeld, Surroundings, Noted, Gated, Passes
  PROVE /\ run.pc \in {"answered"} \cup Gating
        /\ run.team = "no" => mem.cursor = 4
        /\ run.team # "no" => InTeam
<1>1. PICK g \in {"start", "verify", "runtime"} : Marked(g)
  BY DEF Passes
<1>2. run.pc \in {"answered", "reproducing", "verify", "verifying", "runtime", "probing"} /\ (run.pc = "answered" => Step = "test")
  BY <1>1 DEF Marked
<1>3. run.pc = "answered" => run.team = "no" /\ mem.cursor \in 1..6
  BY MemoryFields DEF Noted, TeamPlaces, LoopHeld, Sound, InLoop, Places
<1> QED BY <1>2, <1>3, StepIs, IndexIs DEF Gating, InTeam, Gated, GatesPlaced

LEMMA EarnedNext == ASSUME LoopHeld, Surroundings, Noted, Gated, Next PROVE Earned(mem', work')
<1>1. mem \in Memories /\ opts \in Options /\ mem.cursor \in 1..7 /\ work \in Workspaces
  BY MemoryFields DEF LoopHeld, Surroundings, Sound
<1>2. Earned(mem, work)
  BY DEF Gated
<1>3. CASE ~MarksGrow
  <2>1. mem'.cursor <= 4
    BY <1>3, MarksGrowing
  <2>2. ~(mem'.cursor > Index.test) /\ ~(mem'.cursor > Index.review)
    BY <1>1, <1>3, <2>1, IndexIs, MarksGrowing
  <2> QED BY <2>2 DEF Earned
<1>4. CASE MarksGrow /\ (mem'.cursor = mem.cursor \/ mem'.cursor \in {1, 2})
  BY <1>2, <1>4, EarnedKept
<1>5. CASE MarksGrow /\ mem'.cursor = mem.cursor + 1 /\ mem.cursor \in 1..6 /\ Passes /\ run'.pc = "head"
  <2>1. run.team = "no"
    BY <1>5 DEF Passes
  <2>2. mem.cursor = 4 /\ ~GatesPassedBy
    BY <1>5, <2>1, PassedAt DEF GatesPassedBy
  <2>3. GatesDue \subseteq work'.passed
    BY <1>5, <2>2, BehindPassed DEF GatesDue
  <2>4. ~(mem'.cursor > Index.review)
    BY <1>5, <2>2, IndexIs
  <2> QED BY <2>3, <2>4 DEF Earned
<1>6. CASE /\ MarksGrow /\ mem'.cursor = mem.cursor + 1 /\ mem.cursor \in 1..6
           /\ (Step # "test" /\ (Step = "review" => ReviewShips)) \/ Step \notin opts.steps
  <2>1. mem.cursor = 4 => GatesDue = {}
    <3>1. mem.cursor = 4 => Step = "test"
      BY <1>6, StepIs
    <3> QED BY <1>6, <3>1 DEF GatesDue
  <2>2. mem.cursor = 5 /\ ReviewDue => work'.approved
    <3>1. mem.cursor = 5 => Step = "review"
      BY <1>6, StepIs
    <3>2. ReviewShips => work'.approved
      BY <1>1 DEF ReviewShips, Answered, Checked, At, Gated, AnswersCurrent, Current, Workspaces
    <3> QED BY <1>6, <3>1, <3>2 DEF ReviewDue
  <2>3. mem'.cursor > Index.test => mem.cursor = 4 \/ mem.cursor > Index.test
    BY <1>6, IndexIs
  <2>4. mem'.cursor > Index.review => mem.cursor = 5 \/ mem.cursor > Index.review
    BY <1>6, IndexIs
  <2>5. GatesDue \subseteq work.passed => GatesDue \subseteq work'.passed
    BY <1>6 DEF MarksGrow
  <2> QED BY <1>2, <1>6, <2>1, <2>2, <2>3, <2>4, <2>5 DEF Earned, MarksGrow
<1> QED BY <1>3, <1>4, <1>5, <1>6, CursorMoves

LEMMA CheckpointEarned ==
  ASSUME LoopHeld, Surroundings, Noted, Gated, Next, opts.checkpointed
  PROVE Earned(ckpt'.mem, work')
<1>1. Earned(ckpt.mem, work) /\ Earned(mem, work) /\ Earned(mem', work')
  BY EarnedNext DEF Gated
<1>2. CASE ~MarksGrow
  <2>1. ckpt'.mem.cursor <= 4 /\ mem.cursor \in 1..7 /\ ckpt.mem.cursor \in 1..7 /\ mem'.cursor = mem.cursor
    BY <1>2, MarksGrowing, MemoryFields DEF LoopHeld, Surroundings, Sound
  <2>2. ckpt'.mem.cursor \in Nat
    BY <2>1, PublishedCursor
  <2>3. ~(ckpt'.mem.cursor > Index.test) /\ ~(ckpt'.mem.cursor > Index.review)
    BY <2>1, <2>2, IndexIs
  <2> QED BY <2>3 DEF Earned
<1>3. CASE MarksGrow
  <2>1. CASE ckpt' = ckpt
    BY <1>1, <1>3, <2>1, EarnedKept
  <2>2. CASE ckpt'.mem.cursor = mem.cursor
    BY <1>1, <1>3, <2>2, EarnedKept
  <2>3. CASE ckpt'.mem.cursor = mem'.cursor
    BY <1>1, <2>3 DEF Earned
  <2> QED BY <2>1, <2>2, <2>3, PublishedCursor
<1> QED BY <1>2, <1>3

LEMMA TeamOutputs == Step \in Steps /\ "team" \in Outputs(Step) => "repro" \notin opts.gates
  BY StepsAre, OptionsAssumption DEF Outputs, RouteTargets, Plans

\* What is answered, or was answered to a former process, is about the code as it is: a call of a step
\* that changes the code begins only where no earlier answer waits.
LEMMA AnswersKept ==
  ASSUME RestartInvariant, opts.checkpointed => Recalled, AnswersCurrent, Next
  PROVE AnswersCurrent'
<1>1. /\ LoopHeld /\ Surroundings /\ Noted /\ run \in Controls /\ mem \in Memories /\ opts \in Options
      /\ child \in Answers /\ opts' = opts
  BY RestartFacts, Unmoving
<1>2. ASSUME SameCall, child' = child, run'.pc # "answered" \/ run'.pc = run.pc PROVE AnswersCurrent'
  BY <1>1, <1>2 DEF SameCall, AnswersCurrent, Current
<1>3. CASE Abort
  <2>1. run' = run /\ child' = child
    BY <1>3 DEF Abort
  <2> QED BY <1>2, <2>1 DEF SameCall
<1>4. CASE LoopHead \/ Baseline
  <2>1. SameCall /\ child' = child /\ run'.pc # "answered"
    <3>1. CASE LoopHead
      BY <1>1, <3>1, HeadShapes DEF Leaves, Skips, Enters
    <3>2. CASE Baseline
      <4>1. child' = child
        BY <3>2 DEF Baseline, CaptureFails, CaptureBaseline, BaselineEnds
      <4> QED BY <1>1, <3>2, <4>1, BaselineShapes DEF Captures, Baselined, Rebaselines, Held, Turns, Leaves, Reworks
    <3> QED BY <1>4, <3>1, <3>2
  <2> QED BY <1>2, <2>1
<1>5. CASE SkipCicd \/ ReviewHeld \/ SnapshotFails \/ StartStep
  <2>1. /\ run.pc = "step" /\ child' = child
        /\ SkipsPlan \/ Turns \/ Replays \/ Announces
    BY <1>1, <1>5, ReadyShapes DEF Turns
  <2>2. CASE SkipsPlan \/ Turns
    BY <1>2, <2>1, <2>2 DEF SkipsPlan, Turns, Leaves, Reworks
  <2>3. CASE Replays
    BY <1>1, <2>1, <2>3 DEF Replays, AnswersCurrent, Current
  <2>4. CASE Announces
    BY <1>1, <2>1, <2>4 DEF Announces, AnswersCurrent, Current
  <2> QED BY <2>1, <2>2, <2>3, <2>4
<1>6. CASE CallStarts
  <2>1. PICK status \in {"RUNNING", "BLOCKED"} :
          /\ child' = [NoChild EXCEPT !.step = Step, !.status = status, !.current = TRUE]
          /\ run' = [run EXCEPT !.pc = IF status = "RUNNING" THEN "working" ELSE "answered",
                                !.answer = IF status = "RUNNING" THEN NoAnswer ELSE child',
                                !.recovered.current = IF Step \in {"scaffold", "test"} THEN FALSE ELSE @]
    BY <1>6 DEF CallStarts
  <2>2. child'.current /\ child'.out = "none"
    BY <2>1 DEF NoChild, NoAnswer
  <2>3. run.pc = "calling"
    BY <1>6 DEF CallStarts, At
  <2>4. run.recovered = NoAnswer
    BY <2>3 DEF Recalled, Waits, AnswersCurrent
  <2>5. run'.recovered = NoAnswer
    BY <1>1, <1>6, <2>3, <2>4, CallShapes
  <2>6. run'.pc = "answered" => run'.answer = child'
    BY <1>1, <1>6, <2>3, CallShapes
  <2> QED BY <1>1, <2>2, <2>5, <2>6 DEF AnswersCurrent, Current
<1>7. CASE CallEnds
  <2>1. /\ run.pc = "working" /\ child'.out \in Outputs(Step) \cup {"none"} /\ run'.recovered = run.recovered
        /\ run'.pc = "answered" => run'.answer = child'
    <3>1. run.pc = "working"
      BY <1>7 DEF CallEnds, At
    <3> QED BY <1>1, <1>7, <3>1, CallShapes
  <2>2. child'.current = child.current
    <3>1. PICK status \in IF aborted THEN {"CANCELLED"} ELSE {"DONE", "FAILED"},
                out \in Outputs(Step) \cup {"none"}, changed \in BOOLEAN, tampered \in BOOLEAN,
                stray \in BOOLEAN, throws \in BOOLEAN : CallResult(status, out, changed, tampered, stray, throws)
      BY <1>7 DEF CallEnds
    <3>2. child' = [child EXCEPT !.status = status, !.out = out, !.stray = stray]
      BY <3>1 DEF CallResult
    <3> QED BY <1>1, <3>2 DEF Answers
  <2>3. child.current
    BY <1>1, <2>1 DEF Noted, AnswersCurrent, Current
  <2>4. Step \in Steps
    BY <1>1, <2>1, StepIs, MemoryFields DEF LoopHeld, InLoop, Places
  <2>5. child'.out = "team" => "repro" \notin opts.gates
    BY <2>1, <2>4, TeamOutputs
  <2> QED BY <1>1, <2>1, <2>2, <2>3, <2>5 DEF AnswersCurrent, Current
<1>8. CASE Answer \/ TestAnswered \/ ReviewShips \/ ReviewRefuses \/ TeamStarts
  <2>1. run'.pc # "answered" /\ SameCall /\ child' = child
    BY <1>1, <1>8, AnswerShapes DEF Turns, Leaves, Reworks, Onwards, Passes, Reproduces, TeamsUp
  <2> QED BY <1>2, <2>1
<1>9. CASE ReproEnds \/ GateSkipped \/ GateHeld \/ GateStarts \/ VerifyEnds \/ RuntimeEnds
  <2>1. run'.pc # "answered" /\ SameCall /\ child' = child
    BY <1>1, <1>9, GateShapes DEF Leaves, Reworks, Passes, GateOpens
  <2> QED BY <1>2, <2>1
<1>10. CASE TeamEnds \/ TeamShips \/ TeamReviewRefuses \/ TeamFails
  <2>1. run'.pc # "answered" /\ SameCall /\ child' = child
    BY <1>1, <1>10, TeamShapes DEF Held, Turns, Leaves, Reworks, TeamReturns, Reviewed
  <2> QED BY <1>2, <2>1
<1>11. CASE End
  <2>1. run'.pc # "answered" /\ SameCall /\ child' = child
    BY <1>1, <1>11, EndShapes DEF Delivers, Closes
  <2> QED BY <1>2, <2>1
<1> QED BY <1>3, <1>4, <1>5, <1>6, <1>7, <1>8, <1>9, <1>10, <1>11, StepGroups

\* Where neither gates nor a team nor a delivery follow, nothing is to be shown of them.
LEMMA ElsewherePlaced ==
  ASSUME run'.pc \notin Gating \cup {"team", "auditing", "posting"} PROVE GatesPlaced' /\ DeliveryGated'
  BY DEF GatesPlaced, DeliveryGated, InTeam

LEMMA PassesPlaced ==
  ASSUME LoopHeld, Surroundings, Noted, Gated, Next, Passes, ckpt' = ckpt
  PROVE GatesPlaced' /\ DeliveryGated'
<1>1. CASE run'.pc = "head"
  BY <1>1, ElsewherePlaced DEF Gating
<1>2. CASE run'.pc \in {"verify", "runtime", "reviews"}
  <2>1. run'.team = run.team /\ mem'.cursor = mem.cursor /\ opts' = opts /\ (aborted => aborted')
    BY <1>2, Unmoving DEF Passes
  <2>2. /\ run.team = "no" => mem.cursor = Index.test
        /\ run.team # "no" => InTeam
    BY PassedAt, IndexIs
  <2>3. GatesPassedBy => GatesPassedBy'
    BY <2>1 DEF GatesPassedBy
  <2>4. ~GatesPassedBy' => Before(run'.pc) \subseteq work'.passed
    BY <1>2, <2>3, BehindPassed DEF Before
  <2>5. (Before(run.pc))' = Before(run'.pc)
    BY <2>1 DEF Before
  <2>6. InTeam' => mem'.cursor = Index.planner /\ "repro" \notin opts.gates /\ (opts.checkpointed => ckpt'.mem.cursor = Index.planner)
    BY <1>2, <2>1, <2>2 DEF InTeam, Gated, GatesPlaced
  <2> QED BY <1>2, <2>1, <2>2, <2>4, <2>5, <2>6 DEF GatesPlaced, DeliveryGated, Gating
<1> QED BY <1>1, <1>2 DEF Passes

\* A gate's command, the reproduction and the team begin where they are due, what is before them passed.
LEMMA OpensPlaced ==
  ASSUME LoopHeld, Surroundings, Noted, Gated, Next, GateOpens
  PROVE GatesPlaced' /\ DeliveryGated'
<1>1. /\ run.pc \in {"verify", "runtime"} /\ run'.pc = (IF run.pc = "verify" THEN "verifying" ELSE "probing")
      /\ run'.team = run.team /\ mem' = mem /\ opts' = opts /\ (aborted => aborted')
  BY Unmoving DEF GateOpens
<1>2. opts.checkpointed => ckpt'.mem = mem
  <2>1. PICK g : ckpt' = Published(mem', Intent(g, g))
    BY DEF GateOpens
  <2> QED BY <1>1, <2>1, PublishedFields
<1>3. work.passed \subseteq work'.passed
  <2>1. ~(CallStarts \/ TeamStarts \/ ReviewShips \/ TeamShips)
    BY <1>1 DEF CallStarts, TeamStarts, ReviewShips, TeamShips, Answered, Checked, At
  <2> QED BY <2>1, MarksMove DEF Surroundings
<1>4. GatesPassedBy => GatesPassedBy'
  BY <1>1 DEF GatesPassedBy
<1>5. (Before(run.pc))' = Before(run.pc)
  BY <1>1 DEF Before
<1>6. InTeam' => InTeam
  BY <1>1 DEF InTeam, Gating
<1> QED BY <1>1, <1>2, <1>3, <1>4, <1>5, <1>6 DEF GatesPlaced, Gated, DeliveryGated, Gating

LEMMA BeginsPlaced ==
  ASSUME LoopHeld, Surroundings, Noted, Gated, Next, run.pc = "answered", Reproduces \/ (run.answer.out = "team" /\ TeamsUp)
  PROVE GatesPlaced' /\ DeliveryGated'
<1>1. run.team = "no" /\ mem.cursor \in 1..6 /\ opts' = opts
  BY MemoryFields, Unmoving DEF Noted, TeamPlaces, LoopHeld, Sound, InLoop, Places
<1>2. CASE Reproduces
  <2>1. run'.pc = "reproducing" /\ run'.team = "no" /\ mem'.cursor = Index.test
    BY <1>1, <1>2, StepIs, IndexIs DEF Reproduces
  <2>2. (Before(run.pc))' = {}
    BY <2>1 DEF Before
  <2> QED BY <2>1, <2>2 DEF GatesPlaced, DeliveryGated, InTeam
<1>3. CASE run.answer.out = "team" /\ TeamsUp
  <2>1. run'.pc = "team" /\ run'.team = "ok" /\ mem'.cursor = Index.planner
    BY <1>1, <1>3, StepIs, IndexIs DEF TeamsUp
  <2>2. "repro" \notin opts.gates
    BY <1>3 DEF Gated, AnswersCurrent, Current
  <2>3. opts.checkpointed => ckpt'.mem.cursor = Index.planner
    BY <1>3, <2>1, PublishedFields DEF TeamsUp
  <2> QED BY <1>1, <2>1, <2>2, <2>3 DEF GatesPlaced, DeliveryGated, Gating
<1> QED BY <1>2, <1>3

LEMMA TeamPlaced ==
  ASSUME LoopHeld, Surroundings, Noted, Gated, Next, TeamEnds \/ TeamShips \/ TeamReviewRefuses \/ TeamFails
  PROVE GatesPlaced' /\ DeliveryGated'
<1>1. run.pc \in {"team", "reviews"} /\ opts' = opts /\ (Held \/ TeamReturns \/ Reviewed)
  BY TeamShapes, Unmoving DEF Surroundings
<1>2. CASE Held
  BY <1>2, ElsewherePlaced DEF Held, Turns, Leaves, Reworks, Gating
<1>3. CASE TeamReturns
  <2>1. /\ run.pc = "team" /\ run'.pc \in {"verify", "runtime", "reviews"} /\ run'.team # "no" /\ ckpt' = ckpt
        /\ mem'.cursor = mem.cursor /\ GateAfter("start") = IF run'.pc = "reviews" THEN "end" ELSE run'.pc
    BY <1>3 DEF TeamReturns, Silent
  <2>2. InTeam
    BY <2>1 DEF InTeam
  <2>3. "repro" \notin opts.gates /\ opts.gates \subseteq Gates
    BY <2>2, OptionsAssumption DEF Gated, GatesPlaced, Surroundings, OptionSet
  <2>4. Before(run'.pc) = {}
    <3>1. CASE run'.pc = "verify"
      BY <2>3, <3>1 DEF Before
    <3>2. CASE run'.pc = "runtime"
      <4>1. "verify" \notin opts.gates
        BY <2>1, <3>2 DEF GateAfter
      <4> QED BY <2>3, <3>2, <4>1 DEF Before
    <3>3. CASE run'.pc = "reviews"
      <4>1. "verify" \notin opts.gates /\ "runtime" \notin opts.gates
        BY <2>1, <3>3 DEF GateAfter
      <4> QED BY <2>3, <3>3, <4>1 DEF Before, Gates
    <3> QED BY <2>1, <3>1, <3>2, <3>3
  <2>5. (Before(run.pc))' = Before(run'.pc)
    BY <1>1 DEF Before
  <2> QED BY <1>1, <2>1, <2>2, <2>4, <2>5 DEF Gated, GatesPlaced, DeliveryGated, Gating
<1>4. CASE Reviewed
  <2>1. run'.pc = "auditing" => GatesDue \subseteq work'.passed /\ run'.team # "no"
    <3> SUFFICES ASSUME run'.pc = "auditing" PROVE GatesDue \subseteq work'.passed /\ run'.team # "no"
      OBVIOUS
    <3>1. PICK approved :
          /\ run.pc = "reviews" /\ run.team = "ok" /\ work' = [work EXCEPT !.approved = approved]
          /\ run' = [run EXCEPT !.pc = IF aborted THEN "returned" ELSE "auditing", !.verdict = "SHIP"]
      BY <1>4 DEF Reviewed, TeamShips, At
    <3>2. ~aborted /\ work'.passed = work.passed /\ run'.team # "no"
      BY <3>1 DEF LoopHeld, Controls, Surroundings, Workspaces
    <3>3. ~GatesPassedBy
      BY <3>1, <3>2 DEF GatesPassedBy
    <3>4. opts.gates \ {"baseline"} \subseteq work.passed
      BY <3>1, <3>3 DEF Gated, GatesPlaced, Gating, Before
    <3> QED BY <3>2, <3>4 DEF GatesDue
  <2>2. run'.pc \in {"returned", "auditing"}
    BY <1>4 DEF Reviewed
  <2>3. GatesDue' = GatesDue /\ ReviewDue' = ReviewDue
    BY <1>1 DEF GatesDue, ReviewDue
  <2> QED BY <2>1, <2>2, <2>3 DEF GatesPlaced, DeliveryGated, InTeam, Gating
<1> QED BY <1>1, <1>2, <1>3, <1>4

LEMMA EndPlaced ==
  ASSUME LoopHeld, Surroundings, Noted, Gated, Next, End
  PROVE GatesPlaced' /\ DeliveryGated'
<1>1. run \in Controls /\ mem \in Memories /\ work \in Workspaces /\ opts' = opts
      /\ run.pc \in {"finish", "auditing", "posting", "returned"}
  BY EndShapes, Unmoving DEF LoopHeld, Sound, Surroundings
<1>2. run'.pc \notin Gating \cup {"team"}
  <2>1. Delivers \/ Closes \/ run'.pc = "posting"
    BY <1>1, EndShapes
  <2> QED BY <2>1 DEF Delivers, Closes, Gating
<1>3. GatesPlaced'
  BY <1>2 DEF GatesPlaced, InTeam
<1>4. DeliveryGated'
  <2>1. GatesDue' = GatesDue /\ ReviewDue' = ReviewDue
    BY <1>1 DEF GatesDue, ReviewDue
  <2>2. work'.passed = work.passed /\ work'.approved = work.approved /\ run'.team = run.team
    <3>1. CASE Finalize \/ PostSuccessStarts \/ DeliveryEnds \/ WriteResult
      BY <1>1, <3>1 DEF Finalize, PostSuccessStarts, DeliveryEnds, WriteResult, Goto, Controls
    <3>2. CASE PostSuccessEnds
      BY <1>1, <3>2 DEF PostSuccessEnds, Goto, Controls, Workspaces
    <3>3. CASE DeliveryAdvances
      BY <1>1, <3>3 DEF DeliveryAdvances, Workspaces
    <3> QED BY <3>1, <3>2, <3>3 DEF End
  <2>3. CASE Finalize
    <3>1. run'.pc = IF Succeeded THEN "auditing" ELSE "returned"
      BY <1>1, <2>3 DEF Finalize, Goto, Controls
    <3>2. Succeeded => GatesDue \subseteq work.passed /\ (ReviewDue => work.approved)
      <4>1. mem.cursor \in 1..7
        BY <1>1, MemoryFields
      <4> QED BY <4>1, IndexIs DEF Succeeded, Gated, Earned
    <3> QED BY <2>1, <2>2, <3>1, <3>2 DEF DeliveryGated
  <2>4. CASE ~Finalize
    <3>1. run'.pc \in {"auditing", "posting"} => run.pc \in {"auditing", "posting"}
      <4>1. CASE PostSuccessStarts \/ PostSuccessEnds \/ DeliveryAdvances \/ DeliveryEnds
        BY <4>1 DEF PostSuccessStarts, PostSuccessEnds, DeliveryAdvances, DeliveryEnds, At
      <4>2. CASE WriteResult
        BY <1>1, <4>2 DEF WriteResult, At, Controls
      <4> QED BY <2>4, <4>1, <4>2 DEF End
    <3> QED BY <2>1, <2>2, <3>1 DEF DeliveryGated, Gated
  <2> QED BY <2>3, <2>4
<1> QED BY <1>3, <1>4

LEMMA PlacesKept == ASSUME LoopHeld, Surroundings, Noted, Gated, Next PROVE GatesPlaced' /\ DeliveryGated'
<1>1. run \in Controls /\ mem \in Memories /\ opts \in Options /\ child \in Answers
  BY DEF LoopHeld, Surroundings, Sound
<1>2. CASE Abort
  <2>1. opts' = opts /\ mem' = mem /\ run' = run /\ ckpt' = ckpt /\ work' = work /\ aborted'
    BY <1>2 DEF Abort
  <2>2. (GatesPassedBy => GatesPassedBy') /\ (Before(run.pc))' = Before(run.pc) /\ (InTeam' <=> InTeam)
    BY <2>1 DEF GatesPassedBy, Before, InTeam
  <2>3. DeliveryGated' <=> DeliveryGated
    BY <2>1 DEF DeliveryGated, GatesDue, ReviewDue
  <2> QED BY <2>1, <2>2, <2>3 DEF Gated, GatesPlaced
<1>3. CASE LoopHead \/ Baseline
  <2>1. run'.pc \notin Gating \cup {"team", "auditing", "posting"}
    BY <1>1, <1>3, HeadShapes, BaselineShapes
       DEF Leaves, Skips, Enters, Captures, Baselined, Rebaselines, Held, Turns, Reworks, Gating
  <2> QED BY <2>1, ElsewherePlaced
<1>4. CASE SkipCicd \/ ReviewHeld \/ SnapshotFails \/ StartStep
  <2>1. run'.pc \notin Gating \cup {"team", "auditing", "posting"}
    BY <1>1, <1>4, ReadyShapes DEF SkipsPlan, Turns, Leaves, Reworks, Replays, Announces, Gating
  <2> QED BY <2>1, ElsewherePlaced
<1>5. CASE CallStarts \/ CallEnds
  <2>1. run'.pc \notin Gating \cup {"team", "auditing", "posting"}
    BY <1>1, <1>5, CallShapes DEF Gating
  <2> QED BY <2>1, ElsewherePlaced
<1>6. CASE Answer \/ TestAnswered \/ ReviewShips \/ ReviewRefuses \/ TeamStarts
  <2>1. /\ run.pc = "answered"
        /\ Turns \/ Onwards \/ (Passes /\ Silent) \/ Reproduces \/ (run.answer.out = "team" /\ TeamsUp)
    BY <1>1, <1>6, AnswerShapes DEF Turns
  <2>2. CASE Turns \/ Onwards
    BY <2>2, ElsewherePlaced DEF Turns, Leaves, Reworks, Onwards, Gating
  <2> QED BY <2>1, <2>2, PassesPlaced, BeginsPlaced DEF Silent
<1>7. CASE ReproEnds \/ GateSkipped \/ GateHeld \/ GateStarts \/ VerifyEnds \/ RuntimeEnds
  <2>1. Turns \/ (Passes /\ Silent) \/ GateOpens
    BY <1>1, <1>7, GateShapes DEF Turns
  <2>2. CASE Turns
    BY <2>2, ElsewherePlaced DEF Turns, Leaves, Reworks, Gating
  <2> QED BY <2>1, <2>2, PassesPlaced, OpensPlaced DEF Silent
<1> QED BY <1>2, <1>3, <1>4, <1>5, <1>6, <1>7, TeamPlaced, EndPlaced, StepGroups

\* A step of the workflow keeps what it has earned and its checkpoint says.
LEMMA WorkingGated ==
  ASSUME RestartInvariant, opts.checkpointed => Recalled, Gated, Next
  PROVE Gated'
<1>1. LoopHeld /\ Surroundings /\ Noted /\ opts' = opts
  BY RestartFacts, Unmoving
<1>2. /\ (Earned(mem, work))' <=> Earned(mem', work')
      /\ (Earned(ckpt.mem, work))' <=> Earned(ckpt'.mem, work')
  BY <1>1 DEF Earned, GatesDue, ReviewDue
<1>3. Earned(mem', work') /\ (opts.checkpointed => Earned(ckpt'.mem, work'))
  BY <1>1, EarnedNext, CheckpointEarned
<1>4. AnswersCurrent'
  BY AnswersKept DEF Gated
<1>5. GatesPlaced' /\ DeliveryGated'
  BY <1>1, PlacesKept
<1> QED BY <1>1, <1>2, <1>3, <1>4, <1>5 DEF Gated

\* A resumed run starts where its checkpoint is, with the answer of its child if there is one.
LEMMA ResumeGated == ASSUME RestartInvariant, Gated, Resume PROVE Gated'
<1>1. /\ opts.checkpointed /\ opts' = opts /\ mem' = ckpt.mem /\ ckpt' = ckpt /\ work' = work
      /\ run'.pc = "head" /\ child'.out = child.out /\ child'.current = child.current
      /\ child'.status = child.status \/ (child.status = "RUNNING" /\ child'.status = "LOST")
      /\ run'.recovered = NoAnswer \/ (child'.status \in Ended /\ run'.recovered = child')
  BY ResumedFrom
<1>2. Current(child') <=> Current(child)
  BY <1>1 DEF Current
<1>3. child'.status # "none" => child.status # "none"
  BY <1>1
<1>4. (Current(child) /\ Current(run.recovered))' <=> (Current(child') /\ Current(run'.recovered))
  BY <1>1 DEF Current
<1>5. AnswersCurrent'
  BY <1>1, <1>2, <1>3, <1>4 DEF Gated, AnswersCurrent, Current, Ended
<1>6. GatesPlaced' /\ DeliveryGated'
  BY <1>1, ElsewherePlaced DEF Gating
<1>7. (Earned(mem, work))' /\ (opts.checkpointed => Earned(ckpt.mem, work))'
  BY <1>1 DEF Gated, Earned, GatesDue, ReviewDue
<1> QED BY <1>5, <1>6, <1>7 DEF Gated

\* Where nothing was edited, a crash and a run that is left to a person lose no mark.
LEMMA RestartGated ==
  ASSUME RestartInvariant, Gated, Crash \/ RepairOrphan \/ ResumeDelivery \/ RequireRecovery
  PROVE Gated'
<1>1. /\ opts' = opts /\ mem' = mem /\ ckpt' = ckpt /\ run'.pc \in {"down", "over"} /\ run'.recovered = run.recovered
      /\ work'.passed = work.passed /\ work'.approved = work.approved
  <2>1. CASE Crash
    BY <2>1, RestartFacts DEF Crash, Workspaces, Controls
  <2>2. CASE ~Crash
    BY <2>2, RestartFacts DEF RepairOrphan, ResumeDelivery, RequireRecovery, Controls
  <2> QED BY <2>1, <2>2
<1>2. /\ child'.out = child.out /\ child'.current = child.current
      /\ child'.status = child.status \/ (child.status = "RUNNING" /\ child'.status = "LOST")
  <2>1. child' = child \/ \E repaired \in BOOLEAN : child' = ChildFound(repaired)
    BY DEF Crash, RepairOrphan, ResumeDelivery, RequireRecovery
  <2> QED BY <2>1, ChildIsFound, RestartFacts
<1>3. AnswersCurrent'
  BY <1>1, <1>2 DEF Gated, AnswersCurrent, Current
<1>4. GatesPlaced' /\ DeliveryGated'
  BY <1>1, ElsewherePlaced DEF Gating
<1>5. (Earned(mem, work))' /\ (opts.checkpointed => Earned(ckpt.mem, work))'
  BY <1>1 DEF Gated, Earned, GatesDue, ReviewDue
<1> QED BY <1>3, <1>4, <1>5 DEF Gated

GatedInvariant == SurvivalInvariant /\ (~life.edited => Gated)

LEMMA GatedStarts == RInit => Gated
<1> SUFFICES ASSUME RInit PROVE Gated
  OBVIOUS
<1>1. /\ opts \in Options /\ run.pc = "head" /\ run.recovered = NoAnswer /\ ckpt.mem = mem /\ child.status = "none"
      /\ mem.cursor = opts.start
  BY DEF RInit, Init, NoChild, NoAnswer
<1>2. opts.start \in 1..6
  BY <1>1, OptionsAssumption DEF OptionSet
<1>3. Earned(mem, work) /\ Earned(ckpt.mem, work)
  <2>1. mem.cursor > Index.test => GatesDue = {}
    BY <1>1, <1>2, IndexIs DEF GatesDue
  <2>2. mem.cursor > Index.review => ~ReviewDue
    BY <1>1, <1>2, IndexIs DEF ReviewDue
  <2> QED BY <1>1, <2>1, <2>2 DEF Earned
<1> QED BY <1>1, <1>3 DEF Gated, AnswersCurrent, GatesPlaced, InTeam, Gating, DeliveryGated

THEOREM GatedInvariance == RSpec => []GatedInvariant
<1>1. RInit => GatedInvariant
  BY SurvivalStarts, GatedStarts DEF GatedInvariant
<1>2. GatedInvariant /\ [RNext]_rvars => GatedInvariant'
  <2> SUFFICES ASSUME GatedInvariant, [RNext]_rvars PROVE GatedInvariant'
    OBVIOUS
  <2>1. SurvivalInvariant /\ SurvivalInvariant' /\ RestartInvariant
    BY SurvivalStep DEF GatedInvariant, SurvivalInvariant
  <2>2. CASE UNCHANGED rvars
    <3>1. /\ opts' = opts /\ mem' = mem /\ run' = run /\ ckpt' = ckpt /\ child' = child /\ work' = work
          /\ aborted' = aborted /\ life' = life
      BY <2>2 DEF rvars, vars
    <3>2. Gated' <=> Gated
      BY <3>1 DEF Gated, Earned, AnswersCurrent, Current, GatesPlaced, InTeam, GatesPassedBy, Before, DeliveryGated,
                  GatesDue, ReviewDue
    <3> QED BY <2>1, <3>1, <3>2 DEF GatedInvariant
  <2>3. CASE RNext
    <3> SUFFICES ASSUME ~life'.edited PROVE Gated'
      BY <2>1 DEF GatedInvariant
    <3>1. ~Edit
      BY RestartFacts, <2>1 DEF Edit, Lives
    <3>2. CASE Working
      <4>1. ~life.edited /\ Next
        BY <2>1, <3>2, OwedMoves DEF Working
      <4> QED BY <2>1, <4>1, WorkingGated DEF GatedInvariant, SurvivalInvariant, Remembered
    <3>3. CASE Resume
      <4>1. life' = [life EXCEPT !.edit = "none", !.owed = IF ckpt.call.action = "none" THEN "none" ELSE @]
        BY <2>1, <3>3, ResumedFrom
      <4>2. ~life.edited
        BY <2>1, <4>1, RestartFacts DEF Lives
      <4> QED BY <2>1, <3>3, <4>2, ResumeGated DEF GatedInvariant
    <3>4. CASE Crash \/ RepairOrphan \/ ResumeDelivery \/ RequireRecovery
      <4>1. ~life.edited
        BY <2>1, <3>4, RestartFacts DEF Crash, RepairOrphan, ResumeDelivery, RequireRecovery, Lives
      <4> QED BY <2>1, <3>4, <4>1, RestartGated DEF GatedInvariant
    <3> QED BY <2>3, <3>1, <3>2, <3>3, <3>4 DEF RNext
  <2> QED BY <2>2, <2>3
<1> QED BY <1>1, <1>2, PTL DEF RSpec

\* Nobody having edited the project meanwhile, a restart opens no way round the gates and the review step: what
\* a recovered run commits or delivers went through them, a team's work through the gates, for every set of
\* options and number of crashes.
THEOREM GatesAcrossRestarts == RSpec => []GatedAcrossRestarts
<1>1. GatedInvariant => GatedAcrossRestarts
  BY DEF GatedInvariant, Gated, GatedAcrossRestarts
<1> QED BY <1>1, GatedInvariance, PTL

\* What holds of a run that is resumed, whatever died how often: its types, its budget, and that what is
\* handed over passed the gates, and the review step unless a team made it.
THEOREM RecoverySound == RSpec => []RecoveryInvariant
<1>1. RTypeOK /\ BudgetAcrossRestarts /\ GatedAcrossRestarts => RecoveryInvariant
  BY DEF RecoveryInvariant
<1> QED BY <1>1, RestartsTyped, RestartsPaid, GatesAcrossRestarts, PTL
=============================================================================
