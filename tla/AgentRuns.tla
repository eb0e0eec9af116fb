----------------------------- MODULE AgentRuns -----------------------------
(***************************************************************************)
(* The calls of agents in one process (lib/runner.ts): each is admitted by *)
(* the circuit breaker (lib/circuit-breaker.ts) and the daily limit        *)
(* (lib/cost-guard.ts), runs the agent's model, may be repeated with the   *)
(* fallback model, and ends its row once.  The dashboard streams the       *)
(* events of running rows (lib/run-events.ts, GET /api/runs/:id/events).   *)
(*                                                                         *)
(* A step is the code between two macrotasks: the end of a call and the    *)
(* writes that follow are one, and so is an abort with what it rejects.    *)
(* The child process of a cancelled call may go on for a while, and its    *)
(* events still reach onEvent.  Time passes in units; a day has DayLength. *)
(***************************************************************************)
EXTENDS Integers, FiniteSets

CONSTANTS
    Runs,      \* the calls there may be
    Parallel,  \* how many of them callers have under way at once
    Limit,     \* AUTO_DEV_DAILY_RUN_LIMIT, or NoLimit
    NoLimit,
    Fallback,  \* TRUE: a fallback model other than the agent's is configured
    Watchers,  \* event streams of the dashboard
    DayLength,
    MaxTime    \* bound: the clock stops there

ASSUME AgentAssumption ==
    /\ Parallel \in Nat \ {0}
    /\ Limit \in Nat \cup {NoLimit} /\ NoLimit \notin Nat
    /\ Fallback \in BOOLEAN
    /\ DayLength \in Nat \ {0} /\ MaxTime \in Nat
    /\ IsFiniteSet(Runs)

VARIABLES
    now,
    guard,     \* dayKey and runCount
    openUntil, \* the circuit is open before this time
    row,       \* agent_run
    call,      \* the memory of _execute and of its onEvent
    orphans,   \* cancelled calls whose child still runs
    stream     \* what each watcher's stream is attached to

vars == <<now, guard, openUntil, row, call, orphans, stream>>

Models == {"primary", "fallback"}
Running == {r \in Runs : row[r].status = "RUNNING"}
Idle == [status |-> "none", error |-> "none", model |-> "none", usage |-> "none", answer |-> "none"]
NoCall == [suppress |-> FALSE, limited |-> FALSE, opened |-> FALSE]

Init ==
    /\ now = 0
    /\ guard = [day |-> 0, count |-> 0]
    /\ openUntil = 0
    /\ row = [r \in Runs |-> Idle]
    /\ call = [r \in Runs |-> NoCall]
    /\ orphans = {}
    /\ stream = [w \in Watchers |-> "off"]

Tick ==
    /\ now < MaxTime
    /\ now' = now + 1
    /\ UNCHANGED <<guard, openUntil, row, call, orphans, stream>>

-----------------------------------------------------------------------------
(* Admission *)

Today == now \div DayLength
Renewed == IF guard.day = Today THEN guard ELSE [day |-> Today, count |-> 0]

Allows == Limit = NoLimit \/ Renewed.count < Limit
CircuitOpen == now < openUntil

\* _initRun, and _execute up to the call of the model.  A call whose workflow is
\* already cancelled starts its child all the same and ends at once.
Start(r) ==
    /\ row[r].status = "none" /\ Cardinality(Running) < Parallel
    /\ guard' = IF CircuitOpen THEN guard ELSE Renewed
    /\ \/ /\ CircuitOpen \/ ~Allows
          /\ row' = [row EXCEPT ![r].status = "BLOCKED"]
          /\ UNCHANGED <<call, orphans>>
       \/ /\ ~CircuitOpen /\ Allows
          /\ call' = [call EXCEPT ![r].suppress = Fallback]
          /\ \/ /\ row' = [row EXCEPT ![r].status = "RUNNING", ![r].model = "primary"]
                /\ orphans' = orphans
             \/ /\ row' = [row EXCEPT ![r].status = "FAILED", ![r].model = "primary",
                                      ![r].error = "user_cancelled"]
                /\ orphans' = orphans \cup {r}
    /\ UNCHANGED <<now, openUntil, stream>>

-----------------------------------------------------------------------------
(* Events of the child, those of a cancelled call included *)

Usage(r) ==
    /\ r \in Running \cup orphans
    /\ row' = [row EXCEPT ![r].usage = row[r].model]
    /\ UNCHANGED <<now, guard, openUntil, call, orphans, stream>>

\* An earlier reset time does not shorten a longer pause.
Opened(until) == IF until > openUntil THEN until ELSE openUntil

\* The reset time the event names, or the default for one that names none.
RateLimit(r, until) ==
    /\ r \in Running \cup orphans
    /\ IF call[r].suppress
       THEN /\ call' = [call EXCEPT ![r].limited = TRUE]
            /\ openUntil' = openUntil
       ELSE /\ call' = [call EXCEPT ![r].limited = TRUE, ![r].opened = TRUE]
            /\ openUntil' = Opened(until)
    /\ UNCHANGED <<now, guard, row, orphans, stream>>

-----------------------------------------------------------------------------
(* The end of a call *)

\* closeEmitter: every stream of the run is told and closed.
ClosedFor(r) == [w \in Watchers |-> IF stream[w] = r THEN "closed" ELSE stream[w]]

\* POST /api/runs/:id/cancel refuses a row that is not running, or not in this process.
Cancellable(r) == r \in Running

\* Fault: whether the row is still running is not looked at.
CancelAnyRow(r) ==
    /\ row[r].status # "none"
    /\ row' = [row EXCEPT ![r].status = "FAILED", ![r].error = "user_cancelled"]
    /\ orphans' = orphans \cup {r}
    /\ stream' = ClosedFor(r)
    /\ UNCHANGED <<now, guard, openUntil, call>>

\* Fault: the emitter is not closed when a call is cancelled.
CancelQuietly(r) ==
    /\ r \in Running
    /\ row' = [row EXCEPT ![r].status = "FAILED", ![r].error = "user_cancelled"]
    /\ orphans' = orphans \cup {r}
    /\ UNCHANGED <<now, guard, openUntil, call, stream>>

\* The user, or the workflow's own cancellation, aborts the call.
Cancel(r) ==
    /\ Cancellable(r)
    /\ row' = [row EXCEPT ![r].status = "FAILED", ![r].error = "user_cancelled"]
    /\ orphans' = orphans \cup {r}
    /\ stream' = ClosedFor(r)
    /\ UNCHANGED <<now, guard, openUntil, call>>

Throws(r) ==
    /\ r \in Running
    /\ row' = [row EXCEPT ![r].status = "FAILED", ![r].error = "exception"]
    /\ stream' = ClosedFor(r)
    /\ UNCHANGED <<now, guard, openUntil, call, orphans>>

\* An answer that says "success" and holds the text of an authentication failure is
\* one; both models' answers are looked at that way.
Outcomes == {"success", "disguised", "auth", "error"}

\* The primary model saw a rate limit, or could not sign in.
Replaceable(r, outcome) ==
    /\ row[r].model = "primary" /\ Fallback
    /\ call[r].limited \/ outcome \in {"auth", "disguised"}

\* Fault: the fallback's rate limits are suppressed as well.
SecondModelKeptQuiet(r, outcome) ==
    /\ Replaceable(r, outcome)
    /\ call' = [call EXCEPT ![r].limited = FALSE]
    /\ row' = [row EXCEPT ![r].model = "fallback", ![r].usage = "none"]
    /\ UNCHANGED <<guard, stream>>

\* Its answer, a success included, is dropped and the fallback model is called.
SecondModel(r, outcome) ==
    /\ Replaceable(r, outcome)
    /\ call' = [call EXCEPT ![r].suppress = FALSE, ![r].limited = FALSE]
    /\ row' = [row EXCEPT ![r].model = "fallback", ![r].usage = "none"]
    /\ UNCHANGED <<guard, stream>>

Settle(r, outcome) ==
    /\ ~Replaceable(r, outcome)
    /\ guard' = IF outcome = "success" THEN [Renewed EXCEPT !.count = @ + 1] ELSE guard
    /\ row' = [row EXCEPT ![r].usage = row[r].model, ![r].answer = row[r].model,
                          ![r].status = IF outcome = "success" THEN "DONE" ELSE "FAILED",
                          ![r].error = CASE outcome = "success" -> "none"
                                         [] outcome \in {"auth", "disguised"} -> "auth_failed"
                                         [] OTHER -> "error"]
    /\ stream' = ClosedFor(r)
    /\ call' = call

ModelAnswers(r, outcome) ==
    /\ r \in Running
    /\ SecondModel(r, outcome) \/ Settle(r, outcome)
    /\ UNCHANGED <<now, openUntil, orphans>>

\* The child of a cancelled call is gone.
OrphanDies(r) ==
    /\ r \in orphans
    /\ orphans' = orphans \ {r}
    /\ UNCHANGED <<now, guard, openUntil, row, call, stream>>

-----------------------------------------------------------------------------
(* The dashboard *)

\* The row is read and the stream attached in one handler without an await.
Watch(w, r) ==
    /\ stream[w] = "off" /\ row[r].status # "none"
    /\ stream' = [stream EXCEPT ![w] = IF r \in Running THEN r ELSE "closed"]
    /\ UNCHANGED <<now, guard, openUntil, row, call, orphans>>

\* The browser goes away, or comes back for another run.
Leave(w) ==
    /\ stream[w] # "off"
    /\ stream' = [stream EXCEPT ![w] = "off"]
    /\ UNCHANGED <<now, guard, openUntil, row, call, orphans>>

\* A model's process ends.  Nothing makes it: neither runner.ts nor the Claude runner
\* (llm/anthropic/agent-runner.ts:14) has a time limit, only the Codex runner has one.
CallEnds(r) ==
    \/ \E outcome \in Outcomes : ModelAnswers(r, outcome)
    \/ Throws(r)

Next ==
    \/ Tick
    \/ \E r \in Runs :
        \/ Start(r) \/ Usage(r) \/ Cancel(r) \/ CallEnds(r) \/ OrphanDies(r)
        \/ \E until \in 0..(MaxTime + 1) : RateLimit(r, until)
    \/ \E w \in Watchers : Leave(w) \/ \E r \in Runs : Watch(w, r)

Spec == Init /\ [][Next]_vars

-----------------------------------------------------------------------------
(* Properties *)

TypeOK ==
    /\ now \in 0..MaxTime /\ openUntil \in 0..(MaxTime + 1)
    /\ guard \in [day : 0..MaxTime, count : Nat]
    /\ row \in [Runs -> [status : {"none", "BLOCKED", "RUNNING", "DONE", "FAILED"},
                         error : {"none", "user_cancelled", "exception", "auth_failed", "error"},
                         model : Models \cup {"none"}, usage : Models \cup {"none"},
                         answer : Models \cup {"none"}]]
    /\ call \in [Runs -> [suppress : BOOLEAN, limited : BOOLEAN, opened : BOOLEAN]]
    /\ orphans \subseteq Runs
    /\ stream \in [Watchers -> Runs \cup {"off", "closed"}]

\* The limit is checked when a call starts and counted when it succeeds: calls under
\* way together pass it together, but by no more than their number less one
\* (cost-guard.ts:21, 23).
OvershootBounded ==
    Limit # NoLimit =>
        guard.count + Cardinality(Running) <= (IF Limit = 0 THEN 0 ELSE Limit + Parallel - 1)

\* A call that ends with the answer of a model which met a rate limit has opened the circuit:
\* keeping quiet about the first model's limit (runner.ts:109) is made good by the second's
\* answer.  A call that throws meanwhile does lose the limit it kept quiet about (runner.ts:225).
LimitHeeded ==
    \A r \in Runs : row[r].answer # "none" /\ call[r].limited => call[r].opened

\* The row names the model whose answer and whose tokens it holds, though both ran.
AnswerOfItsModel ==
    \A r \in Runs :
        /\ row[r].answer \in {"none", row[r].model}
        /\ row[r].usage \in {"none", row[r].model}

\* A stream hangs on a running row: nobody waits for the end of a run that is over.
StreamsOpen == \A w \in Watchers : stream[w] \in {"off", "closed"} \cup Running

\* What holds of the calls, the limit and the streams at any time.
AgentInvariant ==
    TypeOK /\ OvershootBounded /\ LimitHeeded /\ AnswerOfItsModel /\ StreamsOpen

\* A row ends once: no late event, second model or second cancellation changes the
\* verdict of an ended call, and only a call that ran is DONE.
VerdictFinal ==
    [][\A r \in Runs :
        /\ row[r].status \in {"BLOCKED", "DONE", "FAILED"} =>
                row'[r] = [row[r] EXCEPT !.usage = row'[r].usage]
        /\ row'[r].status = "DONE" => row[r].status \in {"RUNNING", "DONE"}]_vars
=============================================================================
