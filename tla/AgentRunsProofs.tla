--------------------------- MODULE AgentRunsProofs ---------------------------
(***************************************************************************)
(* Proofs about AgentRuns, for any calls, limit, parallelism and streams:  *)
(* how far the daily limit is overshot, what becomes of a rate limit, and  *)
(* that a row ends once.                                                   *)
(***************************************************************************)
EXTENDS AgentRuns, FiniteSetTheorems, TLAPS

-----------------------------------------------------------------------------
(* The inductive invariant. *)

Rows == [status : {"none", "BLOCKED", "RUNNING", "DONE", "FAILED"},
         error : {"none", "user_cancelled", "exception", "auth_failed", "error"},
         model : Models \cup {"none"}, usage : Models \cup {"none"}, answer : Models \cup {"none"}]
Calls == [suppress : BOOLEAN, limited : BOOLEAN, opened : BOOLEAN]
Guards == [day : 0..MaxTime, count : Nat]

\* What the row k, the memory c and the orphaned child of one call have to do with each other.
\* Rate limits are kept quiet only while another model may still be asked, and one that was
\* not kept quiet has opened the circuit; a call with an answer has no child left.
Fits(k, c, orphan) ==
    /\ k.status = "none" => k = Idle /\ c = NoCall /\ ~orphan
    /\ k.status = "RUNNING" => k.answer = "none" /\ ~orphan
    /\ orphan => k.answer = "none"
    /\ c.suppress => Fallback /\ k.model = "primary"
    /\ c.limited /\ ~c.suppress => c.opened
    /\ k.answer # "none" /\ c.limited => c.opened
    /\ k.answer \in {"none", k.model} /\ k.usage \in {"none", k.model}

CallsHeld == \A r \in Runs : Fits(row[r], call[r], r \in orphans)

\* LimitHeeded is not inductive: that an answer has no unheeded rate limit behind it depends on
\* what was suppressed while its model ran, which Fits says of every call.
IInv == TypeOK /\ CallsHeld /\ OvershootBounded /\ StreamsOpen

-----------------------------------------------------------------------------
(* The clock and the sets of calls. *)

LEMMA Typed ==
  ASSUME TypeOK
  PROVE /\ now \in Nat /\ guard \in Guards /\ orphans \subseteq Runs
        /\ row \in [Runs -> Rows] /\ call \in [Runs -> Calls]
  BY AgentAssumption DEF TypeOK, Rows, Calls, Guards

LEMMA DivBounded ==
  ASSUME NEW n \in Nat, NEW d \in Nat, d >= 1
  PROVE n \div d \in 0..n
<1>1. n \div d \in Int /\ n % d \in Nat /\ n % d < d
  OBVIOUS
<1>2. n = d * (n \div d) + (n % d)
  OBVIOUS
<1>3. ASSUME NEW q \in Int, NEW r \in Nat, r < d, n = d * q + r PROVE q >= 0
  BY <1>3
<1>4. n \div d >= 0
  BY <1>1, <1>2, <1>3
<1>5. ASSUME NEW q \in Nat PROVE d * q >= q /\ d * q \in Int
  OBVIOUS
<1>6. d * (n \div d) >= n \div d /\ d * (n \div d) \in Int
  BY <1>1, <1>4, <1>5
<1> QED BY <1>1, <1>2, <1>4, <1>6

LEMMA TodayTyped ==
  ASSUME TypeOK
  PROVE Today \in 0..MaxTime
<1>1. now \in 0..MaxTime /\ MaxTime \in Nat /\ DayLength \in Nat /\ DayLength >= 1
  BY AgentAssumption DEF TypeOK
<1>2. now \div DayLength \in 0..now
  BY <1>1, DivBounded
<1> QED BY <1>1, <1>2 DEF Today

LEMMA RenewedTyped ==
  ASSUME TypeOK
  PROVE Renewed \in Guards /\ Renewed.count <= guard.count
<1>1. guard \in Guards /\ Today \in 0..MaxTime
  BY Typed, TodayTyped
<1> QED BY <1>1 DEF Renewed, Guards

LEMMA RunningFinite ==
  /\ IsFiniteSet(Running) /\ Cardinality(Running) \in Nat
  /\ IsFiniteSet(Running)' /\ Cardinality(Running)' \in Nat
<1>1. Running \in SUBSET Runs /\ Running' \in SUBSET Runs
  BY DEF Running
<1>2. IsFiniteSet(Runs)
  BY AgentAssumption
<1>3. IsFiniteSet(Running) /\ IsFiniteSet(Running')
  BY <1>1, <1>2, FS_Subset
<1> QED BY <1>3, FS_CardinalityType

\* The row and the memory of one call replaced.
Becomes(r, k, c) == row' = [row EXCEPT ![r] = k] /\ call' = [call EXCEPT ![r] = c]

LEMMA OthersHeld ==
  ASSUME IInv, NEW r \in Runs, NEW k \in Rows, NEW c \in Calls, Becomes(r, k, c)
  PROVE /\ row' \in [Runs -> Rows] /\ row'[r] = k /\ call' \in [Runs -> Calls] /\ call'[r] = c
        /\ \A s \in Runs \ {r} : row'[s] = row[s] /\ call'[s] = call[s]
<1>1. row \in [Runs -> Rows] /\ call \in [Runs -> Calls]
  BY Typed DEF IInv
<1> QED BY <1>1 DEF Becomes

LEMMA RunningAfter ==
  ASSUME IInv, NEW r \in Runs, NEW k \in Rows, NEW c \in Calls, Becomes(r, k, c)
  PROVE /\ k.status = "RUNNING" => Running' = Running \cup {r}
        /\ k.status # "RUNNING" => Running' = Running \ {r}
  BY OthersHeld DEF Running

LEMMA CountAfter ==
  ASSUME IInv, NEW r \in Runs, NEW k \in Rows, NEW c \in Calls, Becomes(r, k, c)
  PROVE /\ k.status = "RUNNING" => Cardinality(Running)' = Cardinality(Running) + (IF r \in Running THEN 0 ELSE 1)
        /\ k.status # "RUNNING" => Cardinality(Running)' = Cardinality(Running) - (IF r \in Running THEN 1 ELSE 0)
<1>1. Cardinality(Running \cup {r}) = IF r \in Running THEN Cardinality(Running) ELSE Cardinality(Running) + 1
  BY RunningFinite, FS_AddElement
<1>2. Cardinality(Running \ {r}) = IF r \in Running THEN Cardinality(Running) - 1 ELSE Cardinality(Running)
  BY RunningFinite, FS_RemoveElement
<1>3. Cardinality(Running) \in Nat
  BY RunningFinite
<1>4. k.status = "RUNNING" => Cardinality(Running)' = Cardinality(Running \cup {r})
  BY RunningAfter
<1>5. k.status # "RUNNING" => Cardinality(Running)' = Cardinality(Running \ {r})
  BY RunningAfter
<1> QED BY <1>1, <1>2, <1>3, <1>4, <1>5

-----------------------------------------------------------------------------
(* What a step of one call changes. *)

\* The limit after a step: fewer calls are counted and under way than before, or few enough.
LEMMA OvershootKept ==
  ASSUME IInv, NEW r \in Runs, NEW k \in Rows, NEW c \in Calls, Becomes(r, k, c), guard' \in Guards,
         \/ guard'.count + (IF k.status = "RUNNING" THEN 1 ELSE 0) <= guard.count + (IF r \in Running THEN 1 ELSE 0)
         \/ r \notin Running /\ Cardinality(Running) < Parallel /\ (Limit # NoLimit => guard'.count < Limit)
  PROVE OvershootBounded'
<1> SUFFICES ASSUME Limit # NoLimit
             PROVE guard'.count + Cardinality(Running)' <= (IF Limit = 0 THEN 0 ELSE Limit + Parallel - 1)
  BY DEF OvershootBounded
<1>1. Limit \in Nat /\ Parallel \in Nat /\ Parallel >= 1
  BY AgentAssumption
<1>2. guard.count \in Nat /\ guard'.count \in Nat
  BY Typed DEF IInv, Guards
<1>3. Cardinality(Running) \in Nat /\ Cardinality(Running)' \in Nat
  BY RunningFinite
<1>4. guard.count + Cardinality(Running) <= (IF Limit = 0 THEN 0 ELSE Limit + Parallel - 1)
  BY DEF IInv, OvershootBounded
<1>5. Cardinality(Running)' + (IF r \in Running THEN 1 ELSE 0) = Cardinality(Running) + (IF k.status = "RUNNING" THEN 1 ELSE 0)
  <2>1. k.status = "RUNNING" => Cardinality(Running)' = Cardinality(Running) + (IF r \in Running THEN 0 ELSE 1)
    BY CountAfter
  <2>2. k.status # "RUNNING" => Cardinality(Running)' = Cardinality(Running) - (IF r \in Running THEN 1 ELSE 0)
    BY CountAfter
  <2> QED BY <2>1, <2>2, <1>3
<1> QED BY <1>1, <1>2, <1>3, <1>4, <1>5

\* The streams after a step: those of a call that ends are closed.
LEMMA StreamsKept ==
  ASSUME IInv, NEW r \in Runs, NEW k \in Rows, NEW c \in Calls, Becomes(r, k, c),
         stream' = ClosedFor(r) \/ (stream' = stream /\ (r \in Running => k.status = "RUNNING"))
  PROVE StreamsOpen' /\ stream' \in [Watchers -> Runs \cup {"off", "closed"}]
<1>1. stream \in [Watchers -> Runs \cup {"off", "closed"}] /\ StreamsOpen
  BY DEF IInv, TypeOK
<1>2. Running \ {r} \subseteq Running' /\ (k.status = "RUNNING" => Running' = Running \cup {r})
  BY RunningAfter
<1>3. CASE stream' = ClosedFor(r)
  BY <1>1, <1>2, <1>3 DEF ClosedFor, StreamsOpen
<1>4. CASE stream' = stream /\ (r \in Running => k.status = "RUNNING")
  BY <1>1, <1>2, <1>4 DEF StreamsOpen
<1> QED BY <1>3, <1>4

LEMMA StepHeld ==
  ASSUME IInv, NEW r \in Runs, NEW k \in Rows, NEW c \in Calls, Becomes(r, k, c),
         orphans' \subseteq Runs, orphans' \ {r} = orphans \ {r}, Fits(k, c, r \in orphans'),
         now' = now, openUntil' \in 0..(MaxTime + 1), guard' \in Guards,
         \/ guard'.count + (IF k.status = "RUNNING" THEN 1 ELSE 0) <= guard.count + (IF r \in Running THEN 1 ELSE 0)
         \/ r \notin Running /\ Cardinality(Running) < Parallel /\ (Limit # NoLimit => guard'.count < Limit),
         stream' = ClosedFor(r) \/ (stream' = stream /\ (r \in Running => k.status = "RUNNING"))
  PROVE IInv'
<1>1. /\ row' \in [Runs -> Rows] /\ row'[r] = k /\ call' \in [Runs -> Calls] /\ call'[r] = c
      /\ \A s \in Runs \ {r} : row'[s] = row[s] /\ call'[s] = call[s]
  BY OthersHeld
<1>2. StreamsOpen' /\ stream' \in [Watchers -> Runs \cup {"off", "closed"}]
  BY StreamsKept
<1>3. OvershootBounded'
  BY OvershootKept
<1>4. TypeOK'
  BY <1>1, <1>2 DEF IInv, TypeOK, Rows, Calls, Guards
<1>5. CallsHeld'
  <2> SUFFICES ASSUME NEW s \in Runs PROVE Fits(row'[s], call'[s], s \in orphans')
    BY DEF CallsHeld
  <2>1. CASE s = r
    BY <1>1, <2>1
  <2>2. CASE s # r
    <3>1. Fits(row[s], call[s], s \in orphans)
      BY DEF IInv, CallsHeld
    <3>2. (s \in orphans') <=> (s \in orphans)
      BY <2>2
    <3> QED BY <1>1, <2>2, <3>1, <3>2 DEF Fits
  <2> QED BY <2>1, <2>2
<1> QED BY <1>2, <1>3, <1>4, <1>5 DEF IInv

LEMMA CallIs ==
  ASSUME IInv, NEW r \in Runs
  PROVE /\ row[r] \in Rows /\ call[r] \in Calls /\ Fits(row[r], call[r], r \in orphans)
        /\ row \in [Runs -> Rows] /\ call \in [Runs -> Calls] /\ guard \in Guards /\ guard.count \in Nat
        /\ orphans \subseteq Runs /\ openUntil \in 0..(MaxTime + 1)
        /\ r \in Running <=> row[r].status = "RUNNING"
  BY Typed DEF IInv, CallsHeld, Guards, Running, TypeOK

-----------------------------------------------------------------------------
(* The actions. *)

LEMMA StartHeld ==
  ASSUME IInv, NEW r \in Runs, Start(r)
  PROVE IInv'
<1>1. /\ row[r] \in Rows /\ call[r] \in Calls /\ row \in [Runs -> Rows] /\ call \in [Runs -> Calls]
      /\ guard \in Guards /\ guard.count \in Nat /\ orphans \subseteq Runs /\ openUntil \in 0..(MaxTime + 1)
  BY CallIs
<1>2. /\ row[r] = Idle /\ call[r] = NoCall /\ r \notin orphans /\ r \notin Running
      /\ Cardinality(Running) < Parallel /\ UNCHANGED <<now, openUntil, stream>>
  BY CallIs DEF Start, Fits
<1>3. guard' \in Guards /\ guard'.count <= guard.count /\ guard'.count \in Nat
  BY <1>1, RenewedTyped DEF IInv, Start, Guards
<1>4. CASE row' = [row EXCEPT ![r].status = "BLOCKED"] /\ UNCHANGED <<call, orphans>>
  <2> DEFINE k == [Idle EXCEPT !.status = "BLOCKED"]
  <2>1. k \in Rows /\ Becomes(r, k, NoCall) /\ NoCall \in Calls
    BY <1>1, <1>2, <1>4 DEF Rows, Idle, Becomes, NoCall, Calls
  <2>2. k.status = "BLOCKED" /\ k.answer = "none" /\ k.usage = "none"
    BY DEF Idle
  <2> HIDE DEF k
  <2>3. Fits(k, NoCall, r \in orphans')
    BY <1>2, <1>4, <2>2 DEF Fits, NoCall
  <2> QED BY <1>1, <1>2, <1>3, <1>4, <2>1, <2>2, <2>3, StepHeld
<1>5. ASSUME ~CircuitOpen, Allows, call' = [call EXCEPT ![r].suppress = Fallback],
             NEW k \in Rows, row' = [row EXCEPT ![r] = k],
             k.model = "primary", k.answer = "none", k.usage = "none",
             k.status \in {"RUNNING", "FAILED"}, orphans' = (IF k.status = "RUNNING" THEN orphans ELSE orphans \cup {r})
      PROVE IInv'
  <2> DEFINE c == [NoCall EXCEPT !.suppress = Fallback]
  <2>1. c \in Calls /\ Becomes(r, k, c)
    BY <1>1, <1>2, <1>5, AgentAssumption DEF Becomes, NoCall, Calls
  <2>2. c.suppress = Fallback /\ ~c.limited
    BY DEF NoCall
  <2> HIDE DEF c
  <2>3. Fits(k, c, r \in orphans')
    BY <1>2, <1>5, <2>2 DEF Fits
  <2>4. guard' = Renewed /\ (Limit # NoLimit => Renewed.count < Limit)
    BY <1>5 DEF Allows, Start
  <2>5. CASE k.status = "FAILED"
    BY <1>1, <1>2, <1>3, <1>5, <2>1, <2>3, <2>5, StepHeld
  <2>6. CASE k.status = "RUNNING"
    BY <1>1, <1>2, <1>3, <1>5, <2>1, <2>3, <2>4, <2>6, StepHeld
  <2> QED BY <1>5, <2>5, <2>6
<1>6. CASE /\ ~CircuitOpen /\ Allows /\ call' = [call EXCEPT ![r].suppress = Fallback]
           /\ row' = [row EXCEPT ![r].status = "RUNNING", ![r].model = "primary"] /\ orphans' = orphans
  <2> DEFINE k == [row[r] EXCEPT !.status = "RUNNING", !.model = "primary"]
  <2>1. k \in Rows /\ row' = [row EXCEPT ![r] = k]
    BY <1>1, <1>6 DEF Rows, Models
  <2>2. k.model = "primary" /\ k.answer = "none" /\ k.usage = "none" /\ k.status = "RUNNING"
    BY <1>1, <1>2 DEF Idle
  <2> HIDE DEF k
  <2> QED BY <1>5, <1>6, <2>1, <2>2
<1>7. CASE /\ ~CircuitOpen /\ Allows /\ call' = [call EXCEPT ![r].suppress = Fallback]
           /\ row' = [row EXCEPT ![r].status = "FAILED", ![r].model = "primary", ![r].error = "user_cancelled"] /\ orphans' = orphans \cup {r}
  <2> DEFINE k == [row[r] EXCEPT !.status = "FAILED", !.model = "primary", !.error = "user_cancelled"]
  <2>1. k \in Rows /\ row' = [row EXCEPT ![r] = k]
    BY <1>1, <1>7 DEF Rows, Models
  <2>2. k.model = "primary" /\ k.answer = "none" /\ k.usage = "none" /\ k.status = "FAILED"
    BY <1>1, <1>2 DEF Idle
  <2> HIDE DEF k
  <2> QED BY <1>5, <1>7, <2>1, <2>2
<1> QED BY <1>4, <1>6, <1>7 DEF Start

LEMMA UsageHeld ==
  ASSUME IInv, NEW r \in Runs, Usage(r)
  PROVE IInv'
<1>1. /\ row[r] \in Rows /\ call[r] \in Calls /\ row \in [Runs -> Rows] /\ call \in [Runs -> Calls]
      /\ Fits(row[r], call[r], r \in orphans) /\ guard \in Guards /\ guard.count \in Nat
      /\ orphans \subseteq Runs /\ openUntil \in 0..(MaxTime + 1) /\ (r \in Running <=> row[r].status = "RUNNING")
  BY CallIs
<1>2. /\ r \in Running \cup orphans /\ row[r].status # "none" /\ UNCHANGED <<now, guard, openUntil, call, orphans, stream>>
  BY <1>1 DEF Usage, Fits
<1> DEFINE k == [row[r] EXCEPT !.usage = row[r].model]
<1>3. k \in Rows /\ Becomes(r, k, call[r])
  BY <1>1 DEF Usage, Rows, Becomes
<1>4. k.status = row[r].status /\ k.answer = row[r].answer /\ k.model = row[r].model /\ k.usage = k.model
  BY <1>1 DEF Rows
<1> HIDE DEF k
<1>5. Fits(k, call[r], r \in orphans')
  BY <1>1, <1>2, <1>4 DEF Fits
<1> QED BY <1>1, <1>2, <1>3, <1>4, <1>5, StepHeld

LEMMA RateLimitHeld ==
  ASSUME IInv, NEW r \in Runs, NEW until \in 0..(MaxTime + 1), RateLimit(r, until)
  PROVE IInv'
<1>1. /\ row[r] \in Rows /\ call[r] \in Calls /\ row \in [Runs -> Rows] /\ call \in [Runs -> Calls]
      /\ Fits(row[r], call[r], r \in orphans) /\ guard \in Guards /\ guard.count \in Nat
      /\ orphans \subseteq Runs /\ openUntil \in 0..(MaxTime + 1) /\ (r \in Running <=> row[r].status = "RUNNING")
  BY CallIs
<1>2. /\ r \in Running \cup orphans /\ row[r].status # "none" /\ row[r].answer = "none"
      /\ UNCHANGED <<now, guard, row, orphans, stream>> /\ openUntil' \in 0..(MaxTime + 1)
  BY <1>1 DEF RateLimit, Fits, Opened
<1> DEFINE c == [call[r] EXCEPT !.limited = TRUE, !.opened = @ \/ ~call[r].suppress]
<1>3. (call[r].opened \/ ~call[r].suppress) \in BOOLEAN
  BY <1>1 DEF Calls
<1>4. c \in Calls
  BY <1>1, <1>3 DEF Calls
<1>5. Becomes(r, row[r], c)
  <2>1. CASE call[r].suppress /\ call' = [call EXCEPT ![r].limited = TRUE]
    <3>1. (call[r].opened \/ ~call[r].suppress) = call[r].opened
      BY <1>1, <2>1 DEF Calls
    <3>2. c = [call[r] EXCEPT !.limited = TRUE]
      BY <1>1, <3>1 DEF Calls
    <3> HIDE DEF c
    <3> QED BY <1>1, <1>2, <2>1, <3>2 DEF Becomes
  <2>2. CASE ~call[r].suppress /\ call' = [call EXCEPT ![r].limited = TRUE, ![r].opened = TRUE]
    BY <1>1, <1>2, <2>2 DEF Becomes, Calls
  <2> QED BY <2>1, <2>2 DEF RateLimit
<1>6. c.limited /\ (~c.suppress => c.opened) /\ c.suppress = call[r].suppress
  BY <1>1 DEF Calls
<1> HIDE DEF c
<1>7. Fits(row[r], c, r \in orphans')
  BY <1>1, <1>2, <1>6 DEF Fits
<1> QED BY <1>1, <1>2, <1>4, <1>5, <1>7, StepHeld

\* An end of a call without an answer.
LEMMA EndHeld ==
  ASSUME IInv, NEW r \in Runs, r \in Running, NEW error \in {"user_cancelled", "exception"},
         row' = [row EXCEPT ![r].status = "FAILED", ![r].error = error],
         orphans' \in {orphans, orphans \cup {r}}, stream' = ClosedFor(r), UNCHANGED <<now, guard, openUntil, call>>
  PROVE IInv'
<1>1. /\ row[r] \in Rows /\ call[r] \in Calls /\ row \in [Runs -> Rows] /\ call \in [Runs -> Calls]
      /\ Fits(row[r], call[r], r \in orphans) /\ guard \in Guards /\ guard.count \in Nat
      /\ orphans \subseteq Runs /\ openUntil \in 0..(MaxTime + 1) /\ (r \in Running <=> row[r].status = "RUNNING")
  BY CallIs
<1> DEFINE k == [row[r] EXCEPT !.status = "FAILED", !.error = error]
<1>2. k \in Rows /\ Becomes(r, k, call[r])
  BY <1>1 DEF Rows, Becomes
<1>3. k.status = "FAILED" /\ k.answer = "none" /\ k.model = row[r].model /\ k.usage = row[r].usage
  BY <1>1 DEF Rows, Fits
<1> HIDE DEF k
<1>4. Fits(k, call[r], r \in orphans')
  BY <1>1, <1>3 DEF Fits
<1> QED BY <1>1, <1>2, <1>3, <1>4, StepHeld

LEMMA SecondModelHeld ==
  ASSUME IInv, NEW r \in Runs, NEW outcome \in Outcomes, r \in Running, SecondModel(r, outcome),
         UNCHANGED <<now, openUntil, orphans>>
  PROVE IInv'
<1>1. /\ row[r] \in Rows /\ call[r] \in Calls /\ row \in [Runs -> Rows] /\ call \in [Runs -> Calls]
      /\ Fits(row[r], call[r], r \in orphans) /\ guard \in Guards /\ guard.count \in Nat
      /\ orphans \subseteq Runs /\ openUntil \in 0..(MaxTime + 1) /\ (r \in Running <=> row[r].status = "RUNNING")
  BY CallIs
<1> DEFINE k == [row[r] EXCEPT !.model = "fallback", !.usage = "none"]
           c == [call[r] EXCEPT !.suppress = FALSE, !.limited = FALSE]
<1>2. k \in Rows /\ c \in Calls /\ Becomes(r, k, c) /\ UNCHANGED <<guard, stream>>
  BY <1>1 DEF SecondModel, Rows, Calls, Models, Becomes
<1>3. /\ k.status = "RUNNING" /\ k.answer = "none" /\ k.model = "fallback" /\ k.usage = "none"
      /\ ~c.suppress /\ ~c.limited
  BY <1>1 DEF Rows, Calls, Fits
<1> HIDE DEF k, c
<1>4. Fits(k, c, r \in orphans')
  BY <1>1, <1>3 DEF Fits
<1> QED BY <1>1, <1>2, <1>3, <1>4, StepHeld

\* An answer is kept only when no other model may be asked: then the rate limits of its model
\* were not kept quiet, or there were none.
LEMMA SettleHeld ==
  ASSUME IInv, NEW r \in Runs, NEW outcome \in Outcomes, r \in Running, Settle(r, outcome),
         UNCHANGED <<now, openUntil, orphans>>
  PROVE IInv'
<1>1. /\ row[r] \in Rows /\ call[r] \in Calls /\ row \in [Runs -> Rows] /\ call \in [Runs -> Calls]
      /\ Fits(row[r], call[r], r \in orphans) /\ guard \in Guards /\ guard.count \in Nat
      /\ orphans \subseteq Runs /\ openUntil \in 0..(MaxTime + 1) /\ (r \in Running <=> row[r].status = "RUNNING")
  BY CallIs
<1> DEFINE status == IF outcome = "success" THEN "DONE" ELSE "FAILED"
           error == CASE outcome = "success" -> "none"
                      [] outcome \in {"auth", "disguised"} -> "auth_failed"
                      [] OTHER -> "error"
           k == [row[r] EXCEPT !.usage = row[r].model, !.answer = row[r].model, !.status = status, !.error = error]
<1>2. status \in {"DONE", "FAILED"} /\ error \in {"none", "auth_failed", "error"}
  OBVIOUS
<1>3. row' = [row EXCEPT ![r].usage = row[r].model, ![r].answer = row[r].model, ![r].status = status, ![r].error = error]
  BY DEF Settle
<1> HIDE DEF status, error
<1>4. k \in Rows /\ row' = [row EXCEPT ![r] = k]
  BY <1>1, <1>2, <1>3 DEF Rows
<1>5. k.status = status /\ k.answer = row[r].model /\ k.model = row[r].model /\ k.usage = row[r].model
  BY <1>1 DEF Rows
<1> HIDE DEF k
<1>6. Becomes(r, k, call[r])
  BY <1>1, <1>4 DEF Settle, Becomes
<1>7. call[r].limited => call[r].opened
  <2>1. call[r].limited /\ call[r].suppress => Replaceable(r, outcome)
    BY <1>1 DEF Fits, Replaceable
  <2> QED BY <1>1, <2>1 DEF Fits, Settle
<1>8. Fits(k, call[r], r \in orphans')
  BY <1>1, <1>2, <1>5, <1>7 DEF Fits
<1>9. guard' \in Guards /\ guard'.count <= guard.count + 1
  <2>1. Renewed \in Guards /\ Renewed.count <= guard.count /\ Renewed.count \in Nat
    BY RenewedTyped DEF IInv, Guards
  <2>2. [Renewed EXCEPT !.count = @ + 1] \in Guards /\ [Renewed EXCEPT !.count = @ + 1].count = Renewed.count + 1
    BY <2>1 DEF Guards
  <2> DEFINE counted == [Renewed EXCEPT !.count = @ + 1]
  <2>3. guard' = counted \/ guard' = guard
    BY DEF Settle
  <2>4. counted.count <= guard.count + 1 /\ counted \in Guards
    BY <1>1, <2>1, <2>2
  <2> HIDE DEF counted
  <2>5. CASE guard' = counted
    BY <2>4, <2>5
  <2>6. CASE guard' = guard
    BY <1>1, <2>6
  <2> QED BY <2>3, <2>5, <2>6
<1>10. guard'.count \in Nat /\ stream' = ClosedFor(r)
  BY <1>9 DEF Guards, Settle
<1> QED BY <1>1, <1>2, <1>4, <1>5, <1>6, <1>8, <1>9, <1>10, StepHeld

LEMMA CallEndsHeld ==
  ASSUME IInv, NEW r \in Runs, CallEnds(r)
  PROVE IInv'
<1>1. CASE Throws(r)
  BY <1>1, EndHeld DEF Throws
<1>2. ASSUME NEW outcome \in Outcomes, ModelAnswers(r, outcome) PROVE IInv'
  BY <1>2, SecondModelHeld, SettleHeld DEF ModelAnswers
<1> QED BY <1>1, <1>2 DEF CallEnds

LEMMA CancelHeld ==
  ASSUME IInv, NEW r \in Runs, Cancel(r)
  PROVE IInv'
  BY EndHeld DEF Cancel, Cancellable

LEMMA OrphanDiesHeld ==
  ASSUME IInv, NEW r \in Runs, OrphanDies(r)
  PROVE IInv'
<1>1. /\ row[r] \in Rows /\ call[r] \in Calls /\ row \in [Runs -> Rows] /\ call \in [Runs -> Calls]
      /\ Fits(row[r], call[r], r \in orphans) /\ guard \in Guards /\ guard.count \in Nat
      /\ orphans \subseteq Runs /\ openUntil \in 0..(MaxTime + 1) /\ (r \in Running <=> row[r].status = "RUNNING")
  BY CallIs
<1>2. /\ r \in orphans /\ row[r].status # "RUNNING" /\ orphans' = orphans \ {r}
      /\ UNCHANGED <<now, guard, openUntil, row, call, stream>>
  BY <1>1 DEF OrphanDies, Fits
<1>3. Fits(row[r], call[r], r \in orphans') /\ Becomes(r, row[r], call[r])
  BY <1>1, <1>2 DEF Fits, Becomes
<1>4. row[r].status = "RUNNING" <=> r \in Running
  BY <1>1
<1> QED BY <1>1, <1>2, <1>3, <1>4, StepHeld

\* The clock and the dashboard: no call changes.
LEMMA CallsLeft ==
  ASSUME IInv, UNCHANGED <<guard, openUntil, row, call, orphans>>, now' \in 0..MaxTime,
         stream' \in [Watchers -> Runs \cup {"off", "closed"}], StreamsOpen'
  PROVE IInv'
<1>1. TypeOK'
  BY DEF IInv, TypeOK
<1>2. CallsHeld' /\ OvershootBounded'
  BY DEF IInv, CallsHeld, Fits, OvershootBounded, Running
<1> QED BY <1>1, <1>2 DEF IInv

LEMMA OthersStep ==
  ASSUME IInv, Tick \/ \E w \in Watchers : Leave(w) \/ \E r \in Runs : Watch(w, r)
  PROVE IInv'
<1>1. /\ stream \in [Watchers -> Runs \cup {"off", "closed"}] /\ StreamsOpen /\ now \in 0..MaxTime /\ MaxTime \in Nat
  BY AgentAssumption DEF IInv, TypeOK
<1>2. CASE Tick
  BY <1>1, <1>2, CallsLeft DEF Tick, StreamsOpen, Running
<1>3. ASSUME NEW w \in Watchers, Leave(w) PROVE IInv'
  BY <1>1, <1>3, CallsLeft DEF Leave, StreamsOpen, Running
<1>4. ASSUME NEW w \in Watchers, NEW r \in Runs, Watch(w, r) PROVE IInv'
  <2>1. UNCHANGED <<now, guard, openUntil, row, call, orphans>> /\ Running' = Running
    BY <1>4 DEF Watch, Running
  <2>2. stream' \in [Watchers -> Runs \cup {"off", "closed"}] /\ StreamsOpen'
    BY <1>1, <1>4, <2>1 DEF Watch, StreamsOpen
  <2> QED BY <1>1, <2>1, <2>2, CallsLeft
<1> QED BY <1>2, <1>3, <1>4

LEMMA AgentStarts == Init => IInv
<1> SUFFICES ASSUME Init PROVE IInv
  OBVIOUS
<1>1. Idle \in Rows /\ NoCall \in Calls
  BY DEF Idle, NoCall, Rows, Calls, Models
<1>2. TypeOK
  BY <1>1, AgentAssumption DEF Init, TypeOK, Rows, Calls
<1>3. Running = {}
  BY DEF Init, Idle, Running
<1>4. CallsHeld
  BY DEF Init, CallsHeld, Fits, Idle, NoCall
<1>5. OvershootBounded
  <2>1. Cardinality(Running) = 0
    BY <1>3, FS_EmptySet
  <2> QED BY <2>1, AgentAssumption DEF Init, OvershootBounded
<1>6. StreamsOpen
  BY DEF Init, StreamsOpen
<1> QED BY <1>2, <1>4, <1>5, <1>6 DEF IInv

LEMMA AgentStep == IInv /\ [Next]_vars => IInv'
<1> SUFFICES ASSUME IInv, [Next]_vars PROVE IInv'
  OBVIOUS
<1>1. CASE UNCHANGED vars
  BY <1>1 DEF vars, IInv, TypeOK, CallsHeld, Fits, OvershootBounded, StreamsOpen, Running
<1>2. CASE Tick \/ \E w \in Watchers : Leave(w) \/ \E r \in Runs : Watch(w, r)
  BY <1>2, OthersStep
<1>3. ASSUME NEW r \in Runs,
             \/ Start(r) \/ Usage(r) \/ Cancel(r) \/ CallEnds(r) \/ OrphanDies(r)
             \/ \E until \in 0..(MaxTime + 1) : RateLimit(r, until)
      PROVE IInv'
  BY <1>3, StartHeld, UsageHeld, CancelHeld, CallEndsHeld, OrphanDiesHeld, RateLimitHeld
<1> QED BY <1>1, <1>2, <1>3 DEF Next

-----------------------------------------------------------------------------
(* The theorems. *)

\* What runner.ts, the guards and the event streams keep between two macrotasks.
THEOREM AgentInvariance == Spec => []IInv
<1>1. Init => IInv
  BY AgentStarts
<1>2. IInv /\ [Next]_vars => IInv'
  BY AgentStep
<1> QED BY <1>1, <1>2, PTL DEF Spec

\* For any number of calls and any limit: the daily limit (cost-guard.ts) is overshot by at most
\* the calls under way less one, a rate limit no model got round has opened the circuit
\* (runner.ts, circuit-breaker.ts), a row names the model it quotes, and no stream hangs on
\* a row that is over (run-events.ts).
THEOREM AgentSound == Spec => []AgentInvariant
<1>1. IInv => AgentInvariant
  BY DEF IInv, AgentInvariant, CallsHeld, Fits, LimitHeeded, AnswerOfItsModel
<1> QED BY <1>1, AgentInvariance, PTL

\* A row ends once (runner.ts): whatever a call whose child goes on still hears, and whoever
\* cancels it, its verdict stays.
THEOREM RowsEndOnce == Spec => VerdictFinal
<1>1. ASSUME IInv, [Next]_vars, NEW r \in Runs
      PROVE /\ row[r].status \in {"BLOCKED", "DONE", "FAILED"} => row'[r] = [row[r] EXCEPT !.usage = row'[r].usage]
            /\ row'[r].status = "DONE" => row[r].status \in {"RUNNING", "DONE"}
  <2>1. row \in [Runs -> Rows] /\ row[r] \in Rows
    BY <1>1, CallIs
  <2>2. CASE row' = row
    BY <2>1, <2>2 DEF Rows
  <2>3. ASSUME NEW s \in Runs, Start(s) PROVE row[r] = row'[r] \/ (row[r].status = "none" /\ row'[r].status # "DONE")
    BY <2>1, <2>3 DEF Start, Rows
  <2>4. ASSUME NEW s \in Runs, Usage(s) PROVE row'[r] = row[r] \/ row'[r] = [row[r] EXCEPT !.usage = row'[r].usage]
    BY <2>1, <2>4 DEF Usage, Rows
  <2>5. ASSUME NEW s \in Runs, Cancel(s) \/ CallEnds(s) PROVE row'[r] = row[r] \/ row[r].status = "RUNNING"
    BY <2>1, <2>5 DEF Cancel, Cancellable, CallEnds, Throws, ModelAnswers, SecondModel, Settle, Running, Rows
  <2>6. \/ row' = row
        \/ \E s \in Runs : Start(s) \/ Usage(s) \/ Cancel(s) \/ CallEnds(s)
    BY <1>1 DEF Next, vars, Tick, OrphanDies, RateLimit, Leave, Watch
  <2>7. row[r] = [row[r] EXCEPT !.usage = row[r].usage]
    BY <2>1 DEF Rows
  <2>8. [row[r] EXCEPT !.usage = row'[r].usage].status = row[r].status
    BY <2>1 DEF Rows
  <2> QED BY <2>2, <2>3, <2>4, <2>5, <2>6, <2>7, <2>8
<1>2. IInv /\ [Next]_vars =>
        \A r \in Runs :
            /\ row[r].status \in {"BLOCKED", "DONE", "FAILED"} => row'[r] = [row[r] EXCEPT !.usage = row'[r].usage]
            /\ row'[r].status = "DONE" => row[r].status \in {"RUNNING", "DONE"}
  BY <1>1
<1> QED BY <1>2, AgentInvariance, PTL DEF Spec, VerdictFinal
=============================================================================
