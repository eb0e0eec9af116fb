------------------------- MODULE SpecSessionsProofs -------------------------
(***************************************************************************)
(* Proofs about SpecSessions, for any number of runs, of rounds and of     *)
(* shared worktrees: what a user said reaches every later run, a delivery  *)
(* said to be made has its pull request, the commit of a worktree stays,   *)
(* and where a resumed run starts.                                         *)
(***************************************************************************)
EXTENDS SpecSessions, FiniteSetTheorems, SequenceTheorems, TLAPS

-----------------------------------------------------------------------------
(* The inductive invariant. *)

Statuses == {"none", "RUNNING", "DONE", "FAILED"}
Checkpoints == {"none", "RUNNING", "WAITING_USER", "DELIVERY_PENDING", "SUCCEEDED",
                "FAILED", "CANCELLED", "RECOVERY_REQUIRED"}
Phases == {"none", "steps", "audit", "commit", "push", "over"}
RunType == [status : Statuses, cp : Checkpoints, parent : 0..MaxRuns, tree : 0..MaxRuns,
            rounds : Seq(Rounds), saved : Seq(Rounds), known : Deliveries, mem : Deliveries,
            phase : Phases, alive : BOOLEAN, saves : BOOLEAN, verified : BOOLEAN, sure : BOOLEAN,
            asked : BOOLEAN]
TreeType == [work : SUBSET Runs, commit : SUBSET Runs, by : 0..MaxRuns, pr : BOOLEAN]

\* History `late` keeps history `early`, whose last instruction may be replaced and whose
\* last round may be answered.
Grown(early, late) ==
    /\ Len(early) <= Len(late)
    /\ \A i \in 1..Len(early) :
            /\ i < Len(early) => late[i] = early[i]
            /\ late[i].asked = early[i].asked
            /\ early[i].answer # NoRun => late[i].answer = early[i].answer

\* What holds of a launched run by itself.
Sound(r) ==
    /\ \/ run[r].known.status # "none" \/ run[r].mem.status # "none"
       \/ run[r].phase \in {"audit", "commit", "push"} \/ run[r].cp = "DELIVERY_PENDING"
       => run[r].tree # NoRun
    /\ run[r].tree = r =>
            /\ run[r].phase = "steps" => run[r].mem.status # "DELIVERY_PENDING"
            /\ run[r].phase \in {"audit", "commit", "push"} \/ run[r].cp = "DELIVERY_PENDING" => run[r].verified
    /\ run[r].asked => /\ run[r].cp = "WAITING_USER"
                       /\ run[r].saved # <<>> /\ LastRound(run[r].saved).asked
    /\ Grown(run[r].rounds, run[r].saved)
    /\ run[r].sure => r \in Given(run[r].rounds)

\* What relates it to its worktree and to its predecessor.
Linked(r) ==
    /\ run[r].tree # NoRun => run[r].tree \in Launched
    /\ "DELIVERED" \in {run[r].known.status, run[r].mem.status} => tree[run[r].tree].pr
    /\ run[r].parent # NoRun =>
            /\ run[r].parent \in Launched
            /\ Settled(run[run[r].parent].rounds) \subseteq Given(run[r].rounds)

\* Who made the commit of worktree t is past writing, also when its delivery is retried.
Committed(t) ==
    tree[t].by # NoRun =>
        /\ tree[t].by \in Launched /\ tree[t].by \notin tree[t].work
        /\ run[tree[t].by].phase \in {"commit", "push", "over"}
        /\ run[tree[t].by].cp = "DELIVERY_PENDING" => run[tree[t].by].mem.stage = "commit"

IInv ==
    /\ prMode \in Modes /\ crashed \in BOOLEAN
    /\ run \in [Runs -> RunType] /\ tree \in [Runs -> TreeType]
    /\ \A r \in Runs : run[r].status = "none" => run[r] = Absent
    /\ \A r \in Launched, s \in Runs : s < r => s \in Launched
    /\ \A r \in Launched : Sound(r) /\ Linked(r)
    /\ \A t \in Runs : Committed(t)

-----------------------------------------------------------------------------
(* Histories. *)

\* What the elements of Given are.
LEMMA GivenIs ==
  ASSUME NEW rounds \in Seq(Rounds), NEW n
  PROVE n \in Given(rounds) <=>
          /\ n # NoRun
          /\ \E i \in 1..Len(rounds) : \/ rounds[i].asked /\ rounds[i].answer = n
                                       \/ rounds[i].followup = n
<1>1. DOMAIN rounds = 1..Len(rounds)
  BY LenProperties
<1> QED BY <1>1 DEF Given

\* What the elements of Settled are.
LEMMA SettledIs ==
  ASSUME NEW rounds \in Seq(Rounds), NEW n \in Settled(rounds)
  PROVE /\ n # NoRun
        /\ \E i \in 1..Len(rounds) : \/ rounds[i].asked /\ rounds[i].answer = n
                                     \/ i < Len(rounds) /\ rounds[i].followup = n
<1> DEFINE k == Len(rounds)
           kept == [rounds EXCEPT ![k].followup = NoRun]
<1>1. k \in Nat /\ DOMAIN rounds = 1..k /\ \A i \in 1..k : rounds[i] \in Rounds
  BY LenProperties, ElementOfSeq
<1>2. rounds # <<>> /\ n \in Given(kept)
  BY DEF Settled
<1>3. kept \in Seq(Rounds) /\ Len(kept) = k
  <2>1. \A i \in 1..k : kept[i] \in Rounds
    <3>1. NoRun \in 0..MaxRuns
      BY SessionAssumption DEF NoRun
    <3>2. \A i \in 1..k : kept[i] = IF i = k THEN [rounds[i] EXCEPT !.followup = NoRun] ELSE rounds[i]
      BY <1>1
    <3>3. \A x \in Rounds : [x EXCEPT !.followup = NoRun] \in Rounds
      BY <3>1 DEF Rounds
    <3> HIDE DEF kept
    <3> QED BY <1>1, <3>2, <3>3
  <2>2. kept = [i \in 1..k |-> kept[i]]
    BY <1>1
  <2> HIDE DEF kept
  <2> QED BY <1>1, <2>1, <2>2, SeqDef
<1>4. n # NoRun /\ \E i \in 1..k : (kept[i].asked /\ kept[i].answer = n) \/ kept[i].followup = n
  <2> HIDE DEF kept
  <2> QED BY <1>2, <1>3, GivenIs
<1>5. PICK i \in 1..k : (kept[i].asked /\ kept[i].answer = n) \/ kept[i].followup = n
  BY <1>4
<1>6. CASE i = k
  <2>1. kept[i].asked = rounds[i].asked /\ kept[i].answer = rounds[i].answer /\ kept[i].followup = NoRun
    BY <1>1, <1>6 DEF Rounds
  <2> QED BY <1>4, <1>5, <2>1
<1>7. CASE i # k
  <2>1. kept[i] = rounds[i] /\ i < k
    BY <1>1, <1>7
  <2> QED BY <1>4, <1>5, <2>1
<1> QED BY <1>6, <1>7

\* A history that was only added to still gives what was settled.
LEMMA GrownGives ==
  ASSUME NEW early \in Seq(Rounds), NEW late \in Seq(Rounds), Grown(early, late)
  PROVE Settled(early) \subseteq Given(late)
<1> SUFFICES ASSUME NEW n \in Settled(early) PROVE n \in Given(late)
  OBVIOUS
<1>1. PICK i \in 1..Len(early) : \/ early[i].asked /\ early[i].answer = n
                                 \/ i < Len(early) /\ early[i].followup = n
  BY SettledIs
<1>2. n # NoRun
  BY SettledIs
<1>3. Len(early) \in Nat /\ Len(late) \in Nat /\ i \in 1..Len(late)
  BY LenProperties DEF Grown
<1>4. \/ late[i].asked /\ late[i].answer = n
      \/ late[i].followup = n
  BY <1>1, <1>2 DEF Grown
<1> QED BY <1>2, <1>3, <1>4, GivenIs

LEMMA GrownSelf == ASSUME NEW rounds \in Seq(Rounds) PROVE Grown(rounds, rounds)
BY LenProperties DEF Grown

LEMMA GrownAppend ==
  ASSUME NEW early \in Seq(Rounds), NEW late \in Seq(Rounds), Grown(early, late), NEW round \in Rounds
  PROVE /\ Append(late, round) \in Seq(Rounds) /\ Grown(early, Append(late, round))
        /\ Append(late, round) # <<>> /\ LastRound(Append(late, round)) = round
<1>1. /\ Append(late, round) \in Seq(Rounds) /\ Len(Append(late, round)) = Len(late) + 1
      /\ \A i \in 1..Len(late) : Append(late, round)[i] = late[i]
      /\ Append(late, round)[Len(late) + 1] = round
      /\ Len(early) \in Nat /\ Len(late) \in Nat
  BY AppendProperties, LenProperties
<1>2. Append(late, round) # <<>>
  BY <1>1, EmptySeq
<1> QED BY <1>1, <1>2 DEF Grown, LastRound

\* Rounds whose last one gets an answer or an instruction.
LEMMA LastChanged ==
  ASSUME NEW rounds \in Seq(Rounds), rounds # <<>>, NEW round \in Rounds
  PROVE /\ [rounds EXCEPT ![Len(rounds)] = round] \in Seq(Rounds)
        /\ Len([rounds EXCEPT ![Len(rounds)] = round]) = Len(rounds)
        /\ Len(rounds) \in Nat \ {0}
        /\ \A i \in 1..(Len(rounds) - 1) : [rounds EXCEPT ![Len(rounds)] = round][i] = rounds[i]
        /\ [rounds EXCEPT ![Len(rounds)] = round][Len(rounds)] = round
<1> DEFINE k == Len(rounds)
           s == [rounds EXCEPT ![k] = round]
<1>1. k \in Nat /\ k # 0 /\ DOMAIN rounds = 1..k /\ \A i \in 1..k : rounds[i] \in Rounds
  BY LenProperties, ElementOfSeq, EmptySeq
<1>2. s = [i \in 1..k |-> s[i]] /\ \A i \in 1..k : s[i] = IF i = k THEN round ELSE rounds[i]
  BY <1>1
<1> HIDE DEF s
<1>3. s \in Seq(Rounds) /\ Len(s) = k
  <2>1. \A i \in 1..k : s[i] \in Rounds
    BY <1>1, <1>2
  <2> QED BY <1>1, <1>2, <2>1, SeqDef
<1>4. (\A i \in 1..(k - 1) : s[i] = rounds[i]) /\ s[k] = round
  BY <1>1, <1>2
<1> QED BY <1>1, <1>3, <1>4 DEF s

\* The answers and instructions of request n are added to a history.
LEMMA AnsweredGrows ==
  ASSUME NEW early \in Seq(Rounds), NEW rounds \in Seq(Rounds), Grown(early, rounds), NEW n \in Runs,
         NEW answers \in BOOLEAN, NEW instruction \in BOOLEAN, NEW form \in BOOLEAN,
         answers \/ instruction,
         form => rounds # <<>> /\ LastRound(rounds).asked
  PROVE /\ Answered(rounds, n, answers, instruction, form) \in Seq(Rounds)
        /\ Grown(early, Answered(rounds, n, answers, instruction, form))
        /\ rounds # <<>> /\ LastRound(rounds).asked =>
              /\ Answered(rounds, n, answers, instruction, form) # <<>>
              /\ LastRound(Answered(rounds, n, answers, instruction, form)).asked
        /\ form \/ instruction => n \in Given(Answered(rounds, n, answers, instruction, form))
<1> DEFINE g == IF answers THEN n ELSE NoRun
           k == Len(rounds)
           mid == WithAnswers(rounds, n, answers, form)
           new == Answered(rounds, n, answers, instruction, form)
<1>1. n \in 0..MaxRuns /\ n # NoRun /\ g \in 0..MaxRuns /\ NoRun \in 0..MaxRuns
  BY SessionAssumption DEF Runs, NoRun
<1>2. /\ mid \in Seq(Rounds) /\ Grown(early, mid)
      /\ rounds # <<>> => mid # <<>>
      /\ rounds # <<>> /\ LastRound(rounds).asked => LastRound(mid).asked
      /\ form => LastRound(mid).asked /\ LastRound(mid).answer = g
  <2>1. CASE Pending(rounds)
    <3> DEFINE x == [rounds[k] EXCEPT !.answer = g]
               s == [rounds EXCEPT ![k] = x]
    <3>1. rounds # <<>> /\ rounds[k].answer = NoRun
      BY <2>1 DEF Pending, IsAnswered, LastRound
    <3>2. k \in 1..k /\ rounds[k] \in Rounds
      BY <3>1, EmptySeq, ElementOfSeq
    <3>3. x \in Rounds /\ x.asked = rounds[k].asked /\ x.answer = g
      BY <1>1, <3>2 DEF Rounds
    <3>4. mid = [rounds EXCEPT ![k].answer = g]
      BY <2>1 DEF WithAnswers
    <3>5. [rounds EXCEPT ![k].answer = g] = s
      OBVIOUS
    <3> HIDE DEF x, s, mid, g
    <3>6. /\ s \in Seq(Rounds) /\ Len(s) = k /\ k \in Nat \ {0}
          /\ \A i \in 1..(k - 1) : s[i] = rounds[i]
          /\ s[k] = x
      BY <3>1, <3>3, LastChanged DEF s
    <3>7. Grown(early, s)
      <4>1. Len(early) \in Nat /\ Len(early) <= k
        BY LenProperties DEF Grown
      <4> QED BY <3>1, <3>3, <3>6, <4>1 DEF Grown
    <3>8. s # <<>>
      BY <3>6, EmptySeq
    <3>9. LastRound(s) = x /\ LastRound(rounds) = rounds[k]
      BY <3>6 DEF LastRound
    <3> QED BY <3>3, <3>4, <3>5, <3>6, <3>7, <3>8, <3>9
  <2>2. CASE ~Pending(rounds) /\ form
    <3>1. mid = Append(rounds, Round(TRUE, g, NoRun))
      BY <2>2 DEF WithAnswers
    <3>2. Round(TRUE, g, NoRun) \in Rounds /\ Round(TRUE, g, NoRun).asked /\ Round(TRUE, g, NoRun).answer = g
      BY <1>1 DEF Round, Rounds
    <3> HIDE DEF mid, g
    <3> QED BY <3>1, <3>2, GrownAppend
  <2>3. CASE ~Pending(rounds) /\ ~form
    <3>1. mid = rounds
      BY <2>3 DEF WithAnswers
    <3> QED BY <2>3, <3>1
  <2> QED BY <2>1, <2>2, <2>3
<1>3. new = IF instruction THEN WithInstruction(mid, n) ELSE mid
  BY DEF Answered
<1> HIDE DEF mid, new
<1>4. CASE ~instruction
  <2>1. new = mid /\ answers /\ g = n
    BY <1>3, <1>4
  <2>2. form => n \in Given(mid)
    <3> SUFFICES ASSUME form PROVE n \in Given(mid)
      OBVIOUS
    <3>1. Len(mid) \in 1..Len(mid)
      BY <1>2, EmptySeq
    <3>2. mid[Len(mid)].asked /\ mid[Len(mid)].answer = n
      BY <1>2, <2>1 DEF LastRound
    <3> QED BY <1>1, <1>2, <3>1, <3>2, GivenIs
  <2> QED BY <1>2, <1>4, <2>1, <2>2 DEF new
<1>5. CASE instruction /\ mid = <<>>
  <2> DEFINE x == Round(FALSE, NoRun, n)
  <2>1. new = <<x>>
    BY <1>3, <1>5 DEF WithInstruction
  <2>2. x \in Rounds /\ x.followup = n
    BY <1>1 DEF Round, Rounds
  <2> HIDE DEF x
  <2>3. new \in Seq(Rounds) /\ Len(new) = 1 /\ new[1] = x
    BY <2>1, <2>2
  <2>4. n \in Given(new)
    BY <1>1, <2>2, <2>3, GivenIs
  <2>5. rounds = <<>>
    BY <1>2, <1>5
  <2>6. Grown(early, new)
    <3>1. Len(rounds) = 0 /\ Len(early) \in Nat
      BY <2>5, EmptySeq, LenProperties
    <3>2. Len(early) = 0
      BY <3>1 DEF Grown
    <3> QED BY <2>3, <3>2 DEF Grown
  <2> QED BY <2>3, <2>4, <2>5, <2>6 DEF new
<1>6. CASE instruction /\ mid # <<>>
  <2> DEFINE m == Len(mid)
             x == [mid[m] EXCEPT !.followup = n]
             s == [mid EXCEPT ![m] = x]
  <2>1. m \in 1..m /\ mid[m] \in Rounds
    BY <1>2, <1>6, EmptySeq, ElementOfSeq
  <2>2. x \in Rounds /\ x.followup = n /\ x.asked = mid[m].asked /\ x.answer = mid[m].answer
    BY <1>1, <2>1 DEF Rounds
  <2>3. new = s
    BY <1>3, <1>6 DEF WithInstruction
  <2> HIDE DEF x, s
  <2>4. /\ s \in Seq(Rounds) /\ Len(s) = m /\ m \in Nat \ {0}
        /\ \A i \in 1..(m - 1) : s[i] = mid[i]
        /\ s[m] = x
    BY <1>2, <1>6, <2>2, LastChanged DEF s
  <2>5. Grown(early, s)
    <3>1. Len(early) \in Nat /\ Len(early) <= m
      BY <1>2, LenProperties DEF Grown
    <3> QED BY <1>2, <2>2, <2>4, <3>1 DEF Grown
  <2>6. s # <<>> /\ LastRound(s) = x /\ LastRound(mid) = mid[m]
    BY <2>4, EmptySeq DEF LastRound
  <2>7. n \in Given(s)
    BY <1>1, <2>2, <2>4, GivenIs
  <2> QED BY <1>2, <2>2, <2>3, <2>4, <2>5, <2>6, <2>7 DEF new
<1> QED BY <1>4, <1>5, <1>6

-----------------------------------------------------------------------------
(* The numbers of runs. *)

\* The next run is one that was not launched, and comes after all that were.
LEMMA NextIsNew ==
  ASSUME IInv
  PROVE /\ NextRun \in Nat \ {0} /\ NextRun \notin Launched
        /\ \A s \in Runs : s < NextRun => s \in Launched
<1>0. MaxRuns \in Nat /\ Launched \subseteq Runs
  BY SessionAssumption DEF Launched
<1>1. IsFiniteSet(Runs) /\ IsFiniteSet(Launched)
  <2>1. 1 \in Int /\ MaxRuns \in Int
    BY <1>0
  <2>2. IsFiniteSet(1..MaxRuns)
    BY <2>1, FS_Interval
  <2> QED BY <1>0, <2>2, FS_Subset DEF Runs
<1> DEFINE k == Cardinality(Launched)
<1>2. k \in Nat /\ NextRun = k + 1
  BY <1>1, FS_CardinalityType DEF NextRun
<1>3. \A r \in Launched, s \in Runs : s < r => s \in Launched
  BY DEF IInv
<1> HIDE DEF k
<1>4. ASSUME k + 1 \in Launched PROVE FALSE
  <2>1. 1..(k + 1) \subseteq Launched
    <3> SUFFICES ASSUME NEW s \in 1..(k + 1) PROVE s \in Launched
      OBVIOUS
    <3>1. s \in Runs /\ (s < k + 1 \/ s = k + 1)
      BY <1>0, <1>2, <1>4 DEF Runs
    <3> QED BY <1>3, <1>4, <3>1
  <2>2. Cardinality(1..(k + 1)) = k + 1
    BY <1>2, FS_Interval
  <2>3. Cardinality(1..(k + 1)) <= k
    BY <1>1, <2>1, FS_Subset DEF k
  <2> QED BY <1>2, <2>2, <2>3
<1>5. ASSUME NEW s \in Runs, s < k + 1, s \notin Launched PROVE FALSE
  <2>1. s \in Nat \ {0}
    BY <1>0 DEF Runs
  <2>2. Launched \subseteq 1..(s - 1)
    <3> SUFFICES ASSUME NEW r \in Launched PROVE r \in 1..(s - 1)
      OBVIOUS
    <3>1. r \in Nat \ {0} /\ r # s /\ ~(s < r)
      BY <1>0, <1>3, <1>5 DEF Runs
    <3> QED BY <2>1, <3>1
  <2>3. IsFiniteSet(1..(s - 1)) /\ Cardinality(1..(s - 1)) = s - 1
    <3>1. s - 1 \in Int /\ 1 \in Int
      BY <2>1
    <3>2. IsFiniteSet(1..(s - 1)) /\ Cardinality(1..(s - 1)) = IF 1 > s - 1 THEN 0 ELSE (s - 1) - 1 + 1
      BY <3>1, FS_Interval
    <3> QED BY <2>1, <3>2
  <2>4. k <= s - 1
    BY <2>2, <2>3, FS_Subset DEF k
  <2> QED BY <1>2, <1>5, <2>1, <2>4
<1> QED BY <1>2, <1>4, <1>5

-----------------------------------------------------------------------------
(* Steps. *)

LEMMA AbsentType == Absent \in RunType
<1>1. <<>> \in Seq(Rounds) /\ NoRun \in 0..MaxRuns
  BY EmptySeq, SessionAssumption DEF NoRun
<1> QED BY <1>1 DEF Absent, RunType, Statuses, Checkpoints, Phases, NoDelivery, Delivery, Deliveries

LEMMA InitInv == Init => IInv
<1> SUFFICES ASSUME Init PROVE IInv
  OBVIOUS
<1>1. run \in [Runs -> RunType] /\ \A r \in Runs : run[r] = Absent
  BY AbsentType DEF Init
<1>2. tree \in [Runs -> TreeType] /\ \A t \in Runs : tree[t].by = NoRun
  BY SessionAssumption DEF Init, NoTree, TreeType, NoRun
<1>3. Launched = {}
  BY <1>1 DEF Launched, Absent
<1> QED BY <1>1, <1>2, <1>3 DEF Init, IInv, Committed

\* A step of one run, which may change its worktree.
LEMMA RunStep ==
  ASSUME IInv, NEW r \in Launched,
         prMode' = prMode, crashed' = crashed,
         run' \in [Runs -> RunType], \A s \in Runs \ {r} : run'[s] = run[s],
         run'[r].status # "none", run'[r].tree = run[r].tree, run'[r].parent = run[r].parent,
         run'[r].rounds = run[r].rounds,
         Sound(r)',
         tree' \in [Runs -> TreeType], \A t \in Runs : tree[t].pr => tree'[t].pr,
         "DELIVERED" \in {run'[r].known.status, run'[r].mem.status} => tree'[run[r].tree].pr,
         \A t \in Runs : Committed(t)'
  PROVE IInv'
<1>1. Launched' = Launched
  BY DEF Launched
<1>2. \A s \in Runs : run'[s].tree = run[s].tree /\ run'[s].parent = run[s].parent
                      /\ run'[s].rounds = run[s].rounds
  OBVIOUS
<1>3. \A s \in Runs : run'[s].status = "none" => run'[s] = Absent
  BY DEF IInv
<1>4. ASSUME NEW s \in Launched PROVE Sound(s)'
  <2>1. CASE s = r
    BY <2>1
  <2>2. CASE s # r
    <3>1. run'[s] = run[s] /\ Sound(s)
      BY <2>2 DEF IInv, Launched
    <3> QED BY <3>1 DEF Sound
  <2> QED BY <2>1, <2>2
<1>5. ASSUME NEW s \in Launched PROVE Linked(s)'
  <2>0. Linked(s) /\ Sound(s) /\ s \in Runs
    BY DEF IInv, Launched
  <2>1. run'[s].tree # NoRun => run'[s].tree \in Launched'
    BY <1>1, <1>2, <2>0 DEF Linked
  <2>2. "DELIVERED" \in {run'[s].known.status, run'[s].mem.status} => tree'[run'[s].tree].pr
    <3>1. CASE s = r
      BY <1>2, <2>0, <3>1
    <3>2. CASE s # r
      <4> SUFFICES ASSUME "DELIVERED" \in {run[s].known.status, run[s].mem.status}
                   PROVE tree'[run[s].tree].pr
        BY <2>0, <3>2
      <4>1. run[s].tree \in Runs /\ tree[run[s].tree].pr
        BY <2>0 DEF Sound, Linked, Launched
      <4> QED BY <4>1
    <3> QED BY <3>1, <3>2
  <2>3. run'[s].parent # NoRun =>
            /\ run'[s].parent \in Launched'
            /\ Settled(run'[run'[s].parent].rounds) \subseteq Given(run'[s].rounds)
    <3> SUFFICES ASSUME run[s].parent # NoRun
                 PROVE /\ run[s].parent \in Launched
                       /\ Settled(run'[run[s].parent].rounds) \subseteq Given(run'[s].rounds)
      BY <1>1, <1>2, <2>0
    <3>1. run[s].parent \in Launched /\ run[s].parent \in Runs
          /\ Settled(run[run[s].parent].rounds) \subseteq Given(run[s].rounds)
      BY <2>0 DEF Linked, Launched
    <3> QED BY <1>2, <2>0, <3>1
  <2> QED BY <2>1, <2>2, <2>3 DEF Linked
<1>6. prMode' \in Modes /\ crashed' \in BOOLEAN
  BY DEF IInv
<1>7. \A x \in Launched', s \in Runs : s < x => s \in Launched'
  BY <1>1 DEF IInv
<1> QED BY <1>1, <1>3, <1>4, <1>5, <1>6, <1>7 DEF IInv

\* A step of one run that changes no worktree.
LEMMA QuietStep ==
  ASSUME IInv, NEW r \in Launched,
         prMode' = prMode, crashed' = crashed, tree' = tree,
         run' \in [Runs -> RunType], \A s \in Runs \ {r} : run'[s] = run[s],
         run'[r].status # "none", run'[r].tree = run[r].tree, run'[r].parent = run[r].parent,
         run'[r].rounds = run[r].rounds,
         Sound(r)',
         "DELIVERED" \in {run'[r].known.status, run'[r].mem.status} =>
            tree[run[r].tree].pr,
         run[r].phase \in {"commit", "push", "over"} /\ (run[r].cp = "DELIVERY_PENDING" => run[r].mem.stage = "commit")
         =>
         run'[r].phase \in {"commit", "push", "over"} /\ (run'[r].cp = "DELIVERY_PENDING" => run'[r].mem.stage = "commit")
  PROVE IInv'
<1>1. tree' \in [Runs -> TreeType] /\ \A t \in Runs : tree[t].pr => tree'[t].pr
  BY DEF IInv
<1>2. Launched' = Launched
  BY DEF Launched
<1>3. ASSUME NEW t \in Runs PROVE Committed(t)'
  <2>1. Committed(t) /\ (tree[t].by # NoRun => tree[t].by \in Runs)
    BY DEF IInv, Committed, Launched
  <2> QED BY <1>2, <2>1 DEF Committed
<1> QED BY <1>1, <1>3, RunStep

\* A run is launched: with the worktree of its predecessor and what is known of its
\* delivery, or with one of its own, or with none.
LEMMA LaunchStep ==
  ASSUME IInv, NEW n \in Runs, n = NextRun, NEW p \in Launched \cup {NoRun}, NEW rounds \in Seq(Rounds),
         NEW shared \in BOOLEAN, NEW sure \in BOOLEAN, NEW saved \in [Runs -> RunType],
         shared => p \in Launched /\ InWorktree(p),
         p \in Launched => Settled(run[p].rounds) \subseteq Given(rounds),
         sure => n \in Given(rounds),
         \A s \in Runs : \/ saved[s] = run[s]
                         \/ s = p /\ saved[s] = [run[s] EXCEPT !.saved = rounds],
         p \in Launched /\ saved[p] # run[p] =>
            /\ Grown(run[p].rounds, rounds)
            /\ run[p].asked => rounds # <<>> /\ LastRound(rounds).asked,
         run' = [saved EXCEPT ![n] = NewRun(n, p, rounds, shared, sure)],
         UNCHANGED <<prMode, tree, crashed>>
  PROVE IInv'
<1>a. PICK q : q = NewRun(n, p, rounds, shared, sure) /\ run' = [saved EXCEPT ![n] = q]
  OBVIOUS
<1>1. /\ q \in RunType /\ q.status = "RUNNING" /\ q.cp = "RUNNING" /\ q.phase = "steps"
      /\ q.parent = p /\ q.rounds = rounds /\ q.saved = rounds /\ q.sure = sure /\ q.asked = FALSE
      /\ q.known = q.mem
      /\ shared => q.tree = run[p].tree /\ q.mem = run[p].known
      /\ ~shared => /\ q.tree \in {n, NoRun} /\ q.mem.status \in {"READY", "none"}
                    /\ q.mem.status = "READY" => q.tree = n
  <2> DEFINE context == IF shared THEN run[p].known ELSE IF prMode THEN Fresh ELSE NoDelivery
             tr == IF shared THEN run[p].tree ELSE IF prMode THEN n ELSE NoRun
  <2>1. context \in Deliveries /\ tr \in 0..MaxRuns /\ p \in 0..MaxRuns
    <3>1. Fresh \in Deliveries /\ NoDelivery \in Deliveries
      BY DEF Fresh, NoDelivery, Delivery, Deliveries
    <3>2. shared => run[p] \in RunType
      BY DEF IInv, Launched
    <3>3. NoRun \in 0..MaxRuns /\ Runs \subseteq 0..MaxRuns
      BY SessionAssumption DEF NoRun, Runs
    <3> QED BY <3>1, <3>2, <3>3 DEF RunType, Launched
  <2>2. ~shared => /\ context.status \in {"READY", "none"} /\ tr \in {n, NoRun}
                   /\ context.status = "READY" => tr = n
    BY DEF Fresh, NoDelivery, Delivery
  <2>3. shared => tr = run[p].tree /\ context = run[p].known
    OBVIOUS
  <2>4. q = [Absent EXCEPT !.status = "RUNNING", !.cp = "RUNNING", !.parent = p, !.tree = tr,
              !.rounds = rounds, !.saved = rounds, !.known = context, !.mem = context,
              !.phase = "steps", !.alive = TRUE, !.saves = TRUE, !.sure = sure]
    BY <1>a DEF NewRun
  <2> HIDE DEF context, tr
  <2>5. q = [status |-> "RUNNING", cp |-> "RUNNING", parent |-> p, tree |-> tr, rounds |-> rounds,
             saved |-> rounds, known |-> context, mem |-> context, phase |-> "steps",
             alive |-> TRUE, saves |-> TRUE, verified |-> FALSE, sure |-> sure, asked |-> FALSE]
    BY <2>4 DEF Absent
  <2>6. q \in RunType
    BY <2>1, <2>5 DEF RunType, Statuses, Checkpoints, Phases
  <2> QED BY <2>2, <2>3, <2>5, <2>6
<1>2. n \in Runs /\ n \notin Launched /\ \A s \in Runs : s < n => s \in Launched
  BY NextIsNew
<1>4. run' \in [Runs -> RunType] /\ run'[n] = q /\ \A s \in Runs \ {n} : run'[s] = saved[s]
  BY <1>1, <1>a
<1>5. \A s \in Runs \ {n} : run'[s] = run[s] \/ (s = p /\ run'[s] = [run[s] EXCEPT !.saved = rounds])
  BY <1>4
<1>6. ASSUME NEW s \in Runs \ {n}
      PROVE /\ run'[s].status = run[s].status /\ run'[s].cp = run[s].cp /\ run'[s].parent = run[s].parent
            /\ run'[s].tree = run[s].tree /\ run'[s].rounds = run[s].rounds
            /\ run'[s].known = run[s].known /\ run'[s].mem = run[s].mem /\ run'[s].phase = run[s].phase
            /\ run'[s].verified = run[s].verified /\ run'[s].sure = run[s].sure
            /\ run'[s].asked = run[s].asked
            /\ \/ run'[s].saved = run[s].saved
               \/ s = p /\ s \in Launched /\ saved[p] # run[p] /\ run'[s].saved = rounds
  <2>1. run[s] \in RunType
    BY DEF IInv
  <2>2. CASE run'[s] = run[s]
    BY <2>2
  <2>3. CASE run'[s] # run[s]
    <3>1. s = p /\ run'[s] = [run[s] EXCEPT !.saved = rounds] /\ saved[p] # run[p]
      BY <1>4, <1>5, <2>3
    <3>2. NoRun \notin Runs
      BY DEF NoRun, Runs
    <3>3. s \in Launched
      BY <3>1, <3>2
    <3> QED BY <2>1, <3>1, <3>3 DEF RunType
  <2> QED BY <2>2, <2>3
<1>7. Launched' = Launched \cup {n}
  BY <1>1, <1>2, <1>4, <1>6 DEF Launched
<1>8. tree' = tree /\ prMode' = prMode /\ crashed' = crashed
  OBVIOUS
<1>9. ASSUME NEW s \in Launched PROVE Sound(s)' /\ Linked(s)'
  <2>1. s \in Runs \ {n} /\ Sound(s) /\ Linked(s)
    BY <1>2 DEF IInv, Launched
  <2>2. Grown(run'[s].rounds, run'[s].saved)
    BY <1>6, <2>1 DEF Sound
  <2>3. run'[s].asked => run'[s].saved # <<>> /\ LastRound(run'[s].saved).asked
    BY <1>6, <2>1 DEF Sound
  <2>4. Sound(s)'
    BY <1>6, <2>1, <2>2, <2>3 DEF Sound
  <2>5. run[s].parent # NoRun => run[s].parent \in Runs \ {n} /\ run[s].parent \in Launched
    BY <1>2, <2>1 DEF Linked, Launched
  <2>6. Linked(s)'
    BY <1>6, <1>7, <1>8, <2>1, <2>5 DEF Linked
  <2> QED BY <2>4, <2>6
<1>10. Sound(n)'
  <2>1. Grown(rounds, rounds)
    BY GrownSelf
  <2>2. n # NoRun
    BY <1>2 DEF NoRun, Runs
  <2>3. shared => q.tree \in Launched /\ q.tree # NoRun /\ q.tree # n
    BY <1>1, <1>2 DEF IInv, Linked, InWorktree
  <2>4. q.mem.status # "none" => q.tree # NoRun
    BY <1>1, <2>2, <2>3
  <2>5. q.tree = n => q.mem.status # "DELIVERY_PENDING"
    BY <1>1, <2>3
  <2>6. q.sure => n \in Given(q.rounds)
    BY <1>1
  <2> QED BY <1>1, <1>4, <2>1, <2>4, <2>5, <2>6 DEF Sound
<1>11. Linked(n)'
  <2>1. shared => run[p].tree \in Launched /\ Linked(p) /\ p \in Runs
    BY DEF IInv, Linked, InWorktree, Launched
  <2>2. q.tree # NoRun => q.tree \in Launched'
    BY <1>1, <1>7, <2>1
  <2>3. "DELIVERED" \in {q.known.status, q.mem.status} => tree[q.tree].pr
    BY <1>1, <2>1 DEF Linked
  <2>4. p # NoRun => p \in Launched /\ p \in Runs \ {n}
    BY <1>2 DEF Launched
  <2>5. p # NoRun => p \in Launched' /\ Settled(run'[p].rounds) \subseteq Given(q.rounds)
    BY <1>1, <1>6, <1>7, <2>4
  <2> QED BY <1>1, <1>4, <1>8, <2>2, <2>3, <2>5 DEF Linked
<1>12. ASSUME NEW t \in Runs PROVE Committed(t)'
  <2>1. Committed(t) /\ (tree[t].by # NoRun => tree[t].by \in Runs \ {n})
    BY <1>2 DEF IInv, Committed, Launched
  <2> QED BY <1>6, <1>7, <1>8, <2>1 DEF Committed
<1>13. \A s \in Runs : run'[s].status = "none" => run'[s] = Absent
  <2> SUFFICES ASSUME NEW s \in Runs, run'[s].status = "none" PROVE run'[s] = Absent
    OBVIOUS
  <2>1. s # n
    BY <1>1, <1>4
  <2>2. run[s].status = "none" /\ s \notin Launched
    BY <1>6, <2>1 DEF Launched
  <2>3. run'[s] = run[s]
    <3>1. s # p
      BY <2>2 DEF NoRun, Runs
    <3> QED BY <1>5, <2>1, <3>1
  <2> QED BY <2>2, <2>3 DEF IInv
<1>14. ASSUME NEW r \in Launched', NEW s \in Runs, s < r PROVE s \in Launched'
  BY <1>2, <1>7, <1>14 DEF IInv
<1> QED BY <1>4, <1>7, <1>8, <1>9, <1>10, <1>11, <1>12, <1>13, <1>14 DEF IInv

-----------------------------------------------------------------------------
(* The requests that launch a run. *)

LEMMA StartInv == IInv /\ Start => IInv'
<1> SUFFICES ASSUME IInv, Start PROVE IInv'
  OBVIOUS
<1>1. Launched = {} /\ run' = [run EXCEPT ![1] = NewRun(1, NoRun, <<>>, FALSE, FALSE)]
      /\ UNCHANGED <<prMode, tree, crashed>>
  BY DEF Start
<1>2. 1 \in Runs /\ NextRun = 1
  BY <1>1, SessionAssumption, FS_EmptySet DEF Runs, NextRun
<1>3. run \in [Runs -> RunType] /\ <<>> \in Seq(Rounds)
  BY EmptySeq DEF IInv
<1>4. PICK saved : saved = run
  OBVIOUS
<1>5. NoRun \notin Runs
  BY DEF NoRun, Runs
<1> QED BY <1>1, <1>2, <1>3, <1>4, LaunchStep

LEMMA LaunchedSound ==
  ASSUME IInv, NEW p \in Launched
  PROVE /\ p \in Runs /\ run[p] \in RunType /\ run[p].rounds \in Seq(Rounds) /\ run[p].saved \in Seq(Rounds)
        /\ Sound(p) /\ Linked(p) /\ run \in [Runs -> RunType] /\ InWorktree(p) \in BOOLEAN
BY DEF IInv, Launched, RunType, InWorktree

LEMMA RoomIs == Room => NextRun \in Runs
BY SessionAssumption DEF Room, Runs

\* The round of an instruction that continues a session.
LEMMA ContinuedGrows ==
  ASSUME NEW early \in Seq(Rounds), NEW given \in Seq(Rounds), Grown(early, given), NEW n \in Runs,
         NEW text \in BOOLEAN, NEW rounds,
         rounds = IF text THEN Append(given, Round(FALSE, NoRun, n)) ELSE given
  PROVE rounds \in Seq(Rounds) /\ Grown(early, rounds) /\ (text => n \in Given(rounds))
<1>1. CASE ~text
  BY <1>1
<1>2. CASE text
  <2> DEFINE round == Round(FALSE, NoRun, n)
  <2>1. n \in 0..MaxRuns /\ NoRun \in 0..MaxRuns /\ n # NoRun
    BY SessionAssumption DEF NoRun, Runs
  <2>2. round \in Rounds /\ round.followup = n
    BY <2>1 DEF Round, Rounds
  <2> HIDE DEF round
  <2>3. rounds = Append(given, round)
    BY <1>2 DEF round
  <2>4. rounds \in Seq(Rounds) /\ Grown(early, rounds) /\ rounds # <<>> /\ LastRound(rounds) = round
    BY <2>2, <2>3, GrownAppend
  <2>5. Len(rounds) \in Nat /\ Len(rounds) # 0
    BY <2>4, LenProperties, EmptySeq
  <2>6. Len(rounds) \in 1..Len(rounds) /\ rounds[Len(rounds)].followup = n
    <3>1. Len(rounds) \in 1..Len(rounds)
      BY <2>5
    <3>2. LastRound(rounds) = rounds[Len(rounds)]
      BY DEF LastRound
    <3> QED BY <2>2, <2>4, <3>1, <3>2
  <2>7. n \in Given(rounds)
    BY <2>1, <2>4, <2>6, GivenIs
  <2> QED BY <2>4, <2>7
<1> QED BY <1>1, <1>2

LEMMA AnswerInv == ASSUME IInv, NEW p \in Runs, Answer(p) PROVE IInv'
<1>1. PICK answers \in BOOLEAN, instruction \in BOOLEAN, form \in BOOLEAN :
        LET rounds == Answered(run[p].saved, NextRun, answers, instruction, form)
            saved == [run EXCEPT ![p].saved = rounds]
        IN  /\ answers \/ instruction
            /\ Len(rounds) <= MaxRounds
            /\ form => run[p].asked
            /\ \/ run' = [saved EXCEPT ![NextRun] =
                            NewRun(NextRun, p, rounds, InWorktree(p), form \/ instruction)]
               \/ run' = saved
  BY DEF Answer
<1>2. p \in Launched /\ Room /\ UNCHANGED <<prMode, tree, crashed>>
  BY DEF Answer
<1>3. /\ p \in Runs /\ run[p] \in RunType /\ run[p].rounds \in Seq(Rounds) /\ run[p].saved \in Seq(Rounds)
      /\ Sound(p) /\ Linked(p) /\ run \in [Runs -> RunType] /\ InWorktree(p) \in BOOLEAN
  BY <1>2, LaunchedSound
<1>4. PICK n : n = NextRun
  OBVIOUS
<1>5. n \in Runs
  BY <1>2, <1>4, RoomIs
<1>a. PICK early : early = run[p].rounds
  OBVIOUS
<1>b. PICK given : given = run[p].saved
  OBVIOUS
<1>c. PICK rounds : rounds = Answered(given, n, answers, instruction, form)
  OBVIOUS
<1>d. PICK saved : saved = [run EXCEPT ![p].saved = rounds]
  OBVIOUS
<1>6. /\ answers \/ instruction
      /\ form => run[p].asked
      /\ \/ run' = [saved EXCEPT ![n] = NewRun(n, p, rounds, InWorktree(p), form \/ instruction)]
         \/ run' = saved
  BY <1>1, <1>4, <1>b, <1>c, <1>d
<1>7. early \in Seq(Rounds) /\ given \in Seq(Rounds) /\ Grown(early, given)
      /\ (run[p].asked => given # <<>> /\ LastRound(given).asked)
  BY <1>3, <1>a, <1>b DEF Sound
<1>8. /\ rounds \in Seq(Rounds) /\ Grown(early, rounds)
      /\ given # <<>> /\ LastRound(given).asked => rounds # <<>> /\ LastRound(rounds).asked
      /\ form \/ instruction => n \in Given(rounds)
  <2>1. form => given # <<>> /\ LastRound(given).asked
    BY <1>6, <1>7
  <2> QED BY ONLY <1>5, <1>7, <1>c, <2>1, <1>6, answers \in BOOLEAN, instruction \in BOOLEAN,
                  form \in BOOLEAN, AnsweredGrows, ZenonT(60)
<1>9. run[p].asked => rounds # <<>> /\ LastRound(rounds).asked
  BY <1>7, <1>8
<1>10. saved \in [Runs -> RunType] /\ saved[p] = [run[p] EXCEPT !.saved = rounds]
       /\ \A s \in Runs \ {p} : saved[s] = run[s]
  <2>1. [run[p] EXCEPT !.saved = rounds] \in RunType
    BY <1>3, <1>8 DEF RunType
  <2> QED BY <1>3, <1>d, <2>1
<1>11. CASE run' = [saved EXCEPT ![n] = NewRun(n, p, rounds, InWorktree(p), form \/ instruction)]
  <2>1. PICK shared : shared = InWorktree(p)
    OBVIOUS
  <2>2. PICK sure : sure = (form \/ instruction)
    OBVIOUS
  <2>3. Settled(run[p].rounds) \subseteq Given(rounds)
    BY <1>7, <1>8, <1>a, GrownGives
  <2>4. run' = [saved EXCEPT ![n] = NewRun(n, p, rounds, shared, sure)]
    BY <1>11, <2>1, <2>2
  <2>5. shared \in BOOLEAN /\ sure \in BOOLEAN /\ (sure => n \in Given(rounds))
        /\ (shared => p \in Launched /\ InWorktree(p))
    BY <1>2, <1>3, <1>8, <2>1, <2>2
  <2>6. \A s \in Runs : \/ saved[s] = run[s]
                        \/ s = p /\ saved[s] = [run[s] EXCEPT !.saved = rounds]
    BY <1>10
  <2>7. p \in Launched /\ saved[p] # run[p] =>
            /\ Grown(run[p].rounds, rounds)
            /\ run[p].asked => rounds # <<>> /\ LastRound(rounds).asked
    BY <1>8, <1>9, <1>a
  <2>8. p \in Launched \cup {NoRun} /\ saved \in [Runs -> RunType] /\ rounds \in Seq(Rounds)
    BY <1>2, <1>8, <1>10
  <2>9. UNCHANGED <<prMode, tree, crashed>> /\ (p \in Launched => Settled(run[p].rounds) \subseteq Given(rounds))
    BY <1>2, <2>3
  <2> QED BY ONLY IInv, <1>4, <1>5, <2>4, <2>5, <2>6, <2>7, <2>8, <2>9, LaunchStep, ZenonT(60)
<1>12. CASE run' = saved
  <2>1. /\ run'[p].status = run[p].status /\ run'[p].cp = run[p].cp /\ run'[p].parent = run[p].parent
        /\ run'[p].tree = run[p].tree /\ run'[p].rounds = run[p].rounds /\ run'[p].saved = rounds
        /\ run'[p].known = run[p].known /\ run'[p].mem = run[p].mem /\ run'[p].phase = run[p].phase
        /\ run'[p].verified = run[p].verified /\ run'[p].sure = run[p].sure
        /\ run'[p].asked = run[p].asked
    BY <1>3, <1>10, <1>12 DEF RunType
  <2>2. Sound(p)'
    BY <1>3, <1>8, <1>9, <1>a, <2>1 DEF Sound
  <2>3. run'[p].status # "none"
    BY <1>2, <2>1 DEF Launched
  <2>4. "DELIVERED" \in {run'[p].known.status, run'[p].mem.status} => tree[run[p].tree].pr
    BY <1>3, <2>1 DEF Linked
  <2>5. run' \in [Runs -> RunType] /\ \A s \in Runs \ {p} : run'[s] = run[s]
    BY <1>10, <1>12
  <2>6. prMode' = prMode /\ crashed' = crashed /\ tree' = tree
    BY <1>2
  <2>7. run[p].phase \in {"commit", "push", "over"} /\ (run[p].cp = "DELIVERY_PENDING" => run[p].mem.stage = "commit")
        =>
        run'[p].phase \in {"commit", "push", "over"} /\ (run'[p].cp = "DELIVERY_PENDING" => run'[p].mem.stage = "commit")
    BY <2>1
  <2> QED BY ONLY IInv, <1>2, <2>1, <2>2, <2>3, <2>4, <2>5, <2>6, <2>7, QuietStep, ZenonT(60)
<1> QED BY <1>6, <1>11, <1>12

LEMMA ContinueInv == ASSUME IInv, NEW p \in Runs, Continue(p) PROVE IInv'
<1>1. PICK text \in BOOLEAN :
        LET rounds == IF text THEN Append(run[p].saved, Round(FALSE, NoRun, NextRun)) ELSE run[p].saved
            shared == InWorktree(p) /\ run[p].known.status \notin {"DELIVERED", "NO_CHANGES"}
        IN  run' = [run EXCEPT ![NextRun] = NewRun(NextRun, p, rounds, shared, text)]
  BY DEF Continue
<1>2. p \in Launched /\ Room /\ UNCHANGED <<prMode, tree, crashed>>
  BY DEF Continue
<1>3. /\ p \in Runs /\ run[p] \in RunType /\ run[p].rounds \in Seq(Rounds) /\ run[p].saved \in Seq(Rounds)
      /\ Sound(p) /\ run \in [Runs -> RunType] /\ InWorktree(p) \in BOOLEAN
  BY <1>2, LaunchedSound
<1>4. PICK n : n = NextRun
  OBVIOUS
<1>5. n \in Runs
  BY <1>2, <1>4, RoomIs
<1>a. PICK early : early = run[p].rounds
  OBVIOUS
<1>b. PICK given : given = run[p].saved
  OBVIOUS
<1>c. PICK rounds : rounds = IF text THEN Append(given, Round(FALSE, NoRun, n)) ELSE given
  OBVIOUS
<1>d. PICK shared : shared = (InWorktree(p) /\ run[p].known.status \notin {"DELIVERED", "NO_CHANGES"})
  OBVIOUS
<1>e. PICK saved : saved = run
  OBVIOUS
<1>6. rounds \in Seq(Rounds) /\ Grown(early, rounds) /\ (text => n \in Given(rounds))
  <2>1. early \in Seq(Rounds) /\ given \in Seq(Rounds) /\ Grown(early, given)
    BY <1>3, <1>a, <1>b DEF Sound
  <2> QED BY ONLY <1>5, <1>c, <2>1, text \in BOOLEAN, ContinuedGrows, ZenonT(60)
<1>7. Settled(run[p].rounds) \subseteq Given(rounds)
  <2>1. early \in Seq(Rounds)
    BY <1>3, <1>a
  <2> QED BY <1>6, <1>a, <2>1, GrownGives
<1>8. run' = [saved EXCEPT ![n] = NewRun(n, p, rounds, shared, text)]
  BY <1>1, <1>4, <1>b, <1>c, <1>d, <1>e
<1>9. saved \in [Runs -> RunType] /\ \A s \in Runs : saved[s] = run[s]
  BY <1>3, <1>e
<1>10. shared \in BOOLEAN /\ (shared => p \in Launched /\ InWorktree(p)) /\ p \in Launched \cup {NoRun}
  BY <1>2, <1>3, <1>d
<1>11. saved[p] = run[p]
  BY <1>9
<1> QED BY ONLY IInv, <1>2, <1>4, <1>5, <1>6, <1>7, <1>8, <1>9, <1>10, <1>11, text \in BOOLEAN, LaunchStep, ZenonT(60)

LEMMA ResumeLastInv == ASSUME IInv, NEW p \in Runs, ResumeLast(p) PROVE IInv'
<1>1. /\ p \in Launched /\ Room /\ UNCHANGED <<prMode, tree, crashed>>
      /\ run' = [run EXCEPT ![NextRun] = NewRun(NextRun, p, run[p].saved, InWorktree(p), FALSE)]
  BY DEF ResumeLast
<1>3. /\ p \in Runs /\ run[p] \in RunType /\ run[p].rounds \in Seq(Rounds) /\ run[p].saved \in Seq(Rounds)
      /\ Sound(p) /\ run \in [Runs -> RunType] /\ InWorktree(p) \in BOOLEAN
  BY <1>1, LaunchedSound
<1>4. PICK n : n = NextRun
  OBVIOUS
<1>5. n \in Runs
  BY <1>1, <1>4, RoomIs
<1>a. PICK early : early = run[p].rounds
  OBVIOUS
<1>b. PICK rounds : rounds = run[p].saved
  OBVIOUS
<1>d. PICK shared : shared = InWorktree(p)
  OBVIOUS
<1>f. PICK sure : sure = FALSE
  OBVIOUS
<1>e. PICK saved : saved = run
  OBVIOUS
<1>6. early \in Seq(Rounds) /\ rounds \in Seq(Rounds) /\ Grown(early, rounds)
  BY <1>3, <1>a, <1>b DEF Sound
<1>7. Settled(run[p].rounds) \subseteq Given(rounds)
  BY <1>6, <1>a, GrownGives
<1>8. run' = [saved EXCEPT ![n] = NewRun(n, p, rounds, shared, sure)]
  BY <1>1, <1>4, <1>b, <1>d, <1>e, <1>f
<1>9. saved \in [Runs -> RunType] /\ \A s \in Runs : saved[s] = run[s]
  BY <1>3, <1>e
<1>10. sure \in BOOLEAN /\ ~sure /\ shared \in BOOLEAN /\ (shared => p \in Launched /\ InWorktree(p)) /\ p \in Launched \cup {NoRun}
  BY <1>1, <1>3, <1>d, <1>f
<1>11. /\ \A s \in Runs : \/ saved[s] = run[s]
                          \/ s = p /\ saved[s] = [run[s] EXCEPT !.saved = rounds]
       /\ p \in Launched /\ saved[p] # run[p] =>
            /\ Grown(run[p].rounds, rounds)
            /\ run[p].asked => rounds # <<>> /\ LastRound(rounds).asked
  BY <1>3, <1>9
<1>12. UNCHANGED <<prMode, tree, crashed>> /\ n = NextRun
  BY <1>1, <1>4
<1> QED BY ONLY IInv, <1>5, <1>6, <1>7, <1>8, <1>9, <1>10, <1>11, <1>12, LaunchStep, ZenonT(60)

-----------------------------------------------------------------------------
(* The steps of a run at work. *)

\* A run whose checkpoint is RUNNING or DELIVERY_PENDING.
LEMMA GoingIs ==
  ASSUME IInv, NEW r \in Runs, run[r].cp \in {"RUNNING", "DELIVERY_PENDING"}
  PROVE /\ r \in Launched /\ run[r] \in RunType /\ run[r].rounds \in Seq(Rounds)
        /\ run[r].mem \in Deliveries /\ Sound(r) /\ Linked(r) /\ run[r].asked = FALSE
        /\ run \in [Runs -> RunType] /\ run[r].status # "none"
        /\ (run[r].tree # NoRun => run[r].tree \in Runs)
<1>1. run \in [Runs -> RunType] /\ run[r] \in RunType
  BY DEF IInv
<1>2. run[r].status # "none"
  BY DEF IInv, Absent
<1>3. r \in Launched /\ Sound(r) /\ Linked(r)
  BY <1>2 DEF Launched, IInv
<1>4. run[r].asked = FALSE
  BY <1>1, <1>3 DEF Sound, RunType
<1> QED BY <1>1, <1>2, <1>3, <1>4 DEF RunType, Linked, Launched

\* What the end of a run leaves.
LEMMA OverIs ==
  ASSUME IInv, NEW r \in Runs, run[r].cp = "RUNNING",
         NEW status \in Statuses, status # "none", NEW cp \in Checkpoints, NEW delivery \in Deliveries,
         Over(r, status, cp, delivery),
         delivery.status # "none" \/ cp = "DELIVERY_PENDING" => run[r].tree # NoRun,
         run[r].tree = r /\ cp = "DELIVERY_PENDING" => run[r].verified
  PROVE /\ run' \in [Runs -> RunType] /\ \A s \in Runs \ {r} : run'[s] = run[s]
        /\ run'[r].status # "none" /\ run'[r].tree = run[r].tree /\ run'[r].parent = run[r].parent
        /\ run'[r].rounds = run[r].rounds /\ run'[r].cp = cp /\ run'[r].phase = "over"
        /\ run'[r].mem = delivery /\ run'[r].known \in {delivery, run[r].known}
        /\ Sound(r)'
<1>1. /\ r \in Launched /\ run[r] \in RunType /\ run[r].rounds \in Seq(Rounds) /\ Sound(r)
      /\ run[r].asked = FALSE /\ run \in [Runs -> RunType]
  BY GoingIs
<1>2. PICK saved : saved = IF run[r].saves THEN run[r].rounds ELSE run[r].saved
  OBVIOUS
<1>3. PICK known : known = IF run[r].saves THEN delivery ELSE run[r].known
  OBVIOUS
<1>4. PICK q : q = [run[r] EXCEPT !.status = status, !.cp = cp, !.phase = "over", !.alive = FALSE,
                        !.mem = delivery, !.saved = saved, !.known = known]
  OBVIOUS
<1>5. run' = [run EXCEPT ![r] = q]
  BY <1>1, <1>2, <1>3, <1>4 DEF Over
<1>6. saved \in Seq(Rounds) /\ known \in Deliveries /\ "over" \in Phases /\ FALSE \in BOOLEAN
  BY <1>1, <1>2, <1>3 DEF RunType, Phases
<1>7. q \in RunType /\ q.status = status /\ q.cp = cp /\ q.phase = "over" /\ q.mem = delivery
      /\ q.saved = saved /\ q.known = known /\ q.tree = run[r].tree /\ q.parent = run[r].parent
      /\ q.rounds = run[r].rounds /\ q.verified = run[r].verified /\ q.sure = run[r].sure
      /\ q.asked = run[r].asked
  BY <1>1, <1>4, <1>6 DEF RunType
<1>8. run' \in [Runs -> RunType] /\ run'[r] = q /\ \A s \in Runs \ {r} : run'[s] = run[s]
  BY <1>1, <1>5, <1>7
<1>9. Grown(run[r].rounds, saved)
  BY <1>1, <1>2, GrownSelf DEF Sound
<1>10. known \in {delivery, run[r].known}
  BY <1>3
<1>11. Sound(r)'
  BY <1>1, <1>7, <1>8, <1>9, <1>10 DEF Sound
<1> QED BY <1>7, <1>8, <1>10, <1>11

\* The end of a run that changes no worktree.
LEMMA OverStep ==
  ASSUME IInv, NEW r \in Runs, run[r].cp = "RUNNING",
         NEW status \in Statuses, status # "none", NEW cp \in Checkpoints, NEW delivery \in Deliveries,
         Over(r, status, cp, delivery), UNCHANGED <<prMode, tree, crashed>>,
         delivery.status # "none" \/ cp = "DELIVERY_PENDING" => run[r].tree # NoRun,
         run[r].tree = r /\ cp = "DELIVERY_PENDING" => run[r].verified,
         delivery.status = "DELIVERED" => tree[run[r].tree].pr,
         run[r].phase \in {"commit", "push", "over"} /\ cp = "DELIVERY_PENDING" => delivery.stage = "commit"
  PROVE IInv'
<1>1. r \in Launched /\ Linked(r)
  BY GoingIs
<1>2. /\ run' \in [Runs -> RunType] /\ \A s \in Runs \ {r} : run'[s] = run[s]
      /\ run'[r].status # "none" /\ run'[r].tree = run[r].tree /\ run'[r].parent = run[r].parent
      /\ run'[r].rounds = run[r].rounds /\ run'[r].cp = cp /\ run'[r].phase = "over"
      /\ run'[r].mem = delivery /\ run'[r].known \in {delivery, run[r].known}
      /\ Sound(r)'
  BY OverIs
<1>3. "DELIVERED" \in {run'[r].known.status, run'[r].mem.status} => tree[run[r].tree].pr
  BY <1>1, <1>2 DEF Linked
<1>4. prMode' = prMode /\ crashed' = crashed /\ tree' = tree
  OBVIOUS
<1> QED BY <1>1, <1>2, <1>3, <1>4, QuietStep

LEMMA AsksInv == ASSUME IInv, NEW r \in Runs, Asks(r) PROVE IInv'
<1>1. run[r].cp = "RUNNING" /\ run[r].phase = "steps" /\ UNCHANGED <<prMode, tree, crashed>>
  BY DEF Asks, AtWork
<1>2. /\ r \in Launched /\ run[r] \in RunType /\ run[r].rounds \in Seq(Rounds) /\ Sound(r) /\ Linked(r)
      /\ run \in [Runs -> RunType]
  BY <1>1, GoingIs
<1>3. PICK early : early = run[r].rounds
  OBVIOUS
<1>4. PICK saved : saved = Append(early, Round(TRUE, NoRun, NoRun))
  OBVIOUS
<1>5. Round(TRUE, NoRun, NoRun) \in Rounds /\ Round(TRUE, NoRun, NoRun).asked
  BY SessionAssumption DEF Round, Rounds, NoRun
<1>6. saved \in Seq(Rounds) /\ Grown(early, saved) /\ saved # <<>> /\ LastRound(saved).asked
  BY <1>2, <1>3, <1>4, <1>5, GrownSelf, GrownAppend
<1>7. PICK q : q = [run[r] EXCEPT !.status = "DONE", !.cp = "WAITING_USER", !.phase = "over",
                        !.alive = FALSE, !.known = run[r].mem, !.asked = TRUE, !.saved = saved]
  OBVIOUS
<1>8. run' = [run EXCEPT ![r] = q]
  BY <1>2, <1>3, <1>4, <1>7 DEF Asks
<1>9. q \in RunType /\ q.status = "DONE" /\ q.cp = "WAITING_USER" /\ q.phase = "over" /\ q.mem = run[r].mem
      /\ q.saved = saved /\ q.known = run[r].mem /\ q.tree = run[r].tree /\ q.parent = run[r].parent
      /\ q.rounds = early /\ q.sure = run[r].sure
  BY <1>2, <1>3, <1>6, <1>7 DEF RunType, Statuses, Checkpoints, Phases
<1>10. run' \in [Runs -> RunType] /\ run'[r] = q /\ \A s \in Runs \ {r} : run'[s] = run[s]
  BY <1>2, <1>8, <1>9
<1>11. Sound(r)'
  BY <1>2, <1>3, <1>6, <1>9, <1>10 DEF Sound
<1>12. "DELIVERED" \in {q.known.status, q.mem.status} => tree[run[r].tree].pr
  BY <1>2, <1>9 DEF Linked
<1>13. prMode' = prMode /\ crashed' = crashed /\ tree' = tree
  BY <1>1
<1> QED BY <1>2, <1>3, <1>9, <1>10, <1>11, <1>12, <1>13, QuietStep

LEMMA StopsInv == ASSUME IInv, NEW r \in Runs, Stops(r) PROVE IInv'
<1>1. run[r].cp = "RUNNING" /\ run[r].phase = "steps" /\ UNCHANGED <<prMode, tree, crashed>>
  BY DEF Stops, AtWork
<1>2. /\ r \in Launched /\ run[r] \in RunType /\ Sound(r) /\ Linked(r) /\ run[r].mem \in Deliveries
      /\ run \in [Runs -> RunType] /\ run[r].asked = FALSE
  BY <1>1, GoingIs
<1>3. PICK mem : mem = run[r].mem
  OBVIOUS
<1>4. PICK cp : cp = IF mem.status = "DELIVERY_PENDING" THEN "DELIVERY_PENDING" ELSE "FAILED"
  OBVIOUS
<1>5. /\ mem \in Deliveries /\ cp \in Checkpoints
      /\ mem.status # "none" \/ cp = "DELIVERY_PENDING" => run[r].tree # NoRun
      /\ ~(run[r].tree = r /\ cp = "DELIVERY_PENDING")
      /\ mem.status = "DELIVERED" => tree[run[r].tree].pr
  BY <1>1, <1>2, <1>3, <1>4 DEF Sound, Linked, Checkpoints
<1>6. "FAILED" \in Statuses /\ "CANCELLED" \in Checkpoints
  BY DEF Statuses, Checkpoints
<1>7. CASE Over(r, "FAILED", "CANCELLED", run[r].mem)
  <2>1. Over(r, "FAILED", "CANCELLED", mem)
    BY <1>3, <1>7
  <2> QED BY <1>1, <1>5, <1>6, <2>1, OverStep
<1>8. CASE Over(r, "FAILED", IF run[r].mem.status = "DELIVERY_PENDING" THEN "DELIVERY_PENDING" ELSE "FAILED",
                run[r].mem)
  <2>1. Over(r, "FAILED", cp, mem)
    BY <1>3, <1>4, <1>8
  <2> QED BY <1>1, <1>5, <1>6, <2>1, OverStep
<1>9. CASE run' = [run EXCEPT ![r].status = "FAILED", ![r].cp = "FAILED", ![r].phase = "over",
                              ![r].alive = FALSE]
  <2>1. PICK q : q = [run[r] EXCEPT !.status = "FAILED", !.cp = "FAILED", !.phase = "over", !.alive = FALSE]
    OBVIOUS
  <2>2. run' = [run EXCEPT ![r] = q]
    BY <1>2, <1>9, <2>1
  <2>3. /\ q \in RunType /\ q.status = "FAILED" /\ q.cp = "FAILED" /\ q.phase = "over" /\ q.mem = run[r].mem
        /\ q.saved = run[r].saved /\ q.known = run[r].known /\ q.tree = run[r].tree
        /\ q.parent = run[r].parent /\ q.rounds = run[r].rounds /\ q.sure = run[r].sure /\ q.asked = FALSE
        /\ q.verified = run[r].verified
    BY <1>2, <2>1 DEF RunType, Statuses, Checkpoints, Phases
  <2>4. run' \in [Runs -> RunType] /\ run'[r] = q /\ \A s \in Runs \ {r} : run'[s] = run[s]
    BY <1>2, <2>2, <2>3
  <2>5. Sound(r)'
    BY <1>2, <2>3, <2>4 DEF Sound
  <2>6. "DELIVERED" \in {q.known.status, q.mem.status} => tree[run[r].tree].pr
    BY <1>2, <2>3 DEF Linked
  <2>7. prMode' = prMode /\ crashed' = crashed /\ tree' = tree
    BY <1>1
  <2> QED BY <1>2, <2>3, <2>4, <2>5, <2>6, <2>7, QuietStep
<1> QED BY <1>7, <1>8, <1>9 DEF Stops

LEMMA ShipsInv == ASSUME IInv, NEW r \in Runs, Ships(r) PROVE IInv'
<1>1. run[r].cp = "RUNNING" /\ run[r].phase = "steps" /\ UNCHANGED <<prMode, tree, crashed>>
  BY DEF Ships, AtWork
<1>2. /\ r \in Launched /\ run[r] \in RunType /\ Sound(r) /\ Linked(r)
      /\ run \in [Runs -> RunType] /\ run[r].asked = FALSE /\ run[r].status # "none"
  BY <1>1, GoingIs
<1>3. CASE InWorktree(r)
  <2>1. PICK q : q = [run[r] EXCEPT !.phase = "audit", !.verified = TRUE]
    OBVIOUS
  <2>2. run' = [run EXCEPT ![r] = q]
    BY <1>2, <1>3, <2>1 DEF Ships
  <2>3. /\ q \in RunType /\ q.status = run[r].status /\ q.cp = "RUNNING" /\ q.phase = "audit"
        /\ q.mem = run[r].mem /\ q.saved = run[r].saved /\ q.known = run[r].known /\ q.tree = run[r].tree
        /\ q.parent = run[r].parent /\ q.rounds = run[r].rounds /\ q.sure = run[r].sure /\ q.asked = FALSE
        /\ q.verified = TRUE
    BY <1>1, <1>2, <2>1 DEF RunType, Phases
  <2>4. run' \in [Runs -> RunType] /\ run'[r] = q /\ \A s \in Runs \ {r} : run'[s] = run[s]
    BY <1>2, <2>2, <2>3
  <2>5. Sound(r)'
    BY <1>2, <1>3, <2>3, <2>4 DEF Sound, InWorktree
  <2>6. "DELIVERED" \in {q.known.status, q.mem.status} => tree[run[r].tree].pr
    BY <1>2, <2>3 DEF Linked
  <2>7. prMode' = prMode /\ crashed' = crashed /\ tree' = tree
    BY <1>1
  <2>8. run[r].phase \notin {"commit", "push", "over"}
    BY <1>1
  <2> QED BY <1>2, <2>3, <2>4, <2>5, <2>6, <2>7, <2>8, QuietStep
<1>4. CASE ~InWorktree(r)
  <2>1. Over(r, "DONE", "SUCCEEDED", NoDelivery)
    BY <1>4 DEF Ships
  <2>2. "DONE" \in Statuses /\ "SUCCEEDED" \in Checkpoints /\ NoDelivery \in Deliveries /\ NoDelivery.status = "none"
    BY DEF Statuses, Checkpoints, NoDelivery, Delivery, Deliveries
  <2> QED BY <1>1, <2>1, <2>2, OverStep
<1> QED BY <1>3, <1>4

LEMMA AuditedInv == ASSUME IInv, NEW r \in Runs, Audited(r) PROVE IInv'
<1>1. run[r].cp = "RUNNING" /\ run[r].phase = "audit" /\ UNCHANGED <<prMode, tree, crashed>>
  BY DEF Audited, AtWork
<1>2. /\ r \in Launched /\ run[r] \in RunType /\ Sound(r) /\ Linked(r)
      /\ run \in [Runs -> RunType] /\ run[r].asked = FALSE /\ run[r].status # "none"
  BY <1>1, GoingIs
<1>3. CASE run' = [run EXCEPT ![r].phase = "commit"]
  <2>1. PICK q : q = [run[r] EXCEPT !.phase = "commit"]
    OBVIOUS
  <2>2. run' = [run EXCEPT ![r] = q]
    BY <1>2, <1>3, <2>1
  <2>3. /\ q \in RunType /\ q.status = run[r].status /\ q.cp = "RUNNING" /\ q.phase = "commit"
        /\ q.mem = run[r].mem /\ q.saved = run[r].saved /\ q.known = run[r].known /\ q.tree = run[r].tree
        /\ q.parent = run[r].parent /\ q.rounds = run[r].rounds /\ q.sure = run[r].sure /\ q.asked = FALSE
        /\ q.verified = run[r].verified
    BY <1>1, <1>2, <2>1 DEF RunType, Phases
  <2>4. run' \in [Runs -> RunType] /\ run'[r] = q /\ \A s \in Runs \ {r} : run'[s] = run[s]
    BY <1>2, <2>2, <2>3
  <2>5. Sound(r)'
    BY <1>1, <1>2, <2>3, <2>4 DEF Sound
  <2>6. "DELIVERED" \in {q.known.status, q.mem.status} => tree[run[r].tree].pr
    BY <1>2, <2>3 DEF Linked
  <2>7. prMode' = prMode /\ crashed' = crashed /\ tree' = tree
    BY <1>1
  <2> QED BY <1>2, <2>3, <2>4, <2>5, <2>6, <2>7, QuietStep
<1>4. CASE IsPending(r, "audit", FALSE)
  <2>1. PICK delivery : delivery = Delivery("DELIVERY_PENDING", "audit", FALSE)
    OBVIOUS
  <2>2. Over(r, "DONE", "DELIVERY_PENDING", delivery)
    BY <1>4, <2>1 DEF IsPending
  <2>3. "DONE" \in Statuses /\ "DELIVERY_PENDING" \in Checkpoints /\ delivery \in Deliveries
        /\ delivery.status = "DELIVERY_PENDING"
    BY <2>1 DEF Statuses, Checkpoints, Delivery, Deliveries
  <2>4. run[r].tree # NoRun /\ (run[r].tree = r => run[r].verified)
    BY <1>1, <1>2 DEF Sound
  <2> QED BY <1>1, <2>2, <2>3, <2>4, OverStep
<1> QED BY <1>3, <1>4 DEF Audited

-----------------------------------------------------------------------------
(* Its commit, and its pull request. *)

\* Run r makes the commit of its worktree, which it then does not write to any more.
LEMMA CommitMade ==
  ASSUME IInv, NEW r \in Launched, NEW t \in Runs,
         tree' = [tree EXCEPT ![t].commit = tree[t].work, ![t].work = {}, ![t].by = r],
         \A s \in Runs \ {r} : run'[s] = run[s], run'[r].status # "none",
         run'[r].phase \in {"commit", "push", "over"},
         run'[r].cp = "DELIVERY_PENDING" => run'[r].mem.stage = "commit"
  PROVE /\ tree' \in [Runs -> TreeType] /\ \A u \in Runs : tree[u].pr => tree'[u].pr
        /\ \A u \in Runs : Committed(u)'
<1>1. tree \in [Runs -> TreeType] /\ tree[t] \in TreeType /\ r \in Runs
  BY DEF IInv, Launched
<1>2. PICK w : w = [tree[t] EXCEPT !.commit = tree[t].work, !.work = {}, !.by = r]
  OBVIOUS
<1>3. tree' = [tree EXCEPT ![t] = w]
  BY <1>1, <1>2
<1>4. w \in TreeType /\ w.work = {} /\ w.by = r /\ w.pr = tree[t].pr
  <2>1. r \in 0..MaxRuns
    BY <1>1, SessionAssumption DEF Runs
  <2> QED BY <1>1, <1>2, <2>1 DEF TreeType
<1>5. tree' \in [Runs -> TreeType] /\ tree'[t] = w /\ \A u \in Runs \ {t} : tree'[u] = tree[u]
  BY <1>1, <1>3, <1>4
<1>6. Launched' = Launched
  BY DEF Launched
<1>7. ASSUME NEW u \in Runs PROVE Committed(u)'
  <2>1. CASE u = t
    BY <1>4, <1>5, <1>6, <2>1 DEF Committed
  <2>2. CASE u # t
    <3>1. tree'[u] = tree[u] /\ Committed(u)
      BY <1>5, <2>2 DEF IInv
    <3>2. tree[u].by # NoRun => tree[u].by \in Runs
      BY <3>1 DEF Committed, Launched
    <3> QED BY <1>6, <3>1, <3>2 DEF Committed
  <2> QED BY <2>1, <2>2
<1> QED BY <1>4, <1>5, <1>7

LEMMA CommitInv == ASSUME IInv, NEW r \in Runs, Commit(r) PROVE IInv'
<1>1. run[r].cp = "RUNNING" /\ run[r].phase = "commit" /\ prMode' = prMode /\ crashed' = crashed
  BY DEF Commit, AtWork
<1>2. /\ r \in Launched /\ run[r] \in RunType /\ Sound(r) /\ Linked(r) /\ run[r].mem \in Deliveries
      /\ run \in [Runs -> RunType] /\ run[r].asked = FALSE /\ run[r].status # "none"
      /\ (run[r].tree # NoRun => run[r].tree \in Runs)
  BY <1>1, GoingIs
<1>3. PICK t : t = run[r].tree
  OBVIOUS
<1>4. t \in Runs /\ t # NoRun /\ (t = r => run[r].verified)
  BY <1>1, <1>2, <1>3 DEF Sound
<1>5. PICK committed : committed = [tree EXCEPT ![t].commit = tree[t].work, ![t].work = {}, ![t].by = r]
  OBVIOUS
<1>6. PICK sha \in BOOLEAN : sha = run[r].mem.sha
  BY <1>2 DEF Deliveries
<1>7. "DONE" \in Statuses /\ "DELIVERY_PENDING" \in Checkpoints /\ "SUCCEEDED" \in Checkpoints
  BY DEF Statuses, Checkpoints
<1>8. CASE run' = [run EXCEPT ![r].phase = "push", ![r].mem = Delivery("READY", "commit", TRUE)]
           /\ tree' \in {tree, committed}
  <2>0. PICK delivery : delivery = Delivery("READY", "commit", TRUE)
    OBVIOUS
  <2>1. delivery \in Deliveries /\ delivery = Delivery("READY", "commit", TRUE) /\ delivery.status = "READY"
    BY <2>0 DEF Delivery, Deliveries
  <2>2. PICK q : q = [run[r] EXCEPT !.phase = "push", !.mem = delivery]
    OBVIOUS
  <2>3. run' = [run EXCEPT ![r] = q]
    BY <1>2, <1>8, <2>1, <2>2
  <2>4. /\ q \in RunType /\ q.status = run[r].status /\ q.cp = "RUNNING" /\ q.phase = "push"
        /\ q.mem = delivery /\ q.saved = run[r].saved /\ q.known = run[r].known /\ q.tree = run[r].tree
        /\ q.parent = run[r].parent /\ q.rounds = run[r].rounds /\ q.sure = run[r].sure /\ q.asked = FALSE
        /\ q.verified = run[r].verified
    BY <1>1, <1>2, <2>1, <2>2 DEF RunType, Phases
  <2>5. run' \in [Runs -> RunType] /\ run'[r] = q /\ \A s \in Runs \ {r} : run'[s] = run[s]
    BY <1>2, <2>3, <2>4
  <2>6. Sound(r)'
    BY <1>2, <1>3, <1>4, <2>1, <2>4, <2>5 DEF Sound
  <2>7. "DELIVERED" \in {q.known.status, q.mem.status} => tree[run[r].tree].pr
    BY <1>2, <2>1, <2>4 DEF Linked
  <2>8. CASE tree' = tree
    BY <1>1, <1>2, <2>4, <2>5, <2>6, <2>7, <2>8, QuietStep
  <2>9. CASE tree' = committed
    <3>1. tree' = [tree EXCEPT ![t].commit = tree[t].work, ![t].work = {}, ![t].by = r]
      BY <1>5, <2>9
    <3>2. /\ tree' \in [Runs -> TreeType] /\ \A u \in Runs : tree[u].pr => tree'[u].pr
          /\ \A u \in Runs : Committed(u)'
      BY <1>2, <1>4, <2>4, <2>5, <3>1, CommitMade
    <3> QED BY <1>1, <1>2, <1>3, <1>4, <2>4, <2>5, <2>6, <2>7, <3>2, RunStep
  <2> QED BY <1>8, <2>8, <2>9
<1>9. CASE Over(r, "DONE", "SUCCEEDED", Delivery("NO_CHANGES", "commit", FALSE)) /\ tree' = tree
  <2>0. PICK delivery : delivery = Delivery("NO_CHANGES", "commit", FALSE)
    OBVIOUS
  <2>1. delivery \in Deliveries /\ delivery.status = "NO_CHANGES"
    BY <2>0 DEF Delivery, Deliveries
  <2>2. Over(r, "DONE", "SUCCEEDED", delivery)
    BY <1>9, <2>0
  <2>3. UNCHANGED <<prMode, tree, crashed>>
    BY <1>1, <1>9
  <2> QED BY <1>1, <1>3, <1>4, <1>7, <2>1, <2>2, <2>3, OverStep
<1>10. CASE IsPending(r, "commit", run[r].mem.sha) /\ tree' \in {tree, committed}
  <2>1. PICK delivery : delivery = Delivery("DELIVERY_PENDING", "commit", sha)
    OBVIOUS
  <2>2. delivery \in Deliveries /\ delivery.status = "DELIVERY_PENDING" /\ delivery.stage = "commit"
    BY <2>1 DEF Delivery, Deliveries
  <2>3. Over(r, "DONE", "DELIVERY_PENDING", delivery)
    BY <1>6, <1>10, <2>1 DEF IsPending
  <2>4. run[r].tree # NoRun /\ (run[r].tree = r => run[r].verified)
    BY <1>3, <1>4
  <2>5. CASE tree' = tree
    <3>1. UNCHANGED <<prMode, tree, crashed>>
      BY <1>1, <2>5
    <3> QED BY <1>1, <1>7, <2>2, <2>3, <2>4, <3>1, OverStep
  <2>6. CASE tree' = committed
    <3>1. tree' = [tree EXCEPT ![t].commit = tree[t].work, ![t].work = {}, ![t].by = r]
      BY <1>5, <2>6
    <3>2. /\ run' \in [Runs -> RunType] /\ \A s \in Runs \ {r} : run'[s] = run[s]
          /\ run'[r].status # "none" /\ run'[r].tree = run[r].tree /\ run'[r].parent = run[r].parent
          /\ run'[r].rounds = run[r].rounds /\ run'[r].cp = "DELIVERY_PENDING" /\ run'[r].phase = "over"
          /\ run'[r].mem = delivery /\ run'[r].known \in {delivery, run[r].known}
          /\ Sound(r)'
      BY <1>1, <1>7, <2>2, <2>3, <2>4, OverIs
    <3>3. /\ tree' \in [Runs -> TreeType] /\ \A u \in Runs : tree[u].pr => tree'[u].pr
          /\ \A u \in Runs : Committed(u)'
      BY <1>2, <1>4, <2>2, <3>1, <3>2, CommitMade
    <3>4. "DELIVERED" \in {run'[r].known.status, run'[r].mem.status} => tree'[run[r].tree].pr
      BY <1>2, <1>3, <1>4, <2>2, <3>2, <3>3 DEF Linked
    <3> QED BY <1>1, <1>2, <3>2, <3>3, <3>4, RunStep
  <2> QED BY <1>10, <2>5, <2>6
<1>11. \/ run' = [run EXCEPT ![r].phase = "push", ![r].mem = Delivery("READY", "commit", TRUE)]
          /\ tree' \in {tree, committed}
       \/ Over(r, "DONE", "SUCCEEDED", Delivery("NO_CHANGES", "commit", FALSE)) /\ tree' = tree
       \/ IsPending(r, "commit", run[r].mem.sha) /\ tree' \in {tree, committed}
  BY <1>3, <1>5 DEF Commit
<1> QED BY <1>8, <1>9, <1>10, <1>11

LEMMA DeliverInv == ASSUME IInv, NEW r \in Runs, Deliver(r) PROVE IInv'
<1>1. run[r].cp = "RUNNING" /\ run[r].phase = "push" /\ prMode' = prMode /\ crashed' = crashed
  BY DEF Deliver, AtWork
<1>2. /\ r \in Launched /\ Sound(r) /\ Linked(r) /\ (run[r].tree # NoRun => run[r].tree \in Runs)
  BY <1>1, GoingIs
<1>3. PICK t : t = run[r].tree
  OBVIOUS
<1>4. t \in Runs /\ t # NoRun /\ (t = r => run[r].verified)
  BY <1>1, <1>2, <1>3 DEF Sound
<1>5. "DONE" \in Statuses /\ "DELIVERY_PENDING" \in Checkpoints /\ "SUCCEEDED" \in Checkpoints
  BY DEF Statuses, Checkpoints
<1>6. CASE Over(r, "DONE", "SUCCEEDED", Delivery("DELIVERED", "commit", TRUE))
           /\ tree' = [tree EXCEPT ![run[r].tree].pr = TRUE]
  <2>1. PICK delivery : delivery = Delivery("DELIVERED", "commit", TRUE)
    OBVIOUS
  <2>2. delivery \in Deliveries
    BY <2>1 DEF Delivery, Deliveries
  <2>3. /\ run' \in [Runs -> RunType] /\ \A s \in Runs \ {r} : run'[s] = run[s]
        /\ run'[r].status # "none" /\ run'[r].tree = run[r].tree /\ run'[r].parent = run[r].parent
        /\ run'[r].rounds = run[r].rounds /\ run'[r].cp = "SUCCEEDED" /\ run'[r].phase = "over"
        /\ run'[r].mem = delivery /\ run'[r].known \in {delivery, run[r].known}
        /\ Sound(r)'
    <3>1. Over(r, "DONE", "SUCCEEDED", delivery)
      BY <1>6, <2>1
    <3> QED BY <1>1, <1>3, <1>4, <1>5, <2>2, <3>1, OverIs
  <2>4. PICK w : w = [tree[t] EXCEPT !.pr = TRUE]
    OBVIOUS
  <2>5. tree \in [Runs -> TreeType] /\ tree[t] \in TreeType
    BY <1>4 DEF IInv
  <2>6. tree' = [tree EXCEPT ![t] = w]
    BY <1>3, <1>6, <2>4, <2>5
  <2>7. w \in TreeType /\ w.work = tree[t].work /\ w.by = tree[t].by /\ w.pr = TRUE
    BY <2>4, <2>5 DEF TreeType
  <2>8. tree' \in [Runs -> TreeType] /\ tree'[t] = w /\ \A u \in Runs \ {t} : tree'[u] = tree[u]
    BY <1>4, <2>5, <2>6, <2>7
  <2>9. \A u \in Runs : tree[u].pr => tree'[u].pr
    BY <2>7, <2>8
  <2>10. \A u \in Runs : tree'[u].by = tree[u].by /\ tree'[u].work = tree[u].work
    BY <2>7, <2>8
  <2>11. Launched' = Launched
    BY <1>2, <2>3 DEF Launched
  <2>12. ASSUME NEW u \in Runs PROVE Committed(u)'
    <3>1. Committed(u) /\ (tree[u].by # NoRun => tree[u].by \in Runs)
      BY DEF IInv, Committed, Launched
    <3> QED BY <2>3, <2>10, <2>11, <3>1 DEF Committed
  <2>13. tree'[run[r].tree].pr
    BY <1>3, <2>7, <2>8
  <2> QED BY <1>1, <1>2, <2>3, <2>8, <2>9, <2>12, <2>13, RunStep
<1>7. CASE IsPending(r, "commit", TRUE) /\ tree' = tree
  <2>1. PICK delivery : delivery = Delivery("DELIVERY_PENDING", "commit", TRUE)
    OBVIOUS
  <2>2. delivery \in Deliveries /\ delivery.status = "DELIVERY_PENDING" /\ delivery.stage = "commit"
    BY <2>1 DEF Delivery, Deliveries
  <2>3. Over(r, "DONE", "DELIVERY_PENDING", delivery)
    BY <1>7, <2>1 DEF IsPending
  <2>4. UNCHANGED <<prMode, tree, crashed>>
    BY <1>1, <1>7
  <2>5. run[r].tree # NoRun /\ (run[r].tree = r => run[r].verified)
    BY <1>3, <1>4
  <2> QED BY <1>1, <1>5, <2>2, <2>3, <2>4, <2>5, OverStep
<1> QED BY <1>6, <1>7 DEF Deliver

-----------------------------------------------------------------------------
(* Retries, crashes and recoveries. *)

LEMMA RetryInv == ASSUME IInv, NEW r \in Runs, Retry(r) PROVE IInv'
<1>1. run[r].cp = "DELIVERY_PENDING" /\ UNCHANGED <<prMode, tree, crashed>>
  BY DEF Retry
<1>2. /\ r \in Launched /\ run[r] \in RunType /\ Sound(r) /\ Linked(r)
      /\ run \in [Runs -> RunType] /\ run[r].asked = FALSE /\ run[r].status # "none"
  BY <1>1, GoingIs
<1>3. PICK phase : phase = IF run[r].mem.stage = "commit" THEN "commit" ELSE "audit"
  OBVIOUS
<1>4. PICK q : q = [run[r] EXCEPT !.cp = "RUNNING", !.alive = TRUE, !.saves = FALSE, !.phase = phase]
  OBVIOUS
<1>5. run' = [run EXCEPT ![r] = q]
  BY <1>2, <1>3, <1>4 DEF Retry
<1>6. /\ q \in RunType /\ q.status = run[r].status /\ q.cp = "RUNNING" /\ q.phase = phase
      /\ q.mem = run[r].mem /\ q.saved = run[r].saved /\ q.known = run[r].known /\ q.tree = run[r].tree
      /\ q.parent = run[r].parent /\ q.rounds = run[r].rounds /\ q.sure = run[r].sure /\ q.asked = FALSE
      /\ q.verified = run[r].verified
  BY <1>2, <1>3, <1>4 DEF RunType, Phases, Checkpoints
<1>7. run' \in [Runs -> RunType] /\ run'[r] = q /\ \A s \in Runs \ {r} : run'[s] = run[s]
  BY <1>2, <1>5, <1>6
<1>8. phase \in {"commit", "audit"} /\ (run[r].mem.stage = "commit" => phase = "commit")
  BY <1>3
<1>9. Sound(r)'
  BY <1>1, <1>2, <1>6, <1>7, <1>8 DEF Sound
<1>10. "DELIVERED" \in {q.known.status, q.mem.status} => tree[run[r].tree].pr
  BY <1>2, <1>6 DEF Linked
<1>11. prMode' = prMode /\ crashed' = crashed /\ tree' = tree
  BY <1>1
<1> QED BY <1>1, <1>2, <1>6, <1>7, <1>8, <1>9, <1>10, <1>11, QuietStep

LEMMA RecoverInv == ASSUME IInv, NEW r \in Runs, Recover(r) PROVE IInv'
<1>1. run[r].cp = "RUNNING" /\ UNCHANGED <<prMode, tree, crashed>>
  BY DEF Recover
<1>2. /\ r \in Launched /\ run[r] \in RunType /\ Sound(r) /\ Linked(r)
      /\ run \in [Runs -> RunType] /\ run[r].asked = FALSE /\ run[r].status # "none"
  BY <1>1, GoingIs
<1>3. PICK q : /\ run' = [run EXCEPT ![r] = q]
               /\ \/ q = [run[r] EXCEPT !.alive = TRUE]
                  \/ run[r].phase \in {"commit", "push"}
                     /\ q = [run[r] EXCEPT !.alive = TRUE, !.saves = FALSE, !.phase = "commit"]
                  \/ run[r].phase \in {"steps", "audit"}
                     /\ q = [run[r] EXCEPT !.status = "FAILED", !.phase = "over",
                               !.cp = IF InWorktree(r) THEN "RECOVERY_REQUIRED" ELSE "FAILED"]
  <2>1. CASE run' = [run EXCEPT ![r].alive = TRUE]
    BY <1>2, <2>1
  <2>2. CASE run[r].phase \in {"commit", "push"}
             /\ run' = [run EXCEPT ![r].alive = TRUE, ![r].saves = FALSE, ![r].phase = "commit"]
    BY <1>2, <2>2
  <2>3. CASE run[r].phase \in {"steps", "audit"}
             /\ run' = [run EXCEPT ![r].status = "FAILED", ![r].phase = "over",
                          ![r].cp = IF InWorktree(r) THEN "RECOVERY_REQUIRED" ELSE "FAILED"]
    BY <1>2, <2>3
  <2> QED BY <2>1, <2>2, <2>3 DEF Recover
<1>4. /\ q \in RunType /\ q.status # "none"
      /\ q.mem = run[r].mem /\ q.saved = run[r].saved /\ q.known = run[r].known /\ q.tree = run[r].tree
      /\ q.parent = run[r].parent /\ q.rounds = run[r].rounds /\ q.sure = run[r].sure /\ q.asked = FALSE
      /\ q.verified = run[r].verified /\ q.cp # "DELIVERY_PENDING"
      /\ \/ q.phase = run[r].phase
         \/ run[r].phase \in {"commit", "push"} /\ q.phase = "commit"
         \/ run[r].phase \in {"steps", "audit"} /\ q.phase = "over"
  <2>1. CASE q = [run[r] EXCEPT !.alive = TRUE]
    BY <1>1, <1>2, <2>1 DEF RunType
  <2>2. CASE run[r].phase \in {"commit", "push"}
             /\ q = [run[r] EXCEPT !.alive = TRUE, !.saves = FALSE, !.phase = "commit"]
    BY <1>1, <1>2, <2>2 DEF RunType, Phases
  <2>3. CASE run[r].phase \in {"steps", "audit"}
             /\ q = [run[r] EXCEPT !.status = "FAILED", !.phase = "over",
                       !.cp = IF InWorktree(r) THEN "RECOVERY_REQUIRED" ELSE "FAILED"]
    BY <1>1, <1>2, <2>3 DEF RunType, Phases, Statuses, Checkpoints
  <2> QED BY <1>3, <2>1, <2>2, <2>3
<1>5. run' \in [Runs -> RunType] /\ run'[r] = q /\ \A s \in Runs \ {r} : run'[s] = run[s]
  BY <1>2, <1>3, <1>4
<1>6. Sound(r)'
  BY <1>1, <1>2, <1>4, <1>5 DEF Sound
<1>7. "DELIVERED" \in {q.known.status, q.mem.status} => tree[run[r].tree].pr
  BY <1>2, <1>4 DEF Linked
<1>8. prMode' = prMode /\ crashed' = crashed /\ tree' = tree
  BY <1>1
<1> QED BY <1>1, <1>2, <1>4, <1>5, <1>6, <1>7, <1>8, QuietStep

LEMMA WriteInv == ASSUME IInv, NEW r \in Runs, Write(r) PROVE IInv'
<1>1. run[r].cp = "RUNNING" /\ run[r].phase \in {"steps", "audit"} /\ UNCHANGED <<prMode, run, crashed>>
      /\ run[r].tree # NoRun
  BY DEF Write, AtWork, InWorktree
<1>2. /\ r \in Launched /\ Sound(r) /\ Linked(r) /\ run[r].tree \in Runs /\ run[r].status # "none"
      /\ run \in [Runs -> RunType]
  BY <1>1, GoingIs
<1>3. PICK t : t = run[r].tree
  OBVIOUS
<1>4. PICK w : w = [tree[t] EXCEPT !.work = @ \cup {r}]
  OBVIOUS
<1>5. tree \in [Runs -> TreeType] /\ t \in Runs /\ tree[t] \in TreeType
  BY <1>2, <1>3 DEF IInv
<1>6. tree' = [tree EXCEPT ![t] = w]
  BY <1>3, <1>4, <1>5 DEF Write
<1>7. w \in TreeType /\ w.work = tree[t].work \cup {r} /\ w.by = tree[t].by /\ w.pr = tree[t].pr
  BY <1>4, <1>5 DEF TreeType
<1>8. tree' \in [Runs -> TreeType] /\ tree'[t] = w /\ \A u \in Runs \ {t} : tree'[u] = tree[u]
  BY <1>5, <1>6, <1>7
<1>9. \A u \in Runs : /\ tree'[u].by = tree[u].by /\ tree'[u].pr = tree[u].pr
                      /\ tree'[u].work \subseteq tree[u].work \cup {r}
  BY <1>7, <1>8
<1>10. ASSUME NEW u \in Runs PROVE Committed(u)'
  <2>1. Committed(u)
    BY DEF IInv
  <2>2. tree[u].by # r
    BY <1>1, <2>1, NoRun \notin Runs DEF Committed, NoRun, Runs
  <2>3. run' = run /\ Launched' = Launched
    BY <1>1 DEF Launched
  <2> QED BY <1>9, <2>1, <2>2, <2>3 DEF Committed
<1>11. Sound(r)'
  BY <1>1, <1>2 DEF Sound
<1>12. "DELIVERED" \in {run[r].known.status, run[r].mem.status} => tree'[run[r].tree].pr
  BY <1>2, <1>9 DEF Linked
<1>13. run' = run /\ prMode' = prMode /\ crashed' = crashed
  BY <1>1
<1> QED BY <1>2, <1>8, <1>9, <1>10, <1>11, <1>12, <1>13, RunStep

LEMMA CrashInv == IInv /\ Crash => IInv'
<1> SUFFICES ASSUME IInv, Crash PROVE IInv'
  OBVIOUS
<1>1. prMode' = prMode /\ crashed' = TRUE /\ tree' = tree
      /\ run' = [r \in Runs |-> [run[r] EXCEPT !.alive = FALSE]] /\ run \in [Runs -> RunType]
  BY DEF Crash, IInv
<1>2. ASSUME NEW r \in Runs
      PROVE /\ run'[r] \in RunType /\ run'[r] = [run[r] EXCEPT !.alive = FALSE]
            /\ run'[r].status = run[r].status /\ run'[r].cp = run[r].cp /\ run'[r].parent = run[r].parent
            /\ run'[r].tree = run[r].tree /\ run'[r].rounds = run[r].rounds
            /\ run'[r].saved = run[r].saved /\ run'[r].known = run[r].known /\ run'[r].mem = run[r].mem
            /\ run'[r].phase = run[r].phase /\ run'[r].verified = run[r].verified
            /\ run'[r].sure = run[r].sure /\ run'[r].asked = run[r].asked
  BY <1>1 DEF RunType
<1>3. run' \in [Runs -> RunType]
  BY <1>1, <1>2
<1>4. Launched' = Launched
  BY <1>2 DEF Launched
<1>5. ASSUME NEW r \in Launched PROVE Sound(r)' /\ Linked(r)'
  <2>1. r \in Runs /\ Sound(r) /\ Linked(r)
    BY DEF IInv, Launched
  <2>2. run[r].parent # NoRun => run[r].parent \in Runs
    BY <2>1 DEF Linked, Launched
  <2>3. Sound(r)'
    BY <1>2, <2>1 DEF Sound
  <2>4. Linked(r)'
    <3>1. run'[r].tree # NoRun => run'[r].tree \in Launched'
      BY <1>2, <1>4, <2>1 DEF Linked
    <3>2. "DELIVERED" \in {run'[r].known.status, run'[r].mem.status} => tree'[run'[r].tree].pr
      BY <1>1, <1>2, <2>1 DEF Linked
    <3>3. run'[r].parent # NoRun => run'[r].parent \in Launched'
      BY <1>2, <1>4, <2>1 DEF Linked
    <3>4. run'[r].parent # NoRun => Settled(run'[run'[r].parent].rounds) \subseteq Given(run'[r].rounds)
      <4>1. run'[r].parent = run[r].parent /\ run'[r].rounds = run[r].rounds
        BY <1>2, <2>1
      <4>2. run[r].parent # NoRun => run'[run[r].parent].rounds = run[run[r].parent].rounds
        BY <1>2, <2>2
      <4> QED BY <2>1, <4>1, <4>2 DEF Linked
    <3> QED BY <3>1, <3>2, <3>3, <3>4 DEF Linked
  <2> QED BY <2>3, <2>4
<1>6. ASSUME NEW t \in Runs PROVE Committed(t)'
  <2>1. Committed(t) /\ (tree[t].by # NoRun => tree[t].by \in Runs)
    BY DEF IInv, Committed, Launched
  <2> QED BY <1>1, <1>2, <1>4, <2>1 DEF Committed
<1>7. ASSUME NEW r \in Runs, run'[r].status = "none" PROVE run'[r] = Absent
  <2>1. run[r] = Absent
    BY <1>2, <1>7 DEF IInv
  <2> QED BY <1>2, <2>1 DEF Absent
<1> QED BY <1>1, <1>3, <1>4, <1>5, <1>6, <1>7 DEF IInv

LEMMA NextInv == IInv /\ [Next]_vars => IInv'
<1> SUFFICES ASSUME IInv, [Next]_vars PROVE IInv'
  OBVIOUS
<1>1. CASE Start
  BY <1>1, StartInv
<1>2. CASE Crash
  BY <1>2, CrashInv
<1>3. CASE UNCHANGED vars
  BY <1>3 DEF vars, IInv, Launched, Sound, Linked, Committed
<1>4. ASSUME NEW r \in Runs, Goes(r) \/ Write(r) \/ Answer(r) \/ Continue(r) \/ ResumeLast(r) \/ Retry(r)
      PROVE IInv'
  <2>1. CASE Goes(r)
    BY <2>1, AsksInv, StopsInv, ShipsInv, AuditedInv, CommitInv, DeliverInv, RecoverInv DEF Goes
  <2>2. CASE Write(r) \/ Retry(r)
    BY <2>2, WriteInv, RetryInv
  <2>3. CASE Answer(r) \/ Continue(r) \/ ResumeLast(r)
    BY <2>3, AnswerInv, ContinueInv, ResumeLastInv
  <2> QED BY <1>4, <2>1, <2>2, <2>3
<1> QED BY <1>1, <1>2, <1>3, <1>4 DEF Next

-----------------------------------------------------------------------------
(* Where a resumed run starts. *)

LEMMA PlaceIs ==
  /\ Steps = {"clarifier", "planner", "scaffold", "test", "review", "cicd"}
  /\ Place("clarifier") = 1 /\ Place("planner") = 2 /\ Place("scaffold") = 3
  /\ Place("test") = 4 /\ Place("review") = 5 /\ Place("cicd") = 6
<1>1. DOMAIN StepOrder = 1..6
  BY DEF StepOrder
<1>2. /\ StepOrder[1] = "clarifier" /\ StepOrder[2] = "planner" /\ StepOrder[3] = "scaffold"
      /\ StepOrder[4] = "test" /\ StepOrder[5] = "review" /\ StepOrder[6] = "cicd"
  BY DEF StepOrder
<1>3. DOMAIN StepOrder = {1, 2, 3, 4, 5, 6}
  BY <1>1
<1>4. Steps = {"clarifier", "planner", "scaffold", "test", "review", "cicd"}
  BY <1>2, <1>3 DEF Steps
<1>5. ASSUME NEW i \in DOMAIN StepOrder PROVE Place(StepOrder[i]) = i
  <2>1. \A j \in DOMAIN StepOrder : StepOrder[j] = StepOrder[i] => j = i
    BY <1>2, <1>3
  <2> QED BY <2>1 DEF Place
<1> QED BY <1>2, <1>3, <1>4, <1>5

LEMMA PlaceType == \A s \in Steps : Place(s) \in 1..6
BY PlaceIs

\* Among steps there is always one that comes first.
LEMMA FirstStep ==
  ASSUME NEW later \in SUBSET Steps, later # {}
  PROVE \E s \in later : \A o \in later : Place(s) <= Place(o)
<1>1. CASE "clarifier" \in later
  BY <1>1, PlaceIs
<1>2. CASE "clarifier" \notin later /\ "planner" \in later
  BY <1>2, PlaceIs
<1>3. CASE {"clarifier", "planner"} \cap later = {} /\ "scaffold" \in later
  BY <1>3, PlaceIs
<1>4. CASE {"clarifier", "planner", "scaffold"} \cap later = {} /\ "test" \in later
  BY <1>4, PlaceIs
<1>5. CASE {"clarifier", "planner", "scaffold", "test"} \cap later = {} /\ "review" \in later
  BY <1>5, PlaceIs
<1>6. CASE {"clarifier", "planner", "scaffold", "test", "review"} \cap later = {}
  <2>1. \A o \in later : o = "cicd"
    BY <1>6, PlaceIs
  <2>2. Place("cicd") <= Place("cicd")
    BY PlaceIs
  <2> QED BY <2>1, <2>2
<1> QED BY <1>1, <1>2, <1>3, <1>4, <1>5, <1>6

\* resolveResumeTarget, for every last step and every set of enabled steps: the run that
\* is resumed starts at an enabled step, the earliest that is owed.
LEMMA ResumeIsOwed == ResumesOwed
<1> SUFFICES ASSUME NEW last \in LastSteps, NEW enabled \in SUBSET Steps, last.step \in enabled,
                    NEW target, target = ResumeTarget(last, enabled)
             PROVE /\ target # Nowhere => target.start \in enabled
                   /\ ~last.done => target.start = last.step
                   /\ last.done /\ target # Nowhere => target.feedback = Rework(last)
                   /\ last.done /\ ~Rework(last) =>
                        \A s \in Later(last, enabled) :
                            target # Nowhere /\ Place(last.step) < Place(target.start)
                            /\ Place(target.start) <= Place(s)
  BY DEF ResumesOwed
<1> DEFINE owner == IF last.route = "none" THEN "planner" ELSE last.route
<1>0. PICK later : later = Later(last, enabled)
  OBVIOUS
<1>1. later \subseteq enabled /\ later \subseteq Steps /\ \A s \in later : Place(s) > Place(last.step)
  BY <1>0 DEF Later
<1>2. last.done \in BOOLEAN /\ Rework(last) \in BOOLEAN
  BY DEF LastSteps, Rework
<1>3. CASE ~last.done
  <2>1. target = [start |-> last.step, feedback |-> FALSE]
    BY <1>3 DEF ResumeTarget
  <2>2. target.start = last.step
    BY <2>1
  <2> QED BY <1>3, <2>2
<1>4. CASE last.done /\ Rework(last)
  <2>1. target = IF owner \in enabled THEN [start |-> owner, feedback |-> TRUE] ELSE Nowhere
    BY <1>4 DEF ResumeTarget
  <2> HIDE DEF owner
  <2>2. target # Nowhere => target.start \in enabled /\ target.feedback = TRUE
    BY <2>1
  <2> QED BY <1>2, <1>4, <2>2
<1>5. CASE last.done /\ ~Rework(last) /\ later = {}
  <2>1. target = Nowhere
    BY <1>0, <1>5 DEF ResumeTarget
  <2> QED BY <1>0, <1>5, <2>1
<1>6. CASE last.done /\ ~Rework(last) /\ later # {}
  <2>0. PICK first : first = CHOOSE s \in later : \A o \in later : Place(s) <= Place(o)
    OBVIOUS
  <2>1. target = [start |-> first, feedback |-> FALSE]
    BY <1>0, <1>6, <2>0 DEF ResumeTarget
  <2>2. first \in later /\ \A o \in later : Place(first) <= Place(o)
    <3>1. \E s \in later : \A o \in later : Place(s) <= Place(o)
      BY <1>1, <1>6, FirstStep
    <3> QED BY <2>0, <3>1
  <2>3. first # "none"
    BY <1>1, <2>2, PlaceIs
  <2>4. target # Nowhere /\ target.start = first /\ target.feedback = FALSE
    BY <2>1, <2>3 DEF Nowhere
  <2>5. Place(last.step) < Place(first)
    BY <1>1, <2>2, PlaceType
  <2> QED BY <1>0, <1>1, <1>2, <1>6, <2>2, <2>4, <2>5
<1> QED BY <1>2, <1>3, <1>4, <1>5, <1>6

-----------------------------------------------------------------------------
(* The theorems. *)

\* What each run is given, its worktree, its delivery and its predecessor, through every
\* request, crash and recovery (workflows/spec-session.ts, server/routes.ts): the invariant
\* that carries the others.
THEOREM SessionInvariance == Spec => []IInv
<1>1. Init => IInv
  BY InitInv
<1>2. IInv /\ [Next]_vars => IInv'
  BY NextInv
<1> QED BY <1>1, <1>2, PTL DEF Spec

\* No request of the user is lost on the way to a later run, a delivery said to be made has
\* its pull request, nobody writes behind a commit of their own, the first run of a worktree
\* is pending only when it was verified, and a run resumes where work is owed.
THEOREM SessionSound == Spec => []SessionInvariant
<1>1. IInv => SessionInvariant
  <2> SUFFICES ASSUME IInv PROVE SessionInvariant
    OBVIOUS
  <2>1. TypeOK
    BY DEF IInv, TypeOK, RunType, TreeType, Statuses, Checkpoints, Phases
  <2>2. \A r \in Launched : Sound(r) /\ Linked(r)
    BY DEF IInv
  <2>3. HistoryKept
    BY <2>2 DEF HistoryKept, Sound, Linked
  <2>4. DeliveredHasPr
    BY <2>2 DEF DeliveredHasPr, Linked
  <2>5. CommitterDelivers
    <3> SUFFICES ASSUME NEW t \in Runs PROVE tree[t].by \notin tree[t].work
      BY DEF CommitterDelivers
    <3>1. tree[t] \in TreeType /\ Committed(t)
      BY DEF IInv
    <3>2. NoRun \notin tree[t].work
      BY <3>1 DEF TreeType, Runs, NoRun
    <3> QED BY <3>1, <3>2 DEF Committed
  <2>6. OwnPendingVerified
    BY <2>2 DEF OwnPendingVerified, Sound
  <2> QED BY <2>1, <2>3, <2>4, <2>5, <2>6, ResumeIsOwed DEF SessionInvariant
<1> QED BY <1>1, SessionInvariance, PTL

\* The commit of a worktree is made once: no run that shares the worktree, no retry and no
\* recovery replaces or amends it (the delivery of workflows/spec.ts finds it again).
THEOREM CommitMadeOnce == Spec => CommitStays
<1>1. IInv /\ [Next]_vars => [\A t \in Runs : tree[t].commit # {} => tree'[t].commit = tree[t].commit]_vars
  <2> SUFFICES ASSUME IInv, Next, NEW t \in Runs, tree[t].commit # {}
               PROVE tree'[t].commit = tree[t].commit
    OBVIOUS
  <2>1. CASE tree' = tree
    BY <2>1
  <2>2. CASE tree' # tree
    <3>1. PICK r \in Runs : Write(r) \/ Commit(r) \/ Deliver(r)
      BY <2>2 DEF Next, Start, Crash, Goes, Answer, Continue, ResumeLast, Retry, Asks, Stops, Ships, Audited,
                  Recover
    <3>2. PICK u : u = run[r].tree
      OBVIOUS
    <3>3. tree \in [Runs -> TreeType] /\ tree[t] \in TreeType
      BY DEF IInv
    <3>4. CASE Write(r)
      <4>1. tree' = [tree EXCEPT ![u] = [tree[u] EXCEPT !.work = @ \cup {r}]]
        BY <3>2, <3>4 DEF Write
      <4>2. tree'[t] = tree[t] \/ tree'[t] = [tree[t] EXCEPT !.work = @ \cup {r}]
        BY <3>3, <4>1
      <4> QED BY <3>3, <4>2 DEF TreeType
    <3>5. CASE Commit(r)
      <4>1. tree[u].commit = {}
            /\ tree' = [tree EXCEPT ![u].commit = tree[u].work, ![u].work = {}, ![u].by = r]
        BY <2>2, <3>2, <3>5 DEF Commit
      <4>2. u # t
        BY <4>1
      <4> QED BY <3>3, <4>1, <4>2
    <3>6. CASE Deliver(r)
      <4>1. tree' = [tree EXCEPT ![u] = [tree[u] EXCEPT !.pr = TRUE]]
        BY <2>2, <3>2, <3>6 DEF Deliver
      <4>2. tree'[t] = tree[t] \/ tree'[t] = [tree[t] EXCEPT !.pr = TRUE]
        BY <3>3, <4>1
      <4> QED BY <3>3, <4>2 DEF TreeType
    <3> QED BY <3>1, <3>4, <3>5, <3>6
  <2> QED BY <2>1, <2>2
<1> QED BY <1>1, SessionInvariance, PTL DEF Spec, CommitStays
=============================================================================
