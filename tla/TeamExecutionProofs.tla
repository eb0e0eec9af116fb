------------------------- MODULE TeamExecutionProofs -------------------------
(***************************************************************************)
(* Proofs about TeamExecution, for any plan, any number of tasks and any   *)
(* depth: an accepted plan can always be scheduled, its limit is kept, and *)
(* what reaches the checkout is an initial part of the commits of a team   *)
(* all of whose tasks are DONE.                                            *)
(***************************************************************************)
EXTENDS TeamExecution, FiniteSetTheorems, SequenceTheorems, WellFoundedInduction, TLAPS

-----------------------------------------------------------------------------
(* The inductive invariant. *)

Accepted == phase \notin {"called", "rejected"} => ParseTeamPlan(Plan)

\* Outside a batch, and unless one was left by an exception, no task is under way.
Unattended == {"batch", "throwing", "thrown"}
Resting == phase \notin Unattended => \A t \in Ids(Plan) : stage[t] \in {"idle", "over"}

\* Before the loop nothing was begun.
Fresh == phase = "called" => /\ batch = {} /\ disk = {} /\ conflict = "none"
                             /\ \A t \in Ids(Plan) : stage[t] = "idle"

\* The tasks under way are of one batch.
Bounded ==
    /\ \A t \in Ids(Plan) : stage[t] \notin {"idle", "over"} => t \in batch
    /\ phase \in Unattended => Cardinality(batch) <= Plan.limit

\* The tasks that wait were never begun; with no failure every other one is DONE.
Waiting ==
    phase \in {"scheduling", "batch"} =>
        /\ ReviewsTerminal /\ pending \subseteq Runnable
        /\ \A t \in pending \ batch : stage[t] = "idle"
        /\ phase = "scheduling" => batch = {}
        /\ conflict = "none" => \A t \in Runnable \ pending : results[t] = "DONE"

\* Every commit is of another task, which is over.
Gathered ==
    /\ \A k \in 1..Len(commits) : \E t \in Ids(Plan) :
            commits[k] = <<t, "agent">> /\ OwnTree(t) /\ stage[t] = "over"
    /\ \A k, l \in 1..Len(commits) : commits[k] = commits[l] => k = l

Integrating ==
    phase \in {"picking", "resolving"} \/ picks > 0 \/ pick # <<>> =>
        /\ phase \in {"picking", "resolving", "cleaning", "returned"}
        /\ \A t \in Runnable : results[t] = "DONE"

\* The checkout has the changes that tasks made in it and then the commits picked so far.
InCheckout ==
    /\ picks <= Len(commits) /\ picks <= Len(base)
    /\ \A i \in 1..(Len(base) - picks) : ~OwnTree(base[i][1])
    /\ \A j \in 1..picks : base[Len(base) - picks + j] = commits[j]
    /\ pick # <<>> => picks < Len(commits) /\ pick = commits[picks + 1]
    /\ phase = "picking" => pick = <<>>

IInv ==
    /\ TypeOK /\ Accepted /\ Fresh /\ Resting /\ Bounded /\ Waiting
    /\ Gathered /\ Integrating /\ InCheckout /\ (Returned => disk = {})

-----------------------------------------------------------------------------
(* Plans, and the batches of one. *)

LEMMA PlanFields ==
  ASSUME TypeOK
  PROVE /\ Plan \in PlanTexts /\ Plan.limit \in Int /\ Plan.ids \in Seq(Nat)
        /\ Ids(Plan) \subseteq Nat /\ IsFiniteSet(Ids(Plan))
<1>1. Plan \in PlanTexts
  BY DEF TypeOK, Plan
<1>2. Plan.limit \in Int /\ Plan.ids \in Seq(Nat)
  BY <1>1, PlansAssumption
<1> DEFINE n == Len(Plan.ids)
           f == [i \in 1..n |-> Plan.ids[i]]
<1>3. n \in Nat /\ \A i \in 1..n : Plan.ids[i] \in Nat
  BY <1>2, LenProperties, ElementOfSeq
<1>4. Ids(Plan) \subseteq Nat
  BY <1>3 DEF Ids
<1>5. f \in Surjection(1..n, Ids(Plan))
  BY DEF Ids, Surjection
<1>6. IsFiniteSet(Ids(Plan))
  BY <1>3, <1>5, FS_NatSurjection DEF ExistsSurjection
<1> QED BY <1>1, <1>2, <1>4, <1>6

\* A set of numbers has a least one.
LEMMA LeastNat ==
  ASSUME NEW T, T \subseteq Nat, T # {}
  PROVE \E x \in T : \A y \in T : x <= y
<1>1. PICK x \in T : \A y \in T : ~(<<y, x>> \in OpToRel(<, Nat))
  BY NatLessThanWellFounded, WFMin, Zenon
<1>2. \A y \in T : ~(y < x)
  BY <1>1, Zenon DEF OpToRel
<1> QED BY <1>2

\* The tasks of the sets in which each one waits for another.
Knotted(deps, S) == UNION {R \in SUBSET S : \A t \in R : deps[t] \cap R # {}}

\* f leaves of each set of tasks what it leaves of it after one round of Kahn's loop.
Rounds(deps, f, N) ==
    \A S \in SUBSET N :
        f[S] = LET ready == {t \in S : deps[t] \cap S = {}} IN IF ready = {} THEN S ELSE f[S \ ready]

LEMMA KnottedRound ==
  ASSUME NEW deps, NEW S
  PROVE LET ready == {t \in S : deps[t] \cap S = {}}
        IN  Knotted(deps, S) = IF ready = {} THEN S ELSE Knotted(deps, S \ ready)
<1> DEFINE ready == {t \in S : deps[t] \cap S = {}}
<1>1. CASE ready = {}
  <2>1. S \in {R \in SUBSET S : \A t \in R : deps[t] \cap R # {}}
    BY <1>1
  <2>2. S \subseteq Knotted(deps, S) /\ Knotted(deps, S) \subseteq S
    BY <2>1 DEF Knotted
  <2> QED BY <1>1, <2>2
<1>2. CASE ready # {}
  <2>1. ASSUME NEW R \in SUBSET S, \A t \in R : deps[t] \cap R # {} PROVE R \in SUBSET (S \ ready)
    BY <2>1
  <2>2. {R \in SUBSET S : \A t \in R : deps[t] \cap R # {}} =
        {R \in SUBSET (S \ ready) : \A t \in R : deps[t] \cap R # {}}
    BY <2>1
  <2>3. Knotted(deps, S) = Knotted(deps, S \ ready)
    BY <2>2 DEF Knotted
  <2> QED BY <1>2, <2>3
<1> QED BY <1>1, <1>2

\* Two functions that leave what a round of theirs leaves are the same on finite sets.
LEMMA SameRounds ==
  ASSUME NEW N, IsFiniteSet(N), NEW deps, NEW f, Rounds(deps, f, N), NEW g, Rounds(deps, g, N)
  PROVE f[N] = g[N]
<1> DEFINE Bad == {S \in SUBSET N : f[S] # g[S]}
           sizes == {Cardinality(S) : S \in Bad}
<1>1. SUFFICES ASSUME Bad # {} PROVE FALSE
  OBVIOUS
<1>2. \A S \in SUBSET N : IsFiniteSet(S) /\ Cardinality(S) \in Nat
  BY FS_Subset, FS_CardinalityType
<1>3. PICK n \in sizes : \A m \in sizes : n <= m
  <2>1. sizes \subseteq Nat /\ sizes # {}
    BY <1>1, <1>2
  <2> HIDE DEF sizes
  <2> QED BY <2>1, LeastNat
<1>4. PICK S \in Bad : \A R \in Bad : Cardinality(S) <= Cardinality(R)
  BY <1>3
<1> DEFINE ready == {t \in S : deps[t] \cap S = {}}
<1>5. CASE ready = {}
  BY <1>4, <1>5 DEF Rounds
<1>6. CASE ready # {}
  <2>1. S \ ready \in SUBSET S /\ S \ ready # S /\ S \in SUBSET N
    BY <1>6
  <2>2. Cardinality(S \ ready) <= Cardinality(S) /\ Cardinality(S \ ready) # Cardinality(S)
    <3> HIDE DEF ready
    <3> QED BY <1>2, <2>1, FS_Subset
  <2>3. S \ ready \in SUBSET N /\ Cardinality(S) \in Nat /\ Cardinality(S \ ready) \in Nat
    <3> HIDE DEF ready
    <3> QED BY <1>2, <2>1
  <2>4. ~(Cardinality(S) <= Cardinality(S \ ready))
    BY <2>2, <2>3
  <2>5. f[S \ ready] = g[S \ ready]
    BY <1>4, <2>3, <2>4
  <2>6. f[S] = f[S \ ready] /\ g[S] = g[S \ ready]
    BY <1>6, <2>1 DEF Rounds
  <2> QED BY <1>4, <2>5, <2>6
<1> QED BY <1>5, <1>6

\* What Kahn's loop (parseTeamPlan) cannot take, in a plan of any size: the tasks that wait for
\* each other, and those that wait for them.
THEOREM KahnLeaves ==
  ASSUME NEW p, IsFiniteSet(Ids(p))
  PROVE Unscheduled(p) = Knotted(p.deps, Ids(p))
<1> DEFINE N == Ids(p)
           deps == p.deps
           Loop(f) == f = [S \in SUBSET N |-> LET ready == {t \in S : deps[t] \cap S = {}}
                                              IN  IF ready = {} THEN S ELSE f[S \ ready]]
           left == CHOOSE f : Loop(f)
           closed == [S \in SUBSET N |-> Knotted(deps, S)]
<1>1. Loop(closed)
  <2>1. ASSUME NEW S \in SUBSET N
        PROVE  Knotted(deps, S) = LET ready == {t \in S : deps[t] \cap S = {}}
                                  IN  IF ready = {} THEN S ELSE closed[S \ ready]
    <3> DEFINE ready == {t \in S : deps[t] \cap S = {}}
    <3>1. closed[S \ ready] = Knotted(deps, S \ ready)
      OBVIOUS
    <3>2. Knotted(deps, S) = IF ready = {} THEN S ELSE Knotted(deps, S \ ready)
      BY KnottedRound
    <3> QED BY <3>1, <3>2
  <2> QED BY <2>1
<1>2. Loop(left)
  BY <1>1
<1>3. ASSUME NEW f, Loop(f) PROVE Rounds(deps, f, N)
  <2> DEFINE after(S) == LET ready == {t \in S : deps[t] \cap S = {}} IN IF ready = {} THEN S ELSE f[S \ ready]
  <2>1. f = [S \in SUBSET N |-> after(S)]
    BY ONLY <1>3, Zenon
  <2>2. \A S \in SUBSET N : f[S] = after(S)
    <3> HIDE DEF after
    <3> QED BY <2>1
  <2> QED BY <2>2, Zenon DEF Rounds
<1>4. left[N] = closed[N]
  <2> HIDE DEF left, closed, Loop, N, deps
  <2>1. Rounds(deps, left, N) /\ Rounds(deps, closed, N)
    BY <1>1, <1>2, <1>3
  <2>2. IsFiniteSet(N)
    BY DEF N
  <2> QED BY <2>1, <2>2, SameRounds
<1>5. Unscheduled(p) = left[N]
  BY DEF Unscheduled
<1>6. closed[N] = Knotted(deps, N)
  OBVIOUS
<1> QED BY <1>4, <1>5, <1>6

LEMMA ParsedPlan ==
  ASSUME TypeOK, ParseTeamPlan(Plan)
  PROVE /\ Plan.limit \in 1..16
        /\ \A t \in Ids(Plan) : Plan.deps[t] \subseteq Ids(Plan) \ {t}
        /\ \A S \in SUBSET Ids(Plan) : S # {} => \E t \in S : Plan.deps[t] \cap S = {}
<1>1. ASSUME NEW S \in SUBSET Ids(Plan), S # {}, \A t \in S : Plan.deps[t] \cap S # {} PROVE FALSE
  <2>1. S \in {R \in SUBSET Ids(Plan) : \A t \in R : Plan.deps[t] \cap R # {}}
    BY <1>1
  <2>2. S \subseteq Knotted(Plan.deps, Ids(Plan))
    BY <2>1 DEF Knotted
  <2>3. Unscheduled(Plan) = Knotted(Plan.deps, Ids(Plan))
    BY PlanFields, KahnLeaves
  <2> QED BY <1>1, <2>2, <2>3 DEF ParseTeamPlan
<1> QED BY <1>1 DEF ParseTeamPlan

\* The ready tasks before task t in the plan.
Before(t) == {u \in Ready : u < t}

\* A batch is no larger than the plan allows: its tasks have different numbers of ready tasks before them.
LEMMA BatchLimit ==
  ASSUME TypeOK, ParseTeamPlan(Plan)
  PROVE Batch \subseteq Ready /\ IsFiniteSet(Batch) /\ Cardinality(Batch) <= Plan.limit
<1>1. Batch \subseteq Ready /\ Ready \subseteq Ids(Plan)
  BY DEF Batch, Ready, TypeOK
<1>2. IsFiniteSet(Ready) /\ IsFiniteSet(Batch) /\ Ready \subseteq Nat
  BY <1>1, PlanFields, FS_Subset
<1>3. Plan.limit \in Nat /\ Plan.limit >= 1
  BY ParsedPlan
<1>4. \A t \in Ready : IsFiniteSet(Before(t)) /\ Cardinality(Before(t)) \in Nat
  <2>1. \A t \in Ready : Before(t) \subseteq Ready
    BY DEF Before
  <2> QED BY <1>2, <2>1, FS_Subset, FS_CardinalityType
<1>5. \A t \in Batch : Cardinality(Before(t)) < Plan.limit
  BY DEF Batch, Before
<1>6. ASSUME NEW t \in Batch, NEW u \in Batch, t < u
      PROVE Cardinality(Before(t)) < Cardinality(Before(u))
  <2>1. t \in Ready /\ u \in Ready /\ t \in Nat /\ u \in Nat
    BY <1>1, <1>2
  <2>2. ASSUME NEW v \in Before(t) PROVE v \in Before(u)
    <3>1. v \in Ready /\ v \in Nat /\ v < t
      BY <1>2 DEF Before
    <3>2. v < u
      BY <1>6, <2>1, <3>1
    <3> QED BY <3>1, <3>2 DEF Before
  <2>3. t \in Before(u) /\ t \notin Before(t)
    BY <1>6, <2>1 DEF Before
  <2>4. Before(t) \cup {t} \subseteq Before(u)
    BY <2>2, <2>3
  <2>5. Cardinality(Before(t) \cup {t}) = Cardinality(Before(t)) + 1
    BY <1>4, <2>1, <2>3, FS_AddElement
  <2>6. Cardinality(Before(t) \cup {t}) <= Cardinality(Before(u))
    BY <1>4, <2>1, <2>4, FS_Subset
  <2>7. Cardinality(Before(t)) \in Nat /\ Cardinality(Before(u)) \in Nat
    BY <1>4, <2>1
  <2> QED BY <2>5, <2>6, <2>7
<1> DEFINE c == [t \in Batch |-> Cardinality(Before(t))]
           I == 0..(Plan.limit - 1)
<1>7. c \in Injection(Batch, I)
  <2>1. \A t \in Batch : c[t] = Cardinality(Before(t)) /\ c[t] \in Nat /\ t \in Nat
    BY <1>1, <1>2, <1>4
  <2>2. c \in [Batch -> I]
    BY <1>1, <1>3, <1>4, <1>5
  <2>3. \A t, u \in Batch : t < u => c[t] < c[u]
    BY <1>6
  <2> HIDE DEF c
  <2>4. ASSUME NEW t \in Batch, NEW u \in Batch, c[t] = c[u] PROVE t = u
    <3>1. ~(t < u) /\ ~(u < t)
      BY <2>1, <2>3, <2>4
    <3> QED BY <2>1, <3>1
  <2> QED BY <2>2, <2>4 DEF Injection, IsInjective
<1>8. IsFiniteSet(I) /\ Cardinality(I) = Plan.limit
  <2>1. 0 \in Int /\ Plan.limit - 1 \in Int /\ ~(0 > Plan.limit - 1)
    BY <1>3
  <2>2. IsFiniteSet(I) /\ Cardinality(I) = (Plan.limit - 1) - 0 + 1
    BY <2>1, FS_Interval
  <2> QED BY <1>3, <2>2
<1> HIDE DEF c, I
<1>9. Cardinality(Batch) <= Plan.limit
  BY <1>7, <1>8, FS_Injection DEF ExistsInjection
<1> QED BY <1>1, <1>2, <1>9

\* A pass of the loop always finds a task: among those that wait, one waits for none of them.
LEMMA ReadyFound == IInv => Schedulable
<1> SUFFICES ASSUME IInv, phase = "scheduling", conflict = "none", pending # {} PROVE Ready # {}
  BY DEF Schedulable
<1>1. TypeOK /\ ParseTeamPlan(Plan) /\ ReviewsTerminal /\ pending \subseteq Runnable
  BY DEF IInv, Accepted, Waiting
<1>2. \A t \in Runnable \ pending : results[t] = "DONE"
  BY DEF IInv, Waiting
<1>3. pending \subseteq Ids(Plan)
  BY DEF IInv, TypeOK
<1>4. PICK t \in pending : Plan.deps[t] \cap pending = {}
  BY <1>1, <1>3, ParsedPlan
<1>5. ASSUME NEW d \in Plan.deps[t] PROVE results[d] = "DONE"
  <2>1. d \in Ids(Plan) /\ d \notin Deferred
    BY <1>1, <1>3, <1>4, ParsedPlan DEF ReviewsTerminal
  <2> QED BY <1>2, <1>4, <2>1 DEF Runnable
<1> QED BY <1>4, <1>5 DEF Ready

-----------------------------------------------------------------------------
(* The steps that keep the invariant. *)

\* What executeTeam was called with never changes, and neither does what is computed from it.
LEMMA SamePlan ==
  ASSUME call' = call
  PROVE /\ Plan' = Plan /\ Ids(Plan)' = Ids(Plan) /\ Runnable' = Runnable
        /\ ParseTeamPlan(Plan)' = ParseTeamPlan(Plan)
        /\ ReviewsTerminal' = ReviewsTerminal
        /\ Changes' = Changes /\ \A t : OwnTree(t)' = OwnTree(t)
<1>1. Plan' = Plan
  BY DEF Plan
<1>2. Ids(Plan)' = Ids(Plan)
  BY <1>1 DEF Ids
<1>3. Runnable' = Runnable
  BY <1>1, <1>2 DEF Runnable, Deferred
<1>4. ParseTeamPlan(Plan)' = ParseTeamPlan(Plan)
  BY <1>1
<1>5. ReviewsTerminal' = ReviewsTerminal
  BY <1>1, <1>2 DEF ReviewsTerminal, Deferred
<1>6. \A t : OwnTree(t)' = OwnTree(t)
  BY <1>1 DEF OwnTree
<1>7. Changes' = Changes
  BY <1>2 DEF Changes
<1> QED BY <1>1, <1>2, <1>3, <1>4, <1>5, <1>6, <1>7

LEMMA InitInv == Init => IInv
<1> SUFFICES ASSUME Init PROVE IInv
  OBVIOUS
<1>1. TypeOK
  BY DEF Init, TypeOK, Statuses, Plan, Changes
<1>2. Accepted /\ Fresh /\ Resting /\ Bounded /\ Waiting /\ (Returned => disk = {})
  BY DEF Init, Accepted, Fresh, Resting, Unattended, Bounded, Waiting, Returned
<1>3. Gathered /\ Integrating /\ InCheckout
  BY DEF Init, Gathered, Integrating, InCheckout
<1> QED BY <1>1, <1>2, <1>3 DEF IInv

LEMMA RejectInv == IInv /\ Reject => IInv'
<1> SUFFICES ASSUME IInv, Reject PROVE IInv'
  OBVIOUS
<1> USE SamePlan DEF Reject, git, loop
<1>1. TypeOK'
  BY DEF IInv, TypeOK
<1>2. Accepted' /\ Fresh' /\ Resting' /\ Bounded' /\ Waiting' /\ (Returned => disk = {})'
  BY DEF IInv, Accepted, Fresh, Resting, Unattended, Bounded, Waiting, Returned
<1>3. Gathered' /\ Integrating' /\ InCheckout'
  BY DEF IInv, Gathered, Integrating, InCheckout
<1> QED BY <1>1, <1>2, <1>3 DEF IInv

LEMMA RefuseInv == IInv /\ Refuse => IInv'
<1> SUFFICES ASSUME IInv, Refuse PROVE IInv'
  OBVIOUS
<1> USE SamePlan DEF Refuse, git, loop
<1>1. TypeOK'
  BY DEF IInv, TypeOK
<1>2. Accepted' /\ Fresh' /\ Resting' /\ Bounded' /\ Waiting' /\ (Returned => disk = {})'
  BY DEF IInv, Accepted, Fresh, Resting, Unattended, Bounded, Waiting, Returned
<1>3. Gathered' /\ Integrating' /\ InCheckout'
  BY DEF IInv, Gathered, Integrating, InCheckout
<1> QED BY <1>1, <1>2, <1>3 DEF IInv

LEMMA BeginInv == IInv /\ Begin => IInv'
<1> SUFFICES ASSUME IInv, Begin PROVE IInv'
  OBVIOUS
<1> USE SamePlan DEF Begin, git, loop
<1>1. TypeOK'
  BY DEF IInv, TypeOK, Runnable
<1>2. Accepted' /\ Fresh' /\ Resting' /\ Bounded' /\ (Returned => disk = {})'
  BY DEF IInv, Accepted, Fresh, Resting, Unattended, Bounded, Returned
<1>3. Waiting'
  BY DEF IInv, Fresh, Waiting, Runnable
<1>4. Gathered' /\ Integrating' /\ InCheckout'
  BY DEF IInv, Gathered, Integrating, InCheckout
<1> QED BY <1>1, <1>2, <1>3, <1>4 DEF IInv

LEMMA ScheduleInv == IInv /\ Schedule => IInv'
<1> SUFFICES ASSUME IInv, Schedule PROVE IInv'
  OBVIOUS
<1>a. /\ call' = call /\ phase = "scheduling" /\ conflict = "none" /\ pending # {}
      /\ phase' = (IF Ready # {} THEN "batch" ELSE phase) /\ batch' = Batch
      /\ stage' = [t \in DOMAIN stage |-> IF t \in Batch THEN "tree" ELSE stage[t]]
      /\ conflict' = (IF Ready = {} /\ Blocked = {} THEN "inconsistent" ELSE conflict)
  BY DEF Schedule
<1>b. /\ done' = done /\ trees' = trees /\ disk' = disk /\ work' = work
      /\ base' = base /\ picks' = picks /\ pick' = pick /\ commits' = commits
  BY DEF Schedule, git
<1>c. \/ /\ Ready = {} /\ UNCHANGED conflict
         /\ \E t \in Blocked : results' = [results EXCEPT ![t] = "BLOCKED"] /\ pending' = pending \ {t}
      \/ results' = results /\ pending' = pending
  BY DEF Schedule
<1>0. /\ call' = call /\ phase = "scheduling" /\ conflict = "none" /\ pending # {}
      /\ phase' = (IF Ready # {} THEN "batch" ELSE phase) /\ batch' = Batch
      /\ pending' \subseteq pending
  BY <1>a, <1>c
<1>1. Batch \subseteq Ready /\ Ready \subseteq pending /\ Cardinality(Batch) <= Plan.limit
  BY <1>0, BatchLimit DEF IInv, Accepted, Ready
<1>2. Blocked \subseteq pending
  BY DEF Blocked
<1>3. /\ pending \subseteq Ids(Plan) /\ pending \subseteq Runnable /\ ReviewsTerminal
      /\ \A t \in pending : stage[t] = "idle"
      /\ \A t \in Runnable \ pending : results[t] = "DONE"
      /\ batch = {}
  BY <1>0 DEF IInv, TypeOK, Waiting
<1>d. Blocked = {}
  <2>1. ASSUME NEW t \in pending, NEW d \in Plan.deps[t], d \notin pending PROVE results[d] = "DONE"
    <3>1. TypeOK /\ ParseTeamPlan(Plan)
      BY <1>0 DEF IInv, Accepted
    <3>2. d \in Ids(Plan) /\ d \notin Deferred
      BY <1>3, <3>1, ParsedPlan DEF ReviewsTerminal
    <3> QED BY <1>3, <2>1, <3>2 DEF Runnable
  <2> QED BY <2>1 DEF Blocked
<1>4. TypeOK'
  <2>1. results' \in [Ids(Plan) -> Statuses]
    BY <1>c DEF IInv, TypeOK, Statuses
  <2>2. stage' \in [Ids(Plan) -> {"idle", "tree", "agent", "team", "commit", "over"}]
    BY <1>a DEF IInv, TypeOK
  <2> QED BY SamePlan, <1>a, <1>b, <1>0, <1>1, <1>3, <2>1, <2>2 DEF IInv, TypeOK
<1>5. Accepted' /\ Fresh' /\ (Returned => disk = {})'
  BY SamePlan, <1>a, <1>b, <1>0 DEF IInv, Accepted, Fresh, Returned
<1>6. DOMAIN stage = Ids(Plan) /\ \A t \in Ids(Plan) : stage'[t] = IF t \in Batch THEN "tree" ELSE stage[t]
  BY <1>a DEF IInv, TypeOK
<1>7. \A t \in Ids(Plan) : stage[t] \in {"idle", "over"}
  BY <1>0 DEF IInv, Resting, Unattended
<1>8. Resting'
  BY SamePlan, <1>0, <1>1, <1>6, <1>7 DEF Resting, Unattended
<1>9. Bounded'
  BY SamePlan, <1>0, <1>1, <1>6, <1>7 DEF Bounded, Unattended
<1>10. Waiting'
  <2>1. ReviewsTerminal' /\ pending' \subseteq Runnable'
    BY SamePlan, <1>0, <1>3
  <2>2. \A t \in pending' \ batch' : stage'[t] = "idle"
    BY <1>0, <1>3, <1>6
  <2>3. phase' = "scheduling" => batch' = {}
    BY <1>0, <1>1
  <2>4. conflict' = "none" => \A t \in Runnable' \ pending' : results'[t] = "DONE"
    BY SamePlan, <1>0, <1>c, <1>d, <1>3
  <2> QED BY <2>1, <2>2, <2>3, <2>4 DEF Waiting
<1>11. Gathered' 
  <2>1. \A t \in Ids(Plan) : stage[t] = "over" => stage'[t] = "over"
    BY <1>1, <1>3, <1>6
  <2>2. commits' = commits
    BY <1>b
  <2>3. Gathered
    BY DEF IInv
  <2> QED BY SamePlan, <1>0, <2>1, <2>2, <2>3 DEF Gathered
<1>12. Integrating' /\ InCheckout'
  BY SamePlan, <1>a, <1>b DEF IInv, Integrating, InCheckout
<1> QED BY <1>4, <1>5, <1>8, <1>9, <1>10, <1>11, <1>12 DEF IInv

LEMMA BatchEndsInv == IInv /\ BatchEnds => IInv'
<1> SUFFICES ASSUME IInv, BatchEnds PROVE IInv'
  OBVIOUS
<1> USE DEF BatchEnds, git
<1>0. /\ call' = call /\ phase = "batch" /\ phase' = "scheduling" /\ batch' = {}
      /\ \A t \in batch : stage[t] = "over"
      /\ stage' = stage /\ pending' = pending \ batch
      /\ conflict' = (IF \E t \in batch : done[t] # "DONE" THEN "task" ELSE conflict)
  OBVIOUS
<1>1. TypeOK'
  BY SamePlan, <1>0 DEF IInv, TypeOK
<1>2. Accepted' /\ Fresh' /\ (Returned => disk = {})'
  BY SamePlan, <1>0 DEF IInv, Accepted, Fresh, Returned
<1>3. \A t \in Ids(Plan) : stage[t] \in {"idle", "over"}
  <2>1. \A t \in Ids(Plan) : stage[t] \in {"idle", "over"} \/ t \in batch
    BY DEF IInv, Bounded
  <2> QED BY <1>0, <2>1
<1>4. Resting' /\ Bounded'
  BY SamePlan, <1>0, <1>3 DEF Resting, Bounded, Unattended
<1>5. DOMAIN results = Ids(Plan) /\ \A t \in Ids(Plan) : results'[t] = IF t \in batch THEN done[t] ELSE results[t]
  BY DEF IInv, TypeOK
<1>6. Waiting /\ batch \subseteq Ids(Plan)
  BY DEF IInv, TypeOK
<1>7. Waiting'
  <2>1. ReviewsTerminal' /\ pending' \subseteq Runnable' /\ \A t \in pending' : stage'[t] = "idle"
    BY SamePlan, <1>0, <1>6 DEF Waiting
  <2>2. ASSUME conflict' = "none", NEW t \in Runnable \ pending' PROVE results'[t] = "DONE"
    <3>1. t \in Ids(Plan)
      BY DEF Runnable
    <3>2. conflict = "none" /\ \A u \in batch : done[u] = "DONE"
      BY <1>0, <2>2
    <3>3. CASE t \in batch
      BY <1>5, <3>1, <3>2, <3>3
    <3>4. CASE t \notin batch
      <4>1. results[t] = "DONE"
        BY <1>0, <1>6, <2>2, <3>2, <3>4 DEF Waiting
      <4> QED BY <1>5, <3>1, <3>4, <4>1
    <3> QED BY <3>3, <3>4
  <2> QED BY SamePlan, <1>0, <2>1, <2>2 DEF Waiting
<1>8. Gathered'
  BY SamePlan, <1>0 DEF IInv, Gathered
<1>9. Integrating' /\ InCheckout'
  BY SamePlan, <1>0 DEF IInv, Integrating, InCheckout
<1> QED BY <1>1, <1>2, <1>4, <1>7, <1>8, <1>9 DEF IInv

LEMMA LoopEndsInv == IInv /\ LoopEnds => IInv'
<1> SUFFICES ASSUME IInv, LoopEnds PROVE IInv'
  OBVIOUS
<1> USE SamePlan DEF LoopEnds, git, loop
<1>1. TypeOK'
  BY DEF IInv, TypeOK
<1>2. Accepted' /\ Fresh' /\ Resting' /\ Bounded' /\ Waiting' /\ (Returned => disk = {})'
  BY DEF IInv, Accepted, Fresh, Resting, Unattended, Bounded, Waiting, Returned
<1>3. Gathered' /\ InCheckout'
  BY DEF IInv, Gathered, Integrating, InCheckout
<1>4. Integrating'
  BY DEF IInv, Integrating, Waiting
<1> QED BY <1>1, <1>2, <1>3, <1>4 DEF IInv

LEMMA CleanInv == IInv /\ Clean => IInv'
<1> SUFFICES ASSUME IInv, Clean PROVE IInv'
  OBVIOUS
<1> USE SamePlan DEF Clean, loop
<1>1. TypeOK'
  BY DEF IInv, TypeOK
<1>2. Accepted' /\ Fresh' /\ Resting' /\ Bounded' /\ Waiting'
  BY DEF IInv, Accepted, Fresh, Resting, Unattended, Bounded, Waiting
<1>3. (Returned => disk = {})'
  BY DEF IInv, TypeOK, Returned
<1>4. Gathered' /\ InCheckout'
  BY DEF IInv, Gathered, Integrating, InCheckout
<1>5. Integrating'
  BY DEF IInv, Integrating
<1> QED BY <1>1, <1>2, <1>3, <1>4, <1>5 DEF IInv

-----------------------------------------------------------------------------
(* The steps of one task. *)

\* What the parts of the invariant that a task can disturb rest on: its step changes only
\* its own stage, and puts a change in the checkout only where it has no worktree.
Alone(t) ==
    /\ call' = call /\ picks' = picks /\ pick' = pick
    /\ UNCHANGED <<batch, loop>>
    /\ stage[t] \notin {"idle", "over"}
    /\ \A u \in Ids(Plan) \ {t} : stage'[u] = stage[u]
    /\ phase' = phase \/ (phase = "batch" /\ phase' = "throwing")

LEMMA TaskKeeps ==
  ASSUME IInv, NEW t \in Ids(Plan), Alone(t), TypeOK'
  PROVE Accepted' /\ Fresh' /\ Resting' /\ Bounded' /\ Waiting' /\ Integrating'
<1> USE SamePlan
<1>1. /\ call' = call /\ picks' = picks /\ pick' = pick /\ batch' = batch /\ pending' = pending
      /\ results' = results /\ conflict' = conflict /\ stage[t] \notin {"idle", "over"}
      /\ \A u \in Ids(Plan) \ {t} : stage'[u] = stage[u]
      /\ phase' = phase \/ (phase = "batch" /\ phase' = "throwing")
  BY DEF Alone, loop
<1>2. t \in batch /\ phase \in Unattended
  BY <1>1 DEF IInv, Bounded, Resting
<1>3. Accepted'
  BY <1>1, <1>2 DEF IInv, Accepted, Unattended
<1>4. Fresh' /\ Resting'
  BY <1>1, <1>2 DEF Fresh, Resting, Unattended
<1>5. Bounded'
  <2>1. \A u \in Ids(Plan) : stage'[u] \notin {"idle", "over"} => u \in batch
    BY <1>1, <1>2 DEF IInv, Bounded
  <2>2. Cardinality(batch) <= Plan.limit
    BY <1>2 DEF IInv, Bounded
  <2> QED BY <1>1, <2>1, <2>2 DEF Bounded
<1>6. Waiting'
  <2>1. CASE phase' = phase
    <3>1. \A u \in pending \ batch : stage[u] = "idle" => stage'[u] = "idle"
      BY <1>1, <1>2 DEF IInv, TypeOK
    <3> QED BY <1>1, <1>2, <2>1, <3>1 DEF IInv, Waiting
  <2>2. CASE phase' = "throwing"
    BY <2>2 DEF Waiting
  <2> QED BY <1>1, <2>1, <2>2
<1>7. Integrating'
  <2>1. picks' = picks /\ pick' = pick /\ ~(picks > 0) /\ pick = <<>>
    BY <1>1, <1>2 DEF IInv, Integrating, Unattended
  <2>2. phase' \notin {"picking", "resolving"}
    BY <1>1, <1>2 DEF Unattended
  <2> QED BY <2>1, <2>2 DEF Integrating
<1> QED BY <1>3, <1>4, <1>5, <1>6, <1>7

LEMMA CreateTreeInv == ASSUME IInv, NEW t \in DOMAIN stage, CreateTree(t) PROVE IInv'
<1> USE SamePlan
<1>0. t \in Ids(Plan)
  BY DEF IInv, TypeOK
<1>1. TypeOK'
  BY <1>0 DEF CreateTree, IInv, TypeOK, loop
<1>2. Alone(t)
  BY <1>0 DEF CreateTree, IInv, TypeOK, loop, Alone
<1>3. Gathered'
  BY <1>0 DEF CreateTree, IInv, TypeOK, Gathered
<1>4. InCheckout'
  BY DEF CreateTree, IInv, InCheckout
<1>5. (Returned => disk = {})'
  BY <1>0 DEF CreateTree, IInv, Resting, Unattended, Returned
<1> QED BY <1>0, <1>1, <1>2, <1>3, <1>4, <1>5, TaskKeeps DEF IInv

LEMMA CreateTreeFailsInv == ASSUME IInv, NEW t \in DOMAIN stage, CreateTreeFails(t) PROVE IInv'
<1> USE SamePlan DEF git
<1>0. t \in Ids(Plan)
  BY DEF IInv, TypeOK
<1>1. TypeOK'
  BY <1>0 DEF CreateTreeFails, IInv, TypeOK, loop
<1>2. Alone(t)
  BY <1>0 DEF CreateTreeFails, IInv, TypeOK, loop, Alone
<1>3. Gathered'
  BY <1>0 DEF CreateTreeFails, IInv, TypeOK, Gathered
<1>4. InCheckout'
  BY DEF CreateTreeFails, IInv, InCheckout
<1>5. (Returned => disk = {})'
  BY <1>0 DEF CreateTreeFails, IInv, Resting, Unattended, Returned
<1> QED BY <1>0, <1>1, <1>2, <1>3, <1>4, <1>5, TaskKeeps DEF IInv

\* A change made outside a worktree comes last in the checkout, before any pick.
LEMMA WritesKeeps ==
  ASSUME IInv, NEW t \in Ids(Plan), NEW by \in {"agent", "team"}, Alone(t), commits' = commits,
         Writes(t, by) \/ UNCHANGED <<work, base>>
  PROVE /\ base' \in Seq(Changes) /\ work' \in [Ids(Plan) -> [dirty : BOOLEAN, nested : BOOLEAN]]
        /\ InCheckout'
<1>1. /\ call' = call /\ picks' = picks /\ pick' = pick /\ stage[t] \notin {"idle", "over"}
      /\ phase' = phase \/ (phase = "batch" /\ phase' = "throwing")
  BY DEF Alone, loop
<1>2. phase \in Unattended
  BY <1>1 DEF IInv, Resting
<1>3. picks = 0 /\ pick = <<>>
  BY <1>2 DEF IInv, Integrating, Unattended, TypeOK
<1>4. base \in Seq(Changes) /\ <<t, by>> \in Changes /\ commits \in Seq(Changes)
      /\ work \in [Ids(Plan) -> [dirty : BOOLEAN, nested : BOOLEAN]]
  BY DEF IInv, TypeOK, Changes
<1>5. CASE UNCHANGED <<work, base>>
  BY SamePlan, <1>1, <1>2, <1>4, <1>5 DEF IInv, InCheckout, Unattended
<1>6. CASE Writes(t, by)
  <2>1. work' \in [Ids(Plan) -> [dirty : BOOLEAN, nested : BOOLEAN]]
    BY <1>4, <1>6 DEF Writes
  <2>2. CASE OwnTree(t)
    <3>1. base' = base
      BY <1>6, <2>2 DEF Writes
    <3> QED BY SamePlan, <1>1, <1>2, <1>4, <2>1, <3>1 DEF IInv, InCheckout, Unattended
  <2>3. CASE ~OwnTree(t)
    <3>1. base' = Append(base, <<t, by>>)
      BY <1>6, <2>3 DEF Writes
    <3>2. /\ base' \in Seq(Changes) /\ Len(base) \in Nat /\ Len(base') = Len(base) + 1
          /\ \A i \in 1..Len(base) : base'[i] = base[i]
          /\ base'[Len(base) + 1] = <<t, by>>
      BY <1>4, <3>1
    <3>3. \A i \in 1..Len(base) : ~OwnTree(base[i][1])
      BY <1>3, <3>2 DEF IInv, InCheckout
    <3>4. ASSUME NEW i \in 1..(Len(base) + 1) PROVE ~OwnTree(base'[i][1])
      <4>1. CASE i \in 1..Len(base)
        BY <3>2, <3>3, <4>1
      <4>2. CASE i = Len(base) + 1
        BY <2>3, <3>2, <4>2
      <4> QED BY <3>2, <4>1, <4>2
    <3>5. InCheckout'
      BY SamePlan, <1>1, <1>2, <1>3, <1>4, <3>2, <3>4, LenProperties DEF InCheckout, Unattended
    <3> QED BY <2>1, <3>2, <3>5
  <2> QED BY <2>2, <2>3
<1> QED BY <1>5, <1>6

LEMMA AgentEndsInv == ASSUME IInv, NEW t \in DOMAIN stage, AgentEnds(t) PROVE IInv'
<1> USE SamePlan
<1>0. t \in Ids(Plan) /\ stage \in [Ids(Plan) -> {"idle", "tree", "agent", "team", "commit", "over"}]
      /\ done \in [Ids(Plan) -> Statuses]
  BY DEF IInv, TypeOK
<1>1. /\ stage[t] = "agent" /\ commits' = commits /\ trees' = trees /\ disk' = disk /\ phase' = phase
      /\ call' = call /\ batch' = batch /\ picks' = picks /\ pick' = pick /\ UNCHANGED loop
  BY DEF AgentEnds
<1>2. \E next \in {"team", "commit", "over"}, status \in {"DONE", "BLOCKED", "FAILED"} :
        stage' = [stage EXCEPT ![t] = next] /\ done' = [done EXCEPT ![t] = status]
  BY DEF AgentEnds, Over
<1>3. Alone(t)
  BY <1>0, <1>1, <1>2 DEF Alone
<1>4. Writes(t, "agent") \/ UNCHANGED <<work, base>>
  BY DEF AgentEnds
<1>5. /\ base' \in Seq(Changes) /\ work' \in [Ids(Plan) -> [dirty : BOOLEAN, nested : BOOLEAN]]
      /\ InCheckout'
  BY <1>0, <1>1, <1>3, <1>4, WritesKeeps
<1>6. stage' \in [Ids(Plan) -> {"idle", "tree", "agent", "team", "commit", "over"}]
      /\ done' \in [Ids(Plan) -> Statuses]
  BY <1>0, <1>2 DEF Statuses
<1>7. TypeOK'
  BY <1>1, <1>5, <1>6 DEF IInv, TypeOK, loop
<1>8. Gathered'
  BY <1>0, <1>1, <1>3 DEF IInv, Gathered, Alone
<1>9. (Returned => disk = {})'
  BY <1>1 DEF IInv, Returned
<1> QED BY <1>0, <1>3, <1>5, <1>7, <1>8, <1>9, TaskKeeps DEF IInv

LEMMA NestedTeamEndsInv == ASSUME IInv, NEW t \in DOMAIN stage, NestedTeamEnds(t) PROVE IInv'
<1> USE SamePlan
<1>0. t \in Ids(Plan) /\ stage \in [Ids(Plan) -> {"idle", "tree", "agent", "team", "commit", "over"}]
      /\ done \in [Ids(Plan) -> Statuses]
  BY DEF IInv, TypeOK
<1>1. /\ stage[t] = "team" /\ commits' = commits /\ trees' = trees /\ disk' = disk /\ phase' = phase
      /\ call' = call /\ batch' = batch /\ picks' = picks /\ pick' = pick /\ UNCHANGED loop
  BY DEF NestedTeamEnds
<1>2. \E next \in {"commit", "over"} : stage' = [stage EXCEPT ![t] = next]
  BY DEF NestedTeamEnds, Over
<1>a. done' = done \/ done' = [done EXCEPT ![t] = "FAILED"]
  BY DEF NestedTeamEnds, Over
<1>3. Alone(t)
  BY <1>0, <1>1, <1>2 DEF Alone
<1>4. Writes(t, "team") \/ UNCHANGED <<work, base>>
  BY DEF NestedTeamEnds
<1>5. /\ base' \in Seq(Changes) /\ work' \in [Ids(Plan) -> [dirty : BOOLEAN, nested : BOOLEAN]]
      /\ InCheckout'
  BY <1>0, <1>1, <1>3, <1>4, WritesKeeps
<1>6. stage' \in [Ids(Plan) -> {"idle", "tree", "agent", "team", "commit", "over"}]
      /\ done' \in [Ids(Plan) -> Statuses]
  BY <1>0, <1>2, <1>a DEF Statuses
<1>7. TypeOK'
  BY <1>1, <1>5, <1>6 DEF IInv, TypeOK, loop
<1>8. Gathered'
  BY <1>0, <1>1, <1>3 DEF IInv, Gathered, Alone
<1>9. (Returned => disk = {})'
  BY <1>1 DEF IInv, Returned
<1> QED BY <1>0, <1>3, <1>5, <1>7, <1>8, <1>9, TaskKeeps DEF IInv

\* The commit of a task is a new one: each commit before it is of a task that is over.
LEMMA CommitTreeInv == ASSUME IInv, NEW t \in DOMAIN stage, CommitTree(t) PROVE IInv'
<1> USE SamePlan
<1>0. t \in Ids(Plan) /\ stage \in [Ids(Plan) -> {"idle", "tree", "agent", "team", "commit", "over"}]
      /\ done \in [Ids(Plan) -> Statuses] /\ commits \in Seq(Changes)
      /\ work \in [Ids(Plan) -> [dirty : BOOLEAN, nested : BOOLEAN]]
  BY DEF IInv, TypeOK
<1>1. /\ stage[t] = "commit" /\ trees' = trees /\ disk' = disk /\ phase' = phase /\ base' = base
      /\ call' = call /\ batch' = batch /\ picks' = picks /\ pick' = pick /\ UNCHANGED loop
  BY DEF CommitTree
<1>2. stage' = [stage EXCEPT ![t] = "over"]
      /\ (done' = [done EXCEPT ![t] = done[t]] \/ done' = [done EXCEPT ![t] = "FAILED"])
  BY DEF CommitTree, Over
<1>3. Alone(t)
  BY <1>0, <1>1, <1>2 DEF Alone
<1>4. \/ /\ OwnTree(t) /\ commits' = Append(commits, <<t, "agent">>)
         /\ work' = [work EXCEPT ![t].dirty = FALSE]
      \/ commits' = commits /\ work' = work
  BY DEF CommitTree
<1>5. TypeOK'
  <2>1. stage' \in [Ids(Plan) -> {"idle", "tree", "agent", "team", "commit", "over"}]
        /\ done' \in [Ids(Plan) -> Statuses]
    BY <1>0, <1>2 DEF Statuses
  <2>2. commits' \in Seq(Changes)
    <3>1. <<t, "agent">> \in Changes
      BY <1>0 DEF Changes
    <3>2. Append(commits, <<t, "agent">>) \in Seq(Changes)
      BY <1>0, <3>1
    <3> QED BY <1>0, <1>4, <3>2
  <2>3. work' \in [Ids(Plan) -> [dirty : BOOLEAN, nested : BOOLEAN]]
    BY <1>0, <1>4
  <2> QED BY <1>1, <2>1, <2>2, <2>3 DEF IInv, TypeOK, loop
<1>6. \A u \in Ids(Plan) : stage[u] = "over" => stage'[u] = "over"
  BY <1>0, <1>2
<1>7. CASE commits' = commits
  <2>1. Gathered'
    BY <1>1, <1>6, <1>7 DEF IInv, Gathered
  <2>2. InCheckout'
    BY <1>1, <1>7 DEF IInv, InCheckout
  <2>3. (Returned => disk = {})'
    BY <1>1 DEF IInv, Returned
  <2> QED BY <1>0, <1>3, <1>5, <2>1, <2>2, <2>3, TaskKeeps DEF IInv
<1>8. CASE OwnTree(t) /\ commits' = Append(commits, <<t, "agent">>)
  <2>1. /\ Len(commits) \in Nat /\ Len(commits') = Len(commits) + 1
        /\ \A k \in 1..Len(commits) : commits'[k] = commits[k]
        /\ commits'[Len(commits) + 1] = <<t, "agent">>
    BY <1>0, <1>8, AppendProperties, LenProperties
  <2>2. \A k \in 1..Len(commits) : commits[k] # <<t, "agent">>
    BY <1>1 DEF IInv, Gathered
  <2>3. Gathered'
    <3>1. ASSUME NEW k \in 1..(Len(commits) + 1)
          PROVE \E u \in Ids(Plan) : commits'[k] = <<u, "agent">> /\ OwnTree(u) /\ stage'[u] = "over"
      <4>1. CASE k \in 1..Len(commits)
        BY <1>6, <2>1, <4>1 DEF IInv, Gathered
      <4>2. CASE k = Len(commits) + 1
        BY <1>0, <1>2, <1>8, <2>1, <4>2
      <4> QED BY <2>1, <4>1, <4>2
    <3>2. ASSUME NEW k \in 1..(Len(commits) + 1), NEW l \in 1..(Len(commits) + 1), commits'[k] = commits'[l]
          PROVE k = l
      <4>1. \A i, j \in 1..Len(commits) : commits[i] = commits[j] => i = j
        BY DEF IInv, Gathered
      <4> QED BY <2>1, <2>2, <3>2, <4>1
    <3> QED BY <1>1, <2>1, <3>1, <3>2 DEF Gathered
  <2>4. InCheckout'
    <3>1. /\ phase = "batch" \/ phase \in Unattended
          /\ picks = 0 /\ pick = <<>>
      BY <1>1 DEF IInv, Integrating, Resting, Unattended, TypeOK
    <3> QED BY <1>1, <2>1, <3>1 DEF IInv, InCheckout, Unattended, TypeOK
  <2>5. (Returned => disk = {})'
    BY <1>1 DEF IInv, Returned
  <2> QED BY <1>0, <1>3, <1>5, <2>3, <2>4, <2>5, TaskKeeps DEF IInv
<1> QED BY <1>4, <1>7, <1>8

-----------------------------------------------------------------------------
(* The steps that bring the commits into the checkout. *)

\* The changes that tasks made in the checkout, and then the first picks of the commits.
Order ==
    /\ picks <= Len(commits) /\ picks <= Len(base)
    /\ \A i \in 1..(Len(base) - picks) : ~OwnTree(base[i][1])
    /\ \A j \in 1..picks : base[Len(base) - picks + j] = commits[j]

\* The next commit comes last.
LEMMA NextPick ==
  ASSUME TypeOK, Order, call' = call, commits' = commits, picks < Len(commits),
         base' = Append(base, commits[picks + 1]), picks' = picks + 1
  PROVE base' \in Seq(Changes) /\ picks' \in Nat /\ Order'
<1> DEFINE n == Len(base)
<1>1. /\ commits \in Seq(Changes) /\ base \in Seq(Changes) /\ picks \in Nat
      /\ Len(commits) \in Nat /\ n \in Nat
  BY LenProperties DEF TypeOK
<1>2. commits[picks + 1] \in Changes
  BY <1>1, ElementOfSeq
<1>3. /\ base' \in Seq(Changes) /\ Len(base') = n + 1
      /\ \A i \in 1..n : base'[i] = base[i]
      /\ base'[n + 1] = commits[picks + 1]
  BY <1>1, <1>2, AppendProperties
<1>4. Len(base') - picks' = n - picks /\ n - picks \in 0..n
  BY <1>1, <1>3 DEF Order
<1>5. \A i \in 1..(n - picks) : ~OwnTree(base'[i][1])
  <2>1. \A i \in 1..(n - picks) : i \in 1..n
    BY <1>1, <1>4
  <2> QED BY <1>3, <2>1 DEF Order
<1>6. ASSUME NEW j \in 1..picks' PROVE base'[n - picks + j] = commits[j]
  <2>1. CASE j = picks + 1
    BY <1>1, <1>3, <2>1
  <2>2. CASE j # picks + 1
    <3>1. j \in 1..picks /\ n - picks + j \in 1..n
      BY <1>1, <1>4, <2>2
    <3>2. base[n - picks + j] = commits[j]
      BY <3>1 DEF Order
    <3> QED BY <1>3, <3>1, <3>2
  <2> QED BY <2>1, <2>2
<1>7. picks' <= Len(commits') /\ picks' <= Len(base')
  BY <1>1, <1>3 DEF Order
<1>8. \A j \in 1..picks' : base'[Len(base') - picks' + j] = commits'[j]
  BY <1>4, <1>6
<1>9. \A i \in 1..(Len(base') - picks') : ~OwnTree(base'[i][1])
  BY <1>4, <1>5
<1>10. Order'
  BY SamePlan, <1>7, <1>8, <1>9 DEF Order
<1> QED BY <1>1, <1>3, <1>10

\* The steps of the integration: only the checkout, the loop's position and the verdict change.
LEMMA IntegrationKeeps ==
  ASSUME IInv, phase \in {"picking", "resolving"}, phase' \in {"picking", "resolving", "cleaning"},
         UNCHANGED <<call, batch, stage, done, pending, results, trees, disk, work, commits>>,
         conflict' \in {"none", "merge", "integrator", conflict},
         \/ base' = base /\ picks' = picks
         \/ picks < Len(commits) /\ base' = Append(base, commits[picks + 1]) /\ picks' = picks + 1,
         pick' = <<>> \/ (pick' = commits[picks' + 1] /\ picks' < Len(commits)),
         phase' = "picking" => pick' = <<>>
  PROVE IInv'
<1>a. call' = call /\ commits' = commits /\ stage' = stage /\ results' = results /\ batch' = batch
  OBVIOUS
<1>1. Order /\ TypeOK
  BY DEF IInv, InCheckout, Order
<1>2. base' \in Seq(Changes) /\ picks' \in Nat /\ Order'
  <2>1. CASE base' = base /\ picks' = picks
    BY SamePlan, <1>a, <1>1, <2>1 DEF Order, TypeOK
  <2>2. CASE picks < Len(commits) /\ base' = Append(base, commits[picks + 1]) /\ picks' = picks + 1
    BY <1>a, <1>1, <2>2, NextPick
  <2> QED BY <2>1, <2>2
<1>3. pick' \in Changes \cup {<<>>}
  <2>1. commits \in Seq(Changes)
    BY <1>1 DEF TypeOK
  <2> QED BY <1>2, <2>1, ElementOfSeq, LenProperties
<1>4. TypeOK'
  BY SamePlan, <1>a, <1>1, <1>2, <1>3 DEF TypeOK
<1>5. Accepted' /\ Fresh' /\ Waiting' /\ (Returned => disk = {})'
  BY SamePlan, <1>a DEF IInv, Accepted, Fresh, Waiting, Returned
<1>6. Resting' /\ Bounded'
  BY SamePlan, <1>a DEF IInv, Resting, Bounded, Unattended
<1>7. Gathered'
  BY SamePlan, <1>a DEF IInv, Gathered
<1>8. Integrating'
  BY SamePlan, <1>a DEF IInv, Integrating
<1>9. InCheckout'
  BY <1>a, <1>2 DEF Order, InCheckout
<1> QED BY <1>4, <1>5, <1>6, <1>7, <1>8, <1>9 DEF IInv

LEMMA PickInv == IInv /\ Pick => IInv'
<1> SUFFICES ASSUME IInv, Pick PROVE IInv'
  OBVIOUS
<1>1. /\ phase = "picking" /\ pick = <<>>
      /\ UNCHANGED <<call, batch, stage, done, pending, results, trees, disk, work, commits>>
  BY DEF Pick, IInv, InCheckout
<1>2. \/ /\ phase' = "cleaning" /\ UNCHANGED <<base, picks, pick, conflict>>
      \/ /\ picks < Len(commits) /\ base' = Append(base, commits[picks + 1]) /\ picks' = picks + 1
         /\ UNCHANGED <<phase, pick, conflict>>
      \/ /\ picks < Len(commits) /\ pick' \in {<<>>, commits[picks + 1]} /\ phase' = "resolving"
         /\ conflict' = "merge" /\ UNCHANGED <<base, picks>>
  BY DEF Pick, Unpicked
<1> QED BY <1>1, <1>2, IntegrationKeeps

LEMMA IntegrateInv == IInv /\ Integrate => IInv'
<1> SUFFICES ASSUME IInv, Integrate PROVE IInv'
  OBVIOUS
<1>1. /\ phase = "resolving" /\ phase' = "cleaning"
      /\ UNCHANGED <<call, batch, stage, done, pending, results, trees, disk, work, commits>>
  BY DEF Integrate
<1>2. pick # <<>> => picks < Len(commits) /\ pick = commits[picks + 1]
  BY DEF IInv, InCheckout
<1>3. \/ pick # <<>> /\ pick' = <<>> /\ base' = Append(base, pick) /\ picks' = picks + 1 /\ conflict' = "none"
      \/ pick' = <<>> /\ conflict' = "none" /\ UNCHANGED <<base, picks>>
      \/ conflict' = "integrator" /\ UNCHANGED <<pick, base, picks>>
      \/ UNCHANGED <<conflict, pick, base, picks>>
  BY DEF Integrate
<1> QED BY <1>1, <1>2, <1>3, IntegrationKeeps

LEMMA StepInv == IInv /\ [Next]_vars => IInv'
<1> SUFFICES ASSUME IInv, [Next]_vars PROVE IInv'
  OBVIOUS
<1>1. ASSUME NEW t \in DOMAIN stage, TaskStep(t) PROVE IInv'
  BY <1>1, CreateTreeInv, CreateTreeFailsInv, AgentEndsInv, NestedTeamEndsInv, CommitTreeInv DEF TaskStep
<1>2. CASE UNCHANGED vars
  <2> USE <1>2, SamePlan DEF vars
  <2>1. TypeOK' /\ Accepted' /\ Fresh' /\ Resting' /\ Bounded'
    BY DEF IInv, TypeOK, Accepted, Fresh, Resting, Bounded
  <2>2. Waiting' /\ Gathered' /\ Integrating' /\ InCheckout' /\ (Returned => disk = {})'
    BY DEF IInv, Waiting, Gathered, Integrating, InCheckout, Returned
  <2> QED BY <2>1, <2>2 DEF IInv
<1> QED
  BY <1>1, <1>2, RejectInv, RefuseInv, BeginInv, ScheduleInv, BatchEndsInv, LoopEndsInv, PickInv,
     IntegrateInv, CleanInv DEF Next

\* Along every run of executeTeam: what waits was never begun, what runs is of the batch
\* under way, and the checkout ends with the first picks of the commits.
THEOREM TeamInvariance == Spec => []IInv
<1> QED BY InitInv, StepInv, PTL DEF Spec

-----------------------------------------------------------------------------
(* What a team promises. *)

\* Outside Unattended no task is under way; inside it, only tasks of the batch.
LEMMA UnderWay ==
  ASSUME IInv
  PROVE /\ Active \subseteq batch
        /\ phase \notin Unattended => Active = {}
<1>1. DOMAIN stage = Ids(Plan)
  BY DEF IInv, TypeOK
<1> QED BY <1>1 DEF IInv, Bounded, Resting, Active

\* At each await of executeTeam an accepted plan can go on, no more tasks run than its
\* limit, and a team that returns left no task running and no worktree behind.
THEOREM TeamSound == Spec => []TeamInvariant
<1>1. ASSUME IInv PROVE TeamInvariant
  <2>1. TypeOK /\ Schedulable
    BY <1>1, ReadyFound DEF IInv
  <2>2. QuietReturn
    BY <1>1, UnderWay DEF IInv, QuietReturn, Unattended
  <2>3. CASE phase \in Unattended
    <3>1. ParseTeamPlan(Plan)
      BY <1>1, <2>3 DEF IInv, Accepted, Unattended
    <3>2. IsFiniteSet(batch) /\ Cardinality(batch) <= Plan.limit
      BY <1>1, <2>1, <2>3, PlanFields, FS_Subset DEF IInv, Bounded, TypeOK
    <3>3. /\ Cardinality(Active) \in Nat /\ Cardinality(Active) <= Cardinality(batch)
          /\ Cardinality(batch) \in Nat
      BY <1>1, <3>2, UnderWay, FS_Subset, FS_CardinalityType
    <3>4. Plan.limit \in Int
      BY <2>1, PlanFields
    <3> QED BY <2>1, <2>2, <3>1, <3>2, <3>3, <3>4 DEF TeamInvariant, WithinLimit
  <2>4. CASE phase \notin Unattended
    <3>1. Cardinality(Active) = 0
      BY <1>1, <2>4, UnderWay, FS_EmptySet
    <3>2. ParseTeamPlan(Plan) => Plan.limit \in 1..16
      BY <2>1, ParsedPlan
    <3> QED BY <2>1, <2>2, <3>1, <3>2 DEF TeamInvariant, WithinLimit
  <2> QED BY <2>3, <2>4
<1> QED BY <1>1, TeamInvariance, PTL

\* Where a commit is in the checkout: as far behind the changes made there as in the commits.
LEMMA WherePlaced ==
  ASSUME IInv, NEW i \in 1..Len(base), NEW k \in 1..Len(commits), base[i] = commits[k]
  PROVE k \in 1..picks /\ i = Len(base) - picks + k
<1>1. /\ Len(base) \in Nat /\ Len(commits) \in Nat /\ picks \in Nat /\ picks <= Len(base)
      /\ picks <= Len(commits)
  BY LenProperties DEF IInv, TypeOK, InCheckout
<1>2. PICK t \in Ids(Plan) : commits[k] = <<t, "agent">> /\ OwnTree(t)
  BY DEF IInv, Gathered
<1>3. i > Len(base) - picks
  <2>1. base[i][1] = t
    BY <1>2
  <2>2. ~(i \in 1..(Len(base) - picks))
    BY <1>2, <2>1 DEF IInv, InCheckout
  <2> QED BY <1>1, <2>2
<1> DEFINE j == i - (Len(base) - picks)
<1>4. j \in 1..picks /\ Len(base) - picks + j = i /\ j \in 1..Len(commits)
  BY <1>1, <1>3
<1>5. base[i] = commits[j]
  BY <1>4 DEF IInv, InCheckout
<1>6. j = k
  BY <1>4, <1>5 DEF IInv, Gathered
<1> QED BY <1>4, <1>6

\* The commits before the picked ones are in the checkout, right before them.
LEMMA PickedBefore ==
  ASSUME IInv, NEW k \in 1..(picks + 1), NEW l \in 1..(k - 1)
  PROVE Placed(commits[l], Len(base) - picks + k - 1)
<1>1. Len(base) \in Nat /\ picks \in Nat /\ picks <= Len(base)
  BY LenProperties DEF IInv, TypeOK, InCheckout
<1>2. l \in 1..picks /\ Len(base) - picks + l \in 1..(Len(base) - picks + k - 1)
  BY <1>1
<1>3. base[Len(base) - picks + l] = commits[l]
  BY <1>2 DEF IInv, InCheckout
<1> QED BY <1>2, <1>3 DEF Placed

\* Nothing of a worktree reaches the checkout before every task is DONE, and what does is
\* an initial part of the commits, each once and in the order in which the tasks finished.
THEOREM IntegrationGated == Spec => []GatedIntegration
<1>1. ASSUME IInv PROVE GatedIntegration
  <2> USE <1>1
  <2>1. /\ Len(base) \in Nat /\ Len(commits) \in Nat /\ picks \in Nat /\ picks <= Len(base)
        /\ picks <= Len(commits)
    BY LenProperties DEF IInv, TypeOK, InCheckout
  <2>2. ASSUME (\E k \in 1..Len(commits) : Placed(commits[k], Len(base))) \/ pick # <<>>
        PROVE (\A t \in Runnable : results[t] = "DONE") /\ Active = {}
    <3>1. picks > 0 \/ pick # <<>>
      BY <2>1, <2>2, WherePlaced DEF Placed
    <3>2. phase \notin Unattended /\ \A t \in Runnable : results[t] = "DONE"
      BY <3>1 DEF IInv, Integrating, Unattended
    <3> QED BY <3>2, UnderWay
  <2>3. ASSUME NEW i \in 1..Len(base), NEW k \in 1..Len(commits), base[i] = commits[k]
        PROVE ~Placed(commits[k], i - 1) /\ \A l \in 1..(k - 1) : Placed(commits[l], i - 1)
    <3>1. k \in 1..picks /\ i = Len(base) - picks + k
      BY <2>3, WherePlaced
    <3>2. ASSUME NEW h \in 1..(i - 1), base[h] = commits[k] PROVE FALSE
      <4>1. h \in 1..Len(base)
        BY <2>1
      <4>2. h = Len(base) - picks + k
        BY <3>2, <4>1, WherePlaced
      <4> QED BY <2>1, <3>1, <4>2
    <3>3. \A l \in 1..(k - 1) : Placed(commits[l], i - 1)
      <4>1. k \in 1..(picks + 1)
        BY <2>1, <3>1
      <4>2. \A l \in 1..(k - 1) : Placed(commits[l], Len(base) - picks + k - 1)
        BY <4>1, PickedBefore
      <4>3. i - 1 = Len(base) - picks + k - 1
        BY <2>1, <3>1
      <4> QED BY <4>2, <4>3
    <3> QED BY <3>2, <3>3 DEF Placed
  <2>4. ASSUME pick # <<>>
        PROVE \E k \in 1..Len(commits) :
                /\ pick = commits[k] /\ ~Placed(pick, Len(base))
                /\ \A l \in 1..(k - 1) : Placed(commits[l], Len(base))
    <3>1. picks + 1 \in 1..Len(commits) /\ pick = commits[picks + 1]
      BY <2>1, <2>4 DEF IInv, InCheckout
    <3>2. ~Placed(pick, Len(base))
      <4>1. ASSUME NEW i \in 1..Len(base), base[i] = commits[picks + 1] PROVE FALSE
        <5>1. picks + 1 \in 1..picks
          BY <3>1, <4>1, WherePlaced
        <5> QED BY <2>1, <5>1
      <4> QED BY <3>1, <4>1 DEF Placed
    <3>3. \A l \in 1..((picks + 1) - 1) : Placed(commits[l], Len(base))
      <4>1. picks + 1 \in 1..(picks + 1)
        BY <2>1
      <4>2. \A l \in 1..((picks + 1) - 1) : Placed(commits[l], Len(base) - picks + (picks + 1) - 1)
        BY <4>1, PickedBefore
      <4>3. Len(base) - picks + (picks + 1) - 1 = Len(base)
        BY <2>1
      <4> QED BY <4>2, <4>3
    <3> QED BY <3>1, <3>2, <3>3
  <2> QED BY <2>2, <2>3, <2>4 DEF GatedIntegration
<1> QED BY <1>1, TeamInvariance, PTL
=============================================================================
