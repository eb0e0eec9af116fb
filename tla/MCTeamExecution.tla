-------------------------- MODULE MCTeamExecution --------------------------
(* Instances of TeamExecution for TLC: plans of up to three tasks. *)
EXTENDS TeamExecution

\* ids, dependencies, writing tasks, review tasks, maxConcurrency
TeamPlan(ids, deps, writes, reviews, limit) ==
    [ids |-> ids, deps |-> deps, writes |-> writes, reviews |-> reviews, limit |-> limit]

Dependencies == {d \in [1..3 -> SUBSET (1..3)] : d[1] \subseteq {3}}

\* Every dependency graph of three tasks whose first one depends on the last at most,
\* cyclic ones included: a reader that writes nothing, two writers, two at once.
GraphPlans == {TeamPlan(<<1, 2, 3>>, d, {2, 3}, {}, 2) : d \in Dependencies}

NoDeps == [i \in 1..4 |-> {}]
Chain == [i \in 1..4 |-> IF i = 1 THEN {} ELSE {i - 1}]

WidePlans ==
    {TeamPlan(<<1, 2, 3>>, NoDeps, {1, 2, 3}, {}, l) : l \in {1, 4}}

ReviewPlans ==
    {TeamPlan(<<1, 2, 3>>, d, {1, 2}, {r}, 4) : d \in {Chain, NoDeps}, r \in {2, 3}}

BadPlans ==
    { TeamPlan(<<>>, NoDeps, {}, {}, 4),
      TeamPlan(<<1, 2, 3, 4>>, NoDeps, {}, {}, 4),
      TeamPlan(<<1, 2, 1>>, NoDeps, {}, {}, 4),
      TeamPlan(<<1, 2>>, [i \in 1..2 |-> {3}], {}, {}, 4),
      TeamPlan(<<1>>, NoDeps, {}, {}, 0),
      TeamPlan(<<1>>, NoDeps, {}, {}, 17) }

AllTexts == GraphPlans \cup WidePlans \cup ReviewPlans \cup BadPlans
=============================================================================
