----------------------------- MODULE MergeTrust -----------------------------
(***************************************************************************)
(* When a change may merge itself (lib/auto-merge.ts, auto-merge-policy.ts *)
(* and store/auto-merge.ts): a delivered pull request is assessed by its   *)
(* kind, by the record of evaluations and by the record of earlier pull    *)
(* requests of its kind, which people merged and found stable.  The latter *)
(* is a table of observations that every assessment brings up to date from *)
(* GitHub, where people and bots go on merging and labelling; the former   *)
(* are files of results, in any order of their clocks: those the evaluator *)
(* writes, whose results have no category where the assessment reads it,   *)
(* and those that are put there in the form it reads.                      *)
(*                                                                         *)
(* What is done with an eligible pull request is in PrDelivery.            *)
(***************************************************************************)
EXTENDS Naturals, Sequences, FiniteSets

CONSTANTS
    MaxPrs,    \* bound: pull requests of the repository
    MaxDay,    \* bound: the last day
    MaxEvals,  \* bound: evaluations
    MaxMishaps, \* bound: changes of the policy, refusals, odd merges, labels lost and failures
    FileSets,  \* the files that pull requests change
    EvalMin, CaseMin, \* AUTO_MERGE_EVAL_STREAK_MIN, AUTO_MERGE_EVAL_CASE_MIN
    LiveMin, Days     \* AUTO_MERGE_LIVE_PR_STREAK_MIN, AUTO_MERGE_STABILITY_DAYS

ASSUME TrustAssumption ==
    /\ {MaxPrs, MaxEvals, MaxMishaps} \subseteq Nat
    /\ {MaxDay, EvalMin, CaseMin, LiveMin, Days} \subseteq Nat \ {0} /\ CaseMin <= EvalMin
    /\ FileSets \subseteq SUBSET {"document", "manifest", "other"}

VARIABLES
    policy, \* the fingerprint of models, prompts, checks and rules now
    mishaps, \* things that went wrong (bound)
    day,    \* today
    pulls,     \* the pull requests on GitHub
    known,  \* the last assessment that was recorded of each
    table,  \* the last observation of each
    evals,  \* the evaluations, in the order their files and results are read
    eligible \* the pull request the last assessment found eligible, or None

trustVars == <<policy, mishaps, day, pulls, known, table, evals, eligible>>

Prs == 1..MaxPrs
Policies == 1..2
None == 0
Categories == {"docs", "dependency-patch"}

-----------------------------------------------------------------------------
(* The kind of a change *)

FileKinds == {"document", "manifest", "other"}

Classify(files) ==
    IF files = {} THEN "ineligible"
    ELSE IF files \subseteq {"document"} THEN "docs"
    ELSE IF files \subseteq {"manifest"} THEN "dependency-patch"
    ELSE "ineligible"

-----------------------------------------------------------------------------
(* The record of evaluations *)

\* The members of S in the order R, a set of pairs: SetToSortSeq, in terms that can be proved about.
Ordered(S, R) == [n \in 1..Cardinality(S) |-> CHOOSE x \in S : Cardinality({y \in S : <<y, x>> \in R}) = n - 1]

\* Going through S in the order R, what is good is kept and what is not empties the streak.
Streak(S, R, good) ==
    LET order == Ordered(S, R)
        streak[n \in 0..Cardinality(S)] ==
            IF n = 0 THEN {}
            ELSE IF order[n] \in good THEN streak[n - 1] \cup {order[n]}
            ELSE {}
    IN  streak[Cardinality(S)]

Results(category) == {i \in DOMAIN evals : evals[i].category = category}
Clocked ==
    {p \in (DOMAIN evals) \X (DOMAIN evals) :
        evals[p[1]].at < evals[p[2]].at \/ (evals[p[1]].at = evals[p[2]].at /\ p[1] < p[2])}
Passed == {i \in DOMAIN evals : evals[i].outcome = "pass" /\ evals[i].policy = policy}

\* Fault: a result that was skipped neither counts nor ends a streak.
EvalStreakSkipping(category) ==
    Streak({i \in Results(category) : evals[i].outcome # "skipped"}, Clocked, Passed)

EvalStreak(category) == Streak(Results(category), Clocked, Passed)

EvalTrust(category) ==
    LET streak == EvalStreak(category)
    IN  Cardinality(streak) >= EvalMin /\ Cardinality({evals[i].case : i \in streak}) >= CaseMin

-----------------------------------------------------------------------------
(* The record of pull requests *)

NoPr == [phase |-> "none", files |-> {}, made |-> None, merger |-> "none", since |-> 0, labelled |-> FALSE,
         stable |-> 0, failed |-> FALSE]
Unseen == [outcome |-> "none", category |-> "none", policy |-> None, verified |-> 0]
Unknown == [category |-> "none", policy |-> None]

\* What GitHub shows of a merged pull request: "human" says that a person merged the head
\* that was assessed, with another person's approval of it.
Observed(q) ==
    LET stable == pulls[q].labelled /\ pulls[q].stable # 0 /\ pulls[q].merger = "human"
    IN  [outcome |-> IF pulls[q].merger \in {"bot", "moved"} THEN "unknown"
                     ELSE IF pulls[q].failed THEN "failed"
                     ELSE IF stable THEN "stable" ELSE "unknown",
         category |-> known[q].category, policy |-> known[q].policy,
         verified |-> IF ~pulls[q].failed /\ stable THEN pulls[q].stable ELSE 0]

Candidates(category) == {q \in Prs : known[q].category = category /\ pulls[q].phase = "merged"}

\* Fault: a pull request is looked at until it was found stable.
SynchronizedOnce(seen) ==
    [q \in Prs |-> IF q \in seen /\ table[q].outcome # "stable" THEN Observed(q) ELSE table[q]]

Synchronized(seen) == [q \in Prs |-> IF q \in seen THEN Observed(q) ELSE table[q]]

Counts(row, q) ==
    row.policy = policy /\ row.outcome = "stable" /\ row.verified >= pulls[q].since + Days /\ row.verified <= day

OnTable(rows, category) == {q \in Prs : rows[q].category = category}
MergedBefore ==
    {p \in Prs \X Prs : pulls[p[1]].since < pulls[p[2]].since \/ (pulls[p[1]].since = pulls[p[2]].since /\ p[1] < p[2])}

LiveStreak(rows, category) == Streak(OnTable(rows, category), MergedBefore, {q \in Prs : Counts(rows[q], q)})

LiveTrust(rows, category) == Cardinality(LiveStreak(rows, category)) >= LiveMin

-----------------------------------------------------------------------------
(* Assessments *)

\* The policy of an assessment without a category is never read.
Recorded(p, category) ==
    known' = [known EXCEPT ![p] = [category |-> category,
                                   policy |-> IF category = "ineligible" THEN None ELSE policy]]

Mishap == mishaps < MaxMishaps /\ mishaps' = mishaps + 1

\* The table is brought up to date and read; anything else the gates ask may refuse too.
DryRun(p) ==
    LET category == Classify(pulls[p].files)
        rows == Synchronized(Candidates(category))
        earned == LiveTrust(rows, category) /\ EvalTrust(category)
    IN  /\ pulls[p].phase \in {"open", "merged"} /\ category # "ineligible"
        /\ table' = rows
        /\ \/ /\ earned /\ pulls[p].phase = "open" /\ pulls[p].made = policy
              /\ eligible' = p
           \/ eligible' = None
        /\ Recorded(p, category)
        /\ UNCHANGED <<policy, mishaps, day, pulls, evals>>

\* The change is of no kind, the project does not ask for it, or GitHub does not answer,
\* before the files were read or while the table was brought up to date.
Refuse(p) ==
    /\ pulls[p].phase \in {"open", "merged"}
    /\ \/ /\ Recorded(p, "ineligible")
          /\ UNCHANGED table
       \/ LET category == Classify(pulls[p].files)
          IN  /\ category # "ineligible"
              /\ \E seen \in SUBSET Candidates(category) : table' = Synchronized(seen)
              /\ Recorded(p, category)
    /\ eligible' = None
    /\ Mishap
    /\ UNCHANGED <<policy, day, pulls, evals>>

-----------------------------------------------------------------------------
(* The world *)

\* A run delivers a pull request, made under today's policy, which may change before it is
\* assessed; bound: the evaluations are on record by then.
Open(p) ==
    /\ pulls[p].phase = "none" /\ \A q \in 1..(p - 1) : pulls[q].phase # "none"
    /\ Len(evals) > MaxEvals
    /\ \E files \in FileSets :
        pulls' = [pulls EXCEPT ![p].phase = "open", ![p].files = files, ![p].made = policy]
    /\ UNCHANGED <<policy, mishaps, day, known, table, evals, eligible>>

Merge(p) ==
    /\ pulls[p].phase = "open"
    /\ \E merger \in {"human", "unapproved", "bot", "moved"} :
        /\ pulls' = [pulls EXCEPT ![p].phase = "merged", ![p].merger = merger, ![p].since = day]
        /\ IF merger = "human" THEN UNCHANGED mishaps ELSE Mishap
    /\ UNCHANGED <<policy, day, known, table, evals, eligible>>

\* The stability label, by a person who may judge it or by somebody else; the first that
\* comes late enough is the one that counts.
Label(p) ==
    /\ pulls[p].phase = "merged"
    /\ \E judge \in BOOLEAN :
        pulls' = [pulls EXCEPT ![p].labelled = TRUE,
                         ![p].stable = IF judge /\ @ = 0 /\ day >= pulls[p].since + Days THEN day ELSE @]
    /\ UNCHANGED <<policy, mishaps, day, known, table, evals, eligible>>

Unlabel(p) ==
    /\ pulls[p].labelled
    /\ pulls' = [pulls EXCEPT ![p].labelled = FALSE]
    /\ Mishap
    /\ UNCHANGED <<policy, day, known, table, evals, eligible>>

Fail(p) ==
    /\ pulls[p].phase = "merged" /\ ~pulls[p].failed
    /\ pulls' = [pulls EXCEPT ![p].failed = TRUE]
    /\ Mishap
    /\ UNCHANGED <<policy, day, known, table, evals, eligible>>

Tomorrow ==
    /\ day < MaxDay
    /\ day' = day + 1
    /\ UNCHANGED <<policy, mishaps, pulls, known, table, evals, eligible>>

ChangePolicy ==
    /\ Mishap
    /\ policy' \in Policies \ {policy}
    /\ UNCHANGED <<day, pulls, known, table, evals, eligible>>

\* A result of a case that declares a category, as the assessment will read it.
Result(case, declared, category, outcome, at) ==
    [case |-> case, declared |-> declared, category |-> category, outcome |-> outcome,
     policy |-> IF outcome = "skipped" THEN None ELSE policy, at |-> at]

Filed(seen) ==
    /\ Len(evals) < MaxEvals
    /\ \E case \in 1..2, declared \in Categories, outcome \in {"pass", "fail", "skipped"}, at \in 1..2 :
        evals' = Append(evals, Result(case, declared, seen[declared], outcome, at))
    /\ UNCHANGED <<policy, mishaps, day, pulls, known, table, eligible>>

\* The evaluator names the category autoMergeCategory, and the assessment reads category.
Evaluate == Filed([declared \in Categories |-> "none"])

\* A file in the form the assessment reads.
File == Filed([declared \in Categories |-> declared])

TrustInit ==
    /\ policy = 1 /\ mishaps = 0 /\ day = 1
    /\ pulls = [p \in Prs |-> NoPr]
    /\ known = [p \in Prs |-> Unknown] /\ table = [p \in Prs |-> Unseen]
    /\ eligible = None
    /\ evals \in {<<>>, [i \in 1..(MaxEvals + 1) |->
                        Result(i, "docs", "docs", "pass", 1)]}

TrustNext ==
    \/ Tomorrow \/ ChangePolicy \/ Evaluate \/ File
    \/ \E p \in Prs : DryRun(p) \/ Refuse(p) \/ Open(p) \/ Merge(p) \/ Label(p) \/ Unlabel(p) \/ Fail(p)

TrustSpec == TrustInit /\ [][TrustNext]_trustVars
-----------------------------------------------------------------------------
(* Properties *)

TrustTypeOK ==
    /\ policy \in Policies /\ mishaps \in 0..MaxMishaps /\ day \in 1..MaxDay
    /\ pulls \in [Prs -> [phase : {"none", "open", "merged"}, files : SUBSET FileKinds, made : Policies \cup {None},
                       merger : {"none", "human", "unapproved", "bot", "moved"}, since : 0..MaxDay,
                       labelled : BOOLEAN, stable : 0..MaxDay, failed : BOOLEAN]]
    /\ known \in [Prs -> [category : Categories \cup {"ineligible", "none"}, policy : Policies \cup {None}]]
    /\ table \in [Prs -> [outcome : {"none", "unknown", "failed", "stable"}, category : Categories \cup {"none"},
                          policy : Policies \cup {None}, verified : 0..MaxDay]]
    /\ evals \in Seq([case : 1..(MaxEvals + 1), declared : Categories, category : Categories \cup {"none"},
                      outcome : {"pass", "fail", "skipped"}, policy : Policies \cup {None}, at : 1..2])
    /\ eligible \in 0..MaxPrs

\* Evaluations have earned trust when since the last result of the category that was no
\* pass under today's policy, by their clocks, enough passed, of enough cases.
Since(categories, category) ==
    {i \in DOMAIN evals :
        /\ categories[i] = category
        /\ \A j \in DOMAIN evals : categories[j] = category /\ j \notin Passed => <<j, i>> \in Clocked}

Earned(categories, category) ==
    /\ Cardinality(Since(categories, category)) >= EvalMin
    /\ Cardinality({evals[i].case : i \in Since(categories, category)}) >= CaseMin

EvalsTrusted ==
    \A category \in Categories :
        EvalTrust(category) <=> Earned([i \in DOMAIN evals |-> evals[i].category], category)

\* "A case may set autoMergeCategory to docs or dependency-patch in meta.json to
\* contribute to the matching auto-merge eval streak" (README.md:240).
EvaluationsCount ==
    \A category \in Categories :
        Earned([i \in DOMAIN evals |-> evals[i].declared], category) => EvalTrust(category)

\* What the table says stable was merged by a person as it was assessed, with an approval,
\* and found stable by a person after the days it takes.
StableMeant ==
    \A q \in Prs :
        table[q].outcome = "stable" =>
            /\ pulls[q].merger = "human"
            /\ pulls[q].since + Days <= table[q].verified /\ table[q].verified <= day
            /\ Classify(pulls[q].files) = table[q].category

\* What holds of the records at any time.
TrustInvariant == TrustTypeOK /\ EvalsTrusted /\ StableMeant

\* The last pull requests of a category that are on the table.
Newest(rows, category) ==
    {q \in OnTable(rows, category) :
        Cardinality({r \in OnTable(rows, category) : <<q, r>> \in MergedBefore}) < LiveMin}

\* A pull request is found eligible only while it is open, the evaluations of its kind have earned it,
\* and the last pull requests of its kind on the table, enough of them, were merged by people
\* under today's policy and found stable long enough; those of them whose own last assessment
\* had a kind are labelled stable and not as reverted now, whatever the table said before.
EligibleEarned ==
    [][eligible' # None /\ <<known, table, eligible>>' # <<known, table, eligible>> =>
        LET category == Classify(pulls[eligible'].files)
        IN  /\ pulls[eligible'].phase = "open" /\ pulls[eligible'].made = policy
            /\ Earned([i \in DOMAIN evals |-> evals[i].category], category)
            /\ Cardinality(OnTable(table', category)) >= LiveMin
            /\ \A q \in Newest(table', category) :
                /\ pulls[q].merger = "human" /\ table'[q].policy = policy /\ pulls[q].since + Days <= day
                /\ q \in Candidates(category) => pulls[q].labelled /\ ~pulls[q].failed /\ known[q].policy = policy]_trustVars
=============================================================================
