--------------------------- MODULE IssueRunsProofs ---------------------------
(***************************************************************************)
(* Proofs about IssueRuns, for any number of runs and of edits by people:  *)
(* what a run writes to the tracker and what its row says at its end.      *)
(***************************************************************************)
EXTENDS IssueRuns, TLAPS

-----------------------------------------------------------------------------
(* The inductive invariant. *)

Issues == [status : Statuses, by : 0..MaxRuns, linked : 0..MaxRuns]
Records == [pc : {"idle", "refused", "author", "trial", "claim", "work", "reopen", "settle", "ended"},
            seen : Statuses, row : {"none", "RUNNING", "DONE", "FAILED", "BLOCKED"},
            repro : BOOLEAN, verdict : Verdicts, broken : BOOLEAN]

\* What a run knows fits the place it has reached: bugs alone are reproduced, and before
\* their issue is touched; a verdict and a row that tells one come at the end.
Fits(k) ==
    /\ k.seen = "OPEN"
    /\ k.pc = "idle" => k.row = "none"
    /\ k.pc \in {"author", "trial"} => bug
    /\ k.pc \in {"idle", "author", "trial"} => ~k.repro
    /\ bug /\ k.pc \in {"claim", "work", "reopen", "settle"} => k.repro
    /\ k.verdict # "none" => k.pc \in {"settle", "ended"}
    /\ k.row \in {"DONE", "BLOCKED"} => k.pc = "ended"

\* What RowTells says of a run, the issue left aside.
Tells(k) ==
    /\ k.row = "BLOCKED" => ~k.repro
    /\ k.row = "DONE" => k.verdict \in {"SHIP", "NEEDS-CLARIFICATION", "none"}
    /\ bug /\ k.pc = "ended" /\ ~k.broken =>
            /\ k.row \in {"DONE", "FAILED", "BLOCKED"}
            /\ k.verdict \in {"SHIP", "NEEDS-CLARIFICATION"} => k.row = "DONE"
    /\ ~bug => k.row = "none"

\* A run that the issue is linked to has seen its bug fail.
Linked == bug /\ issue.linked # NoRun => run[issue.linked].repro

\* IssueInvariant is not inductive: what a run may write next depends on what it has seen
\* on its way, which only Fits and Linked say.
RunsHeld == \A r \in Runs : Fits(run[r]) /\ Tells(run[r])
IssueHeld == Linked /\ ReproducedFirst /\ StatusMeant /\ AloneInProgress
IInv == TypeOK /\ RunsHeld /\ IssueHeld

-----------------------------------------------------------------------------
(* What a step of a run changes. *)

LEMMA Typed ==
  ASSUME TypeOK
  PROVE /\ bug \in BOOLEAN /\ edits \in Nat /\ run \in [Runs -> Records] /\ issue \in Issues
        /\ issue.by # People => issue.by \in Runs
        /\ issue.linked # NoRun => issue.linked \in Runs
  BY IssueAssumption DEF TypeOK, Records, Issues, People, NoRun, Runs

\* The record of one run replaced by another.
Becomes(r, k) == run' = [run EXCEPT ![r] = k]

LEMMA OthersHeld ==
  ASSUME IInv, NEW r \in Runs, NEW k \in Records, Becomes(r, k)
  PROVE /\ run \in [Runs -> Records] /\ run' \in [Runs -> Records] /\ run'[r] = k
        /\ \A s \in Runs \ {r} : run'[s] = run[s]
<1>1. run \in [Runs -> Records]
  BY Typed DEF IInv
<1> QED BY <1>1 DEF Becomes

\* What is new of a run that steps: it keeps what it saw and how its workflow ended.
Keeps(r, k) ==
    /\ run[r].repro => k.repro
    /\ run[r].verdict \in {"none", k.verdict}
    /\ k.pc # "idle"
    /\ Fits(k) /\ Tells(k)

LEMMA StepHeld ==
  ASSUME IInv, NEW r \in Runs, NEW k \in Records, Becomes(r, k), UNCHANGED <<bug, prMode, edits>>, Keeps(r, k),
         issue' \in Issues, IssueHeld'
  PROVE IInv'
<1>1. run' \in [Runs -> Records] /\ run'[r] = k /\ \A s \in Runs \ {r} : run'[s] = run[s]
  BY OthersHeld
<1>2. TypeOK'
  BY <1>1 DEF IInv, TypeOK, Records, Issues
<1>3. RunsHeld'
  BY <1>1 DEF RunsHeld, IInv, Fits, Tells, Keeps
<1> QED BY <1>2, <1>3 DEF IInv

\* A step that leaves the issue as it is, and is not the one that takes it to work.
LEMMA IssueLeft ==
  ASSUME IInv, NEW r \in Runs, NEW k \in Records, Becomes(r, k), UNCHANGED <<bug, prMode, issue, edits>>, Keeps(r, k),
         k.pc \in {"work", "settle"} => run[r].pc \in {"work", "settle"}
  PROVE IInv'
<1>1. run' \in [Runs -> Records] /\ run'[r] = k /\ \A s \in Runs \ {r} : run'[s] = run[s]
  BY OthersHeld
<1>2. issue.by # People => issue.by \in Runs
  BY Typed DEF IInv
<1>3. issue.linked # NoRun => issue.linked \in Runs
  BY Typed DEF IInv
<1>4. Linked' /\ ReproducedFirst'
  BY <1>1, <1>2, <1>3 DEF IInv, IssueHeld, Linked, ReproducedFirst, Keeps
<1>5. StatusMeant'
  BY <1>1, <1>2 DEF IInv, IssueHeld, StatusMeant, Keeps
<1>6. AloneInProgress'
  <2> SUFFICES ASSUME NEW s \in Runs, Asked' = {s}, edits = 0, run'[s].pc \in {"work", "settle"}
               PROVE issue.status = "IN_PROGRESS"
    BY DEF AloneInProgress
  <2>1. r \in Asked'
    BY <1>1 DEF Asked, Keeps
  <2>2. s = r /\ run[r].pc \in {"work", "settle"}
    BY <1>1, <2>1
  <2>3. Asked = {s}
    BY <1>1, <2>2 DEF Asked
  <2> QED BY <2>2, <2>3 DEF IInv, IssueHeld, AloneInProgress
<1>7. issue' \in Issues
  BY Typed DEF IInv
<1> QED BY <1>4, <1>5, <1>6, <1>7, StepHeld DEF IssueHeld

\* A request that reaches the tracker: the run has seen its bug fail, DONE is written after
\* SHIP, and a run at work has the issue say so.
LEMMA IssuePatched ==
  ASSUME IInv, NEW r \in Runs, NEW k \in Records, Becomes(r, k), UNCHANGED <<bug, prMode, edits>>, Keeps(r, k),
         NEW status \in {"OPEN", "IN_PROGRESS", "DONE"}, NEW linked \in BOOLEAN, Patched(status, r, linked),
         bug => k.repro, status = "DONE" => k.verdict = "SHIP",
         k.pc \in {"work", "settle"} => status = "IN_PROGRESS"
  PROVE IInv'
<1>1. run' \in [Runs -> Records] /\ run'[r] = k /\ \A s \in Runs \ {r} : run'[s] = run[s]
  BY OthersHeld
<1>2. issue \in Issues /\ (issue.linked # NoRun => issue.linked \in Runs)
  BY Typed DEF IInv
<1>3. issue'.status = status /\ issue'.by = r /\ issue'.linked \in {r, issue.linked}
  BY DEF Patched
<1>4. r \in 0..MaxRuns /\ r # People
  BY IssueAssumption DEF Runs, People
<1>5. issue' \in Issues
  BY <1>2, <1>4 DEF Patched, Issues, Statuses
<1>6. Linked' /\ ReproducedFirst'
  BY <1>1, <1>2, <1>3, <1>4 DEF IInv, IssueHeld, Linked, ReproducedFirst, Keeps
<1>7. StatusMeant'
  BY <1>1, <1>3 DEF StatusMeant
<1>8. AloneInProgress'
  <2> SUFFICES ASSUME NEW s \in Runs, Asked' = {s}, edits = 0, run'[s].pc \in {"work", "settle"}
               PROVE issue'.status = "IN_PROGRESS"
    BY DEF AloneInProgress
  <2>1. r \in Asked'
    BY <1>1 DEF Asked, Keeps
  <2> QED BY <1>1, <1>3, <2>1
<1> QED BY <1>5, <1>6, <1>7, <1>8, StepHeld DEF IssueHeld

LEMMA RunIs ==
  ASSUME IInv, NEW r \in Runs
  PROVE /\ run[r] \in Records /\ Fits(run[r]) /\ Tells(run[r]) /\ bug \in BOOLEAN
        /\ issue \in Issues /\ run \in [Runs -> Records]
  BY Typed DEF IInv, RunsHeld

-----------------------------------------------------------------------------
(* The actions. *)

\* An end as a record, and a place.
EndOf(r, row, broken) == [run[r] EXCEPT !.pc = "ended", !.row = row, !.broken = @ \/ broken]
MovedTo(r, pc) == [run[r] EXCEPT !.pc = pc]

LEMMA EndedBecomes ==
  ASSUME IInv, NEW r \in Runs, NEW row, NEW broken \in BOOLEAN, Ended(r, row, broken)
  PROVE Becomes(r, EndOf(r, row, broken))
  BY RunIs DEF Ended, Becomes, EndOf, Records

LEMMA MovedBecomes ==
  ASSUME IInv, NEW r \in Runs, NEW pc, run' = [run EXCEPT ![r].pc = pc]
  PROVE Becomes(r, MovedTo(r, pc))
  BY RunIs DEF Becomes, MovedTo, Records

\* A run that ends keeps what it has; its row may only tell what it has seen.
LEMMA EndKeeps ==
  ASSUME IInv, NEW r \in Runs, AtWork(r), NEW row \in {"none", "RUNNING", "DONE", "FAILED", "BLOCKED"},
         NEW broken \in BOOLEAN, row = "BLOCKED" => ~run[r].repro,
         row = "DONE" => run[r].verdict \in {"SHIP", "NEEDS-CLARIFICATION", "none"},
         bug => broken \/ row \in {"DONE", "FAILED", "BLOCKED"},
         bug /\ run[r].verdict \in {"SHIP", "NEEDS-CLARIFICATION"} => broken \/ row = "DONE",
         ~bug => row = "none"
  PROVE EndOf(r, row, broken) \in Records /\ Keeps(r, EndOf(r, row, broken))
<1> DEFINE k == EndOf(r, row, broken)
<1>1. run[r] \in Records /\ Fits(run[r]) /\ Tells(run[r]) /\ bug \in BOOLEAN
  BY RunIs
<1>2. (run[r].broken \/ broken) \in BOOLEAN /\ (~(run[r].broken \/ broken) => ~broken)
  BY <1>1 DEF Records
<1>3. k \in Records
  BY <1>1, <1>2 DEF EndOf, Records
<1>4. /\ k.pc = "ended" /\ k.row = row /\ k.seen = run[r].seen /\ k.repro = run[r].repro /\ k.verdict = run[r].verdict
      /\ ~k.broken => ~broken
  BY <1>1, <1>2 DEF EndOf, Records
<1> HIDE DEF k
<1>5. Keeps(r, k)
  BY <1>1, <1>3, <1>4 DEF Keeps, Fits, Tells
<1> QED BY <1>3, <1>5 DEF k

\* Moving on, with nothing learned but the place.
LEMMA MoveKeeps ==
  ASSUME IInv, NEW r \in Runs, run[r].verdict = "none",
         NEW pc \in {"refused", "author", "trial", "claim", "work", "reopen", "settle"},
         run[r].row \notin {"DONE", "BLOCKED"}, pc \in {"author", "trial"} => bug /\ ~run[r].repro,
         bug /\ pc \in {"claim", "work", "reopen", "settle"} => run[r].repro
  PROVE MovedTo(r, pc) \in Records /\ Keeps(r, MovedTo(r, pc))
<1> DEFINE k == MovedTo(r, pc)
<1>1. run[r] \in Records /\ Fits(run[r]) /\ Tells(run[r]) /\ bug \in BOOLEAN
  BY RunIs
<1>2. k \in Records
  BY <1>1 DEF MovedTo, Records
<1>3. /\ k.pc = pc /\ k.row = run[r].row /\ k.seen = run[r].seen /\ k.repro = run[r].repro /\ k.verdict = run[r].verdict
  BY <1>1 DEF MovedTo, Records
<1> HIDE DEF k
<1>4. Keeps(r, k)
  BY <1>1, <1>2, <1>3 DEF Keeps, Fits, Tells
<1> QED BY <1>2, <1>4 DEF k
LEMMA ReadHeld ==
  ASSUME IInv, NEW r \in Runs, Read(r)
  PROVE IInv'
<1>1. /\ run[r] \in Records /\ run \in [Runs -> Records] /\ bug \in BOOLEAN /\ Fits(run[r]) /\ Tells(run[r])
      /\ run[r].pc = "idle" /\ UNCHANGED <<bug, prMode, issue, edits>>
  BY RunIs DEF Read
<1>2. run[r].verdict = "none" /\ run[r].row = "none" /\ ~run[r].repro
  BY <1>1 DEF Fits
<1>3. CASE issue.status = "OPEN" /\ run' = [run EXCEPT ![r].pc = IF bug THEN "author" ELSE "claim",
                                           ![r].seen = issue.status, ![r].row = Row(r, "RUNNING")]
  <2> DEFINE k == [run[r] EXCEPT !.pc = IF bug THEN "author" ELSE "claim", !.seen = "OPEN", !.row = Row(r, "RUNNING")]
  <2>1. k \in Records
    BY <1>1 DEF Records, Row, Statuses
  <2>2. Becomes(r, k)
    BY <1>1, <1>3 DEF Becomes, Records
  <2>3. /\ k.pc = (IF bug THEN "author" ELSE "claim") /\ k.row = (IF bug THEN "RUNNING" ELSE "none") /\ k.seen = "OPEN"
        /\ k.repro = run[r].repro /\ k.verdict = "none"
    BY <1>1, <1>2 DEF Records, Row
  <2> HIDE DEF k
  <2>4. Keeps(r, k) /\ k.pc \notin {"work", "settle"}
    BY <1>1, <1>2, <2>1, <2>3 DEF Keeps, Fits, Tells
  <2> QED BY <1>1, <2>1, <2>2, <2>4, IssueLeft
<1>4. CASE run' = [run EXCEPT ![r].pc = "refused"]
  <2>1. MovedTo(r, "refused") \in Records /\ Keeps(r, MovedTo(r, "refused"))
    BY <1>1, <1>2, MoveKeeps
  <2>2. MovedTo(r, "refused").pc = "refused"
    BY <1>1 DEF MovedTo, Records
  <2> QED BY <1>1, <1>4, <2>1, <2>2, MovedBecomes, IssueLeft
<1> QED BY <1>3, <1>4 DEF Read

\* A run that stops without a word to the tracker.
LEMMA EndsQuietly ==
  ASSUME IInv, NEW r \in Runs, AtWork(r), NEW row \in {"none", "RUNNING", "FAILED", "BLOCKED"}, NEW broken \in BOOLEAN,
         Ended(r, row, broken), UNCHANGED <<bug, prMode, issue, edits>>,
         row = "BLOCKED" => ~run[r].repro, ~broken => row \in {"FAILED", "BLOCKED"} /\ run[r].verdict = "none",
         ~bug => row = "none"
  PROVE IInv'
<1>1. EndOf(r, row, broken) \in Records /\ Keeps(r, EndOf(r, row, broken))
  BY EndKeeps
<1>2. EndOf(r, row, broken).pc = "ended"
  BY RunIs DEF EndOf, Records
<1> QED BY <1>1, <1>2, EndedBecomes, IssueLeft

\* A run that goes on without a word to the tracker.
LEMMA MovesQuietly ==
  ASSUME IInv, NEW r \in Runs, run[r].verdict = "none", run[r].row \notin {"DONE", "BLOCKED"},
         NEW pc \in {"trial", "claim", "reopen"},
         run' = [run EXCEPT ![r].pc = pc], UNCHANGED <<bug, prMode, issue, edits>>,
         pc = "trial" => bug /\ ~run[r].repro, pc # "trial" /\ bug => run[r].repro
  PROVE IInv'
<1>1. MovedTo(r, pc) \in Records /\ Keeps(r, MovedTo(r, pc))
  BY MoveKeeps
<1>2. MovedTo(r, pc).pc = pc
  BY RunIs DEF MovedTo, Records
<1> QED BY <1>1, <1>2, MovedBecomes, IssueLeft

\* A run that has not ended: its row tells nothing yet.
LEMMA Working ==
  ASSUME IInv, NEW r \in Runs, AtWork(r)
  PROVE /\ run[r].row \in {"none", "RUNNING", "FAILED"} /\ (~bug => run[r].row = "none")
        /\ run[r].pc # "settle" => run[r].verdict = "none"
        /\ run[r].pc \in {"author", "trial"} => bug /\ ~run[r].repro
        /\ bug /\ run[r].pc \in {"claim", "work", "reopen", "settle"} => run[r].repro
        /\ run[r].seen = "OPEN"
  BY RunIs DEF AtWork, Fits, Tells, Records

LEMMA AuthorHeld ==
  ASSUME IInv, NEW r \in Runs, Author(r)
  PROVE IInv'
<1>1. /\ AtWork(r) /\ run[r].pc = "author" /\ UNCHANGED <<bug, prMode, issue, edits>>
      /\ bug /\ ~run[r].repro /\ run[r].verdict = "none" /\ run[r].row \notin {"DONE", "BLOCKED"}
  BY Working DEF Author, AtWork
<1>2. \/ run' = [run EXCEPT ![r].pc = "trial"]
      \/ \E row \in {"BLOCKED", "FAILED"} : Ended(r, row, FALSE)
  BY DEF Author
<1> QED BY <1>1, <1>2, MovesQuietly, EndsQuietly
LEMMA TryHeld ==
  ASSUME IInv, NEW r \in Runs, Try(r)
  PROVE IInv'
<1>1. /\ AtWork(r) /\ run[r].pc = "trial" /\ UNCHANGED <<bug, prMode, issue, edits>>
      /\ bug /\ ~run[r].repro /\ run[r].verdict = "none" /\ run[r].row \notin {"DONE", "BLOCKED"}
      /\ run[r] \in Records /\ run \in [Runs -> Records] /\ Fits(run[r]) /\ Tells(run[r])
  BY Working, RunIs DEF Try, AtWork
<1>2. CASE run' = [run EXCEPT ![r].pc = "claim", ![r].repro = TRUE]
  <2> DEFINE k == [run[r] EXCEPT !.pc = "claim", !.repro = TRUE]
  <2>1. k \in Records /\ Becomes(r, k)
    BY <1>1, <1>2 DEF Records, Becomes
  <2>2. k.pc = "claim" /\ k.repro /\ k.row = run[r].row /\ k.seen = run[r].seen /\ k.verdict = run[r].verdict
    BY <1>1 DEF Records
  <2> HIDE DEF k
  <2>3. Keeps(r, k)
    BY <1>1, <2>1, <2>2 DEF Keeps, Fits, Tells
  <2> QED BY <1>1, <2>1, <2>2, <2>3, IssueLeft
<1>3. CASE \E row \in {"BLOCKED", "FAILED"} : Ended(r, row, FALSE)
  BY <1>1, <1>3, EndsQuietly
<1>4. ASSUME NEW trial \in Trials, Confirmed(trial),
             run' = [run EXCEPT ![r].pc = "claim", ![r].repro = (trial = "fails")]
      PROVE run' = [run EXCEPT ![r].pc = "claim", ![r].repro = TRUE]
  BY <1>4 DEF Confirmed
<1> QED BY <1>2, <1>3, <1>4 DEF Try

LEMMA ClaimHeld ==
  ASSUME IInv, NEW r \in Runs, Claim(r)
  PROVE IInv'
<1>1. /\ AtWork(r) /\ run[r].pc = "claim" /\ UNCHANGED <<bug, prMode, edits>>
      /\ (bug => run[r].repro) /\ run[r].verdict = "none" /\ run[r].row \notin {"DONE", "BLOCKED"}
  BY Working DEF Claim, AtWork
<1>2. PICK pc \in {"work", "reopen"} :
        /\ run' = [run EXCEPT ![r].pc = pc]
        /\ Patched("IN_PROGRESS", r, TRUE) \/ (issue' = issue /\ pc = "reopen")
  BY DEF Claim
<1>3. MovedTo(r, pc) \in Records /\ Keeps(r, MovedTo(r, pc)) /\ Becomes(r, MovedTo(r, pc))
  BY <1>1, <1>2, MoveKeeps, MovedBecomes
<1>4. MovedTo(r, pc).pc = pc /\ MovedTo(r, pc).repro = run[r].repro
  BY RunIs DEF MovedTo, Records
<1>5. CASE Patched("IN_PROGRESS", r, TRUE)
  BY <1>1, <1>3, <1>4, <1>5, IssuePatched
<1>6. CASE issue' = issue /\ pc = "reopen"
  BY <1>1, <1>3, <1>4, <1>6, IssueLeft
<1> QED BY <1>2, <1>5, <1>6

LEMMA WorkHeld ==
  ASSUME IInv, NEW r \in Runs, Work(r)
  PROVE IInv'
<1>1. /\ AtWork(r) /\ run[r].pc = "work" /\ UNCHANGED <<bug, prMode, issue, edits>>
      /\ (bug => run[r].repro) /\ run[r].verdict = "none" /\ run[r].row \notin {"DONE", "BLOCKED"}
      /\ run[r] \in Records /\ run \in [Runs -> Records] /\ Fits(run[r]) /\ Tells(run[r])
  BY Working, RunIs DEF Work, AtWork
<1>2. CASE run' = [run EXCEPT ![r].pc = "reopen"]
  BY <1>1, <1>2, MovesQuietly
<1>3. ASSUME NEW verdict \in Verdicts, run' = [run EXCEPT ![r].pc = "settle", ![r].verdict = verdict]
      PROVE IInv'
  <2> DEFINE k == [run[r] EXCEPT !.pc = "settle", !.verdict = verdict]
  <2>1. k \in Records /\ Becomes(r, k)
    BY <1>1, <1>3 DEF Records, Becomes
  <2>2. k.pc = "settle" /\ k.repro = run[r].repro /\ k.row = run[r].row /\ k.seen = run[r].seen /\ k.verdict = verdict
    BY <1>1 DEF Records
  <2> HIDE DEF k
  <2>3. Keeps(r, k)
    BY <1>1, <2>1, <2>2 DEF Keeps, Fits, Tells
  <2> QED BY <1>1, <2>1, <2>2, <2>3, IssueLeft
<1> QED BY <1>2, <1>3 DEF Work

\* The last request of a run, with its row written or not.
LEMMA EndsAloud ==
  ASSUME IInv, NEW r \in Runs, AtWork(r), run[r].pc \in {"reopen", "settle"}, UNCHANGED <<bug, prMode, edits>>,
         NEW status \in {"OPEN", "DONE"}, NEW linked \in BOOLEAN, status = "DONE" => run[r].verdict = "SHIP",
         NEW row \in {"DONE", "FAILED"}, row = "DONE" => run[r].verdict \in {"SHIP", "NEEDS-CLARIFICATION", "none"},
         run[r].verdict \in {"SHIP", "NEEDS-CLARIFICATION"} => row = "DONE",
         \/ Patched(status, r, linked) /\ Ended(r, Row(r, row), FALSE)
         \/ (Patched(status, r, linked) \/ issue' = issue) /\ Ended(r, run[r].row, TRUE)
  PROVE IInv'
<1>1. /\ run[r].row \in {"none", "RUNNING", "FAILED"} /\ (~bug => run[r].row = "none") /\ (bug => run[r].repro)
      /\ run[r] \in Records
  BY Working, RunIs
<1>2. ASSUME NEW w, NEW broken \in BOOLEAN
      PROVE EndOf(r, w, broken).pc = "ended" /\ EndOf(r, w, broken).repro = run[r].repro
            /\ EndOf(r, w, broken).verdict = run[r].verdict
  BY <1>1 DEF EndOf, Records
<1>3. CASE Patched(status, r, linked) /\ Ended(r, Row(r, row), FALSE)
  <2>1. Row(r, row) \in {"none", "DONE", "FAILED"} /\ (bug => Row(r, row) = row) /\ (~bug => Row(r, row) = "none")
    BY <1>1 DEF Row
  <2>2. EndOf(r, Row(r, row), FALSE) \in Records /\ Keeps(r, EndOf(r, Row(r, row), FALSE))
    BY <2>1, EndKeeps
  <2>3. Becomes(r, EndOf(r, Row(r, row), FALSE))
    BY <1>3, EndedBecomes
  <2> QED BY <1>1, <1>2, <1>3, <2>2, <2>3, IssuePatched
<1>4. CASE (Patched(status, r, linked) \/ issue' = issue) /\ Ended(r, run[r].row, TRUE)
  <2> DEFINE k == EndOf(r, run[r].row, TRUE)
  <2>1. k \in Records /\ Keeps(r, k)
    BY <1>1, EndKeeps
  <2>2. Becomes(r, k)
    BY <1>4, EndedBecomes
  <2>3. k.pc = "ended" /\ k.repro = run[r].repro /\ k.verdict = run[r].verdict
    BY <1>2
  <2> HIDE DEF k
  <2>4. CASE Patched(status, r, linked)
    BY <1>1, <2>1, <2>2, <2>3, <2>4, IssuePatched
  <2>5. CASE issue' = issue
    BY <2>1, <2>2, <2>3, <2>5, IssueLeft
  <2> QED BY <1>4, <2>4, <2>5
<1> QED BY <1>3, <1>4

LEMMA ReopenHeld ==
  ASSUME IInv, NEW r \in Runs, Reopen(r)
  PROVE IInv'
<1>1. AtWork(r) /\ run[r].pc = "reopen" /\ UNCHANGED <<bug, prMode, edits>> /\ run[r].verdict = "none"
  BY Working DEF Reopen, AtWork
<1>2. \/ Patched("OPEN", r, FALSE) /\ Ended(r, Row(r, "FAILED"), FALSE)
      \/ (Patched("OPEN", r, FALSE) \/ issue' = issue) /\ Ended(r, run[r].row, TRUE)
  BY DEF Reopen
<1> QED BY <1>1, <1>2, EndsAloud

LEMMA SettleHeld ==
  ASSUME IInv, NEW r \in Runs, Settle(r)
  PROVE IInv'
<1> DEFINE final == IF run[r].verdict = "SHIP" THEN "DONE" ELSE run[r].seen
           row == WorkflowRunStatus(run[r].verdict)
<1>1. AtWork(r) /\ run[r].pc = "settle" /\ UNCHANGED <<bug, prMode, edits>> /\ run[r].seen = "OPEN" /\ run[r] \in Records
  BY Working, RunIs DEF Settle, AtWork
<1>2. final \in {"OPEN", "DONE"} /\ (final = "DONE" => run[r].verdict = "SHIP")
  BY <1>1
<1>3. /\ row \in {"DONE", "FAILED"} /\ (run[r].verdict \in {"SHIP", "NEEDS-CLARIFICATION"} => row = "DONE")
      /\ row = "DONE" => run[r].verdict \in {"SHIP", "NEEDS-CLARIFICATION", "none"}
  BY <1>1 DEF WorkflowRunStatus, Records, Verdicts
<1>4. \/ Patched(final, r, TRUE) /\ Ended(r, Row(r, row), FALSE)
      \/ (Patched(final, r, TRUE) \/ issue' = issue) /\ Ended(r, run[r].row, TRUE)
  BY DEF Settle
<1> HIDE DEF final, row
<1> QED BY <1>1, <1>2, <1>3, <1>4, EndsAloud

LEMMA DieHeld ==
  ASSUME IInv, NEW r \in Runs, Die(r)
  PROVE IInv'
<1>1. AtWork(r) /\ Ended(r, run[r].row, TRUE) /\ UNCHANGED <<bug, prMode, issue, edits>>
  BY DEF Die
<1>2. run[r].row \in {"none", "RUNNING", "FAILED"} /\ (~bug => run[r].row = "none")
  BY <1>1, Working
<1> QED BY <1>1, <1>2, EndsQuietly
LEMMA RepairHeld ==
  ASSUME IInv, Repair
  PROVE IInv'
<1>1. /\ UNCHANGED <<bug, prMode, issue, edits>> /\ run \in [Runs -> Records]
      /\ run' = [r \in Runs |-> IF run[r].row = "RUNNING" THEN [run[r] EXCEPT !.row = "FAILED"] ELSE run[r]]
  BY Typed DEF IInv, Repair
<1>2. ASSUME NEW r \in Runs
      PROVE /\ run'[r] \in Records /\ run'[r].pc = run[r].pc /\ run'[r].repro = run[r].repro
            /\ run'[r].verdict = run[r].verdict /\ Fits(run'[r]) /\ Tells(run'[r])
  BY <1>1, RunIs DEF Records, Fits, Tells
<1>3. run' \in [Runs -> Records] /\ issue' \in Issues
  BY <1>1, <1>2, Typed DEF IInv
<1>4. TypeOK'
  BY <1>1, <1>3 DEF IInv, TypeOK, Records, Issues
<1>5. RunsHeld'
  BY <1>1, <1>2 DEF RunsHeld, Fits, Tells
<1>6. /\ issue.by # People => issue.by \in Runs
      /\ issue.linked # NoRun => issue.linked \in Runs
  BY Typed DEF IInv
<1>7. Linked' /\ ReproducedFirst' /\ StatusMeant'
  BY <1>1, <1>2, <1>6 DEF IInv, IssueHeld, Linked, ReproducedFirst, StatusMeant
<1>8. Asked' = Asked
  BY <1>2 DEF Asked
<1>9. AloneInProgress'
  BY <1>1, <1>2, <1>8 DEF IInv, IssueHeld, AloneInProgress
<1> QED BY <1>4, <1>5, <1>7, <1>9 DEF IInv, IssueHeld

LEMMA EditHeld ==
  ASSUME IInv, Edit
  PROVE IInv'
<1>1. /\ UNCHANGED <<bug, prMode, run>> /\ edits' = edits + 1 /\ edits' \in 0..MaxEdits /\ edits \in Nat
  BY IssueAssumption DEF IInv, TypeOK, Edit
<1>2. PICK status \in Statuses : issue' = [issue EXCEPT !.status = status, !.by = People]
  BY DEF Edit
<1>3. issue \in Issues /\ People \in 0..MaxRuns
  BY Typed, IssueAssumption DEF IInv, People
<1>4. issue' \in Issues /\ issue'.by = People /\ issue'.linked = issue.linked
  BY <1>2, <1>3 DEF Issues
<1>5. TypeOK'
  BY <1>1, <1>4 DEF IInv, TypeOK, Issues
<1>6. RunsHeld'
  BY <1>1 DEF IInv, RunsHeld, Fits, Tells
<1>7. Linked' /\ ReproducedFirst' /\ StatusMeant'
  BY <1>1, <1>4 DEF IInv, IssueHeld, Linked, ReproducedFirst, StatusMeant
<1>8. edits' # 0
  BY <1>1
<1>9. AloneInProgress'
  BY <1>8 DEF AloneInProgress
<1> QED BY <1>5, <1>6, <1>7, <1>9 DEF IInv, IssueHeld

LEMMA IssueStarts == Init => IInv
<1> SUFFICES ASSUME Init PROVE IInv
  OBVIOUS
<1>1. /\ bug \in BOOLEAN /\ prMode \in BOOLEAN /\ edits = 0 /\ issue \in [status : Statuses, by : {People}, linked : {NoRun}]
      /\ run = [r \in Runs |-> Absent]
  BY DEF Init
<1>2. Absent \in Records
  BY DEF Absent, Records, Statuses, Verdicts
<1>3. run \in [Runs -> Records] /\ edits \in 0..MaxEdits /\ issue \in Issues
  BY <1>1, <1>2, IssueAssumption DEF Issues, People, NoRun
<1>4. TypeOK
  BY <1>1, <1>3 DEF TypeOK, Records, Issues
<1>5. RunsHeld
  BY <1>1 DEF RunsHeld, Fits, Tells, Absent
<1>6. Linked /\ ReproducedFirst /\ StatusMeant
  BY <1>1 DEF Linked, ReproducedFirst, StatusMeant
<1>7. AloneInProgress
  BY <1>1 DEF AloneInProgress, Absent
<1> QED BY <1>4, <1>5, <1>6, <1>7 DEF IInv, IssueHeld

LEMMA IssueStep == IInv /\ [Next]_vars => IInv'
<1> SUFFICES ASSUME IInv, [Next]_vars PROVE IInv'
  OBVIOUS
<1>1. CASE UNCHANGED vars
  BY <1>1 DEF vars, IInv, TypeOK, RunsHeld, Fits, Tells, IssueHeld, Linked, ReproducedFirst, StatusMeant,
              AloneInProgress, Asked
<1>2. CASE Repair
  BY <1>2, RepairHeld
<1>3. CASE Edit
  BY <1>3, EditHeld
<1>4. ASSUME NEW r \in Runs, Read(r) \/ Goes(r) \/ Die(r) PROVE IInv'
  BY <1>4, ReadHeld, AuthorHeld, TryHeld, ClaimHeld, WorkHeld, ReopenHeld, SettleHeld, DieHeld DEF Goes
<1> QED BY <1>1, <1>2, <1>3, <1>4 DEF Next

-----------------------------------------------------------------------------
(* The theorems. *)

\* What from-issue.ts lets a run know at each of its places, and what the issue shows of it.
THEOREM IssueInvariance == Spec => []IInv
<1>1. Init => IInv
  BY IssueStarts
<1>2. IInv /\ [Next]_vars => IInv'
  BY IssueStep
<1> QED BY <1>1, <1>2, PTL DEF Spec

\* Whatever the number of triggers, failing requests, deaths, repairs and edits: the tracker
\* hears of a bug only from a run that saw it fail, an issue a run closed was shipped by it,
\* a row tells the end of its run, and work alone on an issue shows (from-issue.ts, processIssue).
THEOREM IssueSound == Spec => []IssueInvariant
<1>1. ASSUME IInv PROVE RowTells
  <2> SUFFICES ASSUME NEW r \in Runs
               PROVE /\ run[r].row = "BLOCKED" => ~run[r].repro /\ issue.linked # r
                     /\ run[r].row = "DONE" => run[r].verdict \in {"SHIP", "NEEDS-CLARIFICATION", "none"}
                     /\ bug /\ Cleanly(r) => run[r].row \in {"DONE", "FAILED", "BLOCKED"}
                     /\ bug /\ Cleanly(r) /\ run[r].verdict \in {"SHIP", "NEEDS-CLARIFICATION"} => run[r].row = "DONE"
                     /\ ~bug => run[r].row = "none"
    BY DEF RowTells
  <2>1. Tells(run[r]) /\ Linked /\ r # NoRun
    BY <1>1, RunIs DEF IInv, IssueHeld, Runs, NoRun
  <2> QED BY <2>1 DEF Tells, Linked, Cleanly
<1>2. IInv => IssueInvariant
  BY <1>1 DEF IssueInvariant, IInv, IssueHeld
<1> QED BY <1>2, IssueInvariance, PTL
=============================================================================
