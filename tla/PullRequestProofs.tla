-------------------------- MODULE PullRequestProofs --------------------------
(***************************************************************************)
(* Proofs about PrDelivery, for any number of crashes, failures and acts   *)
(* from outside: what a delivery does once, and what its record is worth;  *)
(* and about MergeTrust, for any number of pull requests, evaluations and  *)
(* days: what the record of earlier ones is worth to the next.             *)
(***************************************************************************)
EXTENDS PrDelivery, MergeTrust, FiniteSetTheorems, WellFoundedInduction, TLAPS

-----------------------------------------------------------------------------
(* The inductive invariant of PrDelivery. *)

Attempts == [pc: PCs, by: {"server", "cli"}, way: {"workflow", "finish"}, sha: Marked \cup {"none"},
             stage: Stages \cup {"none"}, status: Statuses, dial: BOOLEAN, shipped: BOOLEAN, eligible: BOOLEAN, told: BOOLEAN]
Checkpoints == [state: States, action: {"none", "delivery"}, step: Stages, status: Statuses,
                stage: Stages \cup {"none"}, sha: Marked \cup {"none"}, evidence: BOOLEAN]

Active == att.pc \notin {"idle", "down"}
Verifying == {"to-push", "lookup", "push", "to-pr", "list", "create", "view", "deliver"}
Staged == {"inspect", "commit", "confirm"} \cup Verifying
Merges == {"assess"} \cup Requesting

\* What the record k is worth, the worktree being at head and GitHub having shown the commit
\* seen: the commit it names was made, and after the audit.
Worth(k, head, seen) ==
    /\ k.sha # "none" => head # "base"
    /\ k.stage = "docs-audit" => k.sha = "none"
    /\ k.status = "DELIVERED" => seen = k.sha

\* What the attempt a knows: its commit is the recorded one, from the push on it has one, and
\* one that it has delivered was seen on GitHub.
Knows(a, k, head, seen) ==
    /\ a.sha # "none" => head # "base"
    /\ k.sha \in {"none", a.sha}
    /\ a.stage = "docs-audit" \/ a.pc \in {"audit", "commit", "confirm"} => a.sha = "none"
    /\ a.pc \notin {"audit", "begin"} => a.stage # "none"
    /\ a.pc \in Verifying => a.sha # "none"
    /\ a.pc \in Staged => k.status # "DELIVERED" /\ a.stage # "docs-audit"
    /\ a.pc = "deliver" => seen = a.sha
    /\ a.status = "DELIVERED" =>
            a.pc \notin Staged \cup {"audit", "begin"} /\ seen = a.sha /\ a.sha # "none" /\ k.sha = a.sha
    /\ a.pc \in Merges => a.status = "DELIVERED"

\* What was done once leaves a trace that keeps it from being done again.
DoneOnce ==
    /\ done.commits = 0 \/ (done.commits = 1 /\ tree.head # "base" /\ att.pc # "commit")
    /\ done.created = 0 \/ (done.created = 1 /\ pr.state # "none" /\ att.pc # "create")
    /\ done.requests = 0 \/ (/\ done.requests = 1 /\ ckpt.sha # "none" /\ claim[ckpt.sha] # "none"
                             /\ att.pc \notin {"check", "send"})

\* Only the recorded commit is claimed, and asked for.
Claimed ==
    /\ \A c \in Commits : claim[c] # "none" => c = ckpt.sha
    /\ att.pc \in {"check", "send", "settle"} => claim[att.sha] # "none"
    /\ att.pc = "settle" /\ att.told => pr.asked
    /\ RequestedIsAsked
    /\ AskedAsVerified

OnRecord == Worth(ckpt, tree.head, done.seen)
Attempted == Active => Knows(att, ckpt, tree.head, done.seen)

\* OncePerRun and AskedAsVerified are not inductive: an attempt that starts anew must find what
\* the last one left, which Worth and Knows say of the record, the worktree and the attempt.
IInv == TypeOK /\ OnRecord /\ Attempted /\ DoneOnce /\ Claimed

-----------------------------------------------------------------------------
(* What a step of an attempt changes. *)

Surrounded ==
    /\ tree \in [head: Commits, dirty: BOOLEAN]
    /\ origin \in [branch: Commits \cup {"none"}, moved: BOOLEAN]
    /\ pr \in [state: {"none", "open", "closed", "merged"}, head: Commits \cup {"none"}, asked: BOOLEAN]
    /\ world \in [reconfigured: BOOLEAN, dial: BOOLEAN, wanted: BOOLEAN]
    /\ claim \in [Commits -> {"none", "claimed", "requested", "failed"}]
    /\ spent \in [crashes: 0..MaxCrashes, failures: 0..MaxFailures, meddling: 0..MaxMeddling]
    /\ done \in [commits: Nat, created: Nat, requests: Nat, seen: Commits \cup {"none"},
                 asked: Commits \cup {"none"}, torn: BOOLEAN]

LEMMA Typed == TypeOK <=> Surrounded /\ att \in Attempts /\ ckpt \in Checkpoints
  BY DEF TypeOK, Surrounded, Attempts, Checkpoints

LEMMA Here ==
  ASSUME IInv
  PROVE /\ Surrounded /\ att \in Attempts /\ ckpt \in Checkpoints /\ Worth(ckpt, tree.head, done.seen)
        /\ Active => Knows(att, ckpt, tree.head, done.seen)
  BY Typed DEF IInv, OnRecord, Attempted

\* What nobody undoes.
Lasting ==
    /\ tree.head # "base" => tree'.head # "base"
    /\ pr.state # "none" => pr'.state # "none"
    /\ pr.asked => pr'.asked
    /\ ckpt.sha # "none" => ckpt'.sha = ckpt.sha

\* What steps other than those of a merge may do: the commit and the pull request, in their places.
Counted ==
    /\ claim' = claim
    /\ UNCHANGED <<done.requests, done.asked>>
    /\ \/ done'.commits = done.commits
       \/ att.pc = "commit" /\ done'.commits = done.commits + 1 /\ tree'.head # "base"
    /\ \/ done'.created = done.created
       \/ att.pc = "create" /\ done'.created = done.created + 1 /\ pr'.state # "none"

LEMMA LaterHeld ==
  ASSUME IInv, Lasting, Counted, att'.pc \notin {"check", "send", "settle"},
         att'.pc = "commit" => done'.commits = 0, att'.pc = "create" => done'.created = 0
  PROVE DoneOnce' /\ Claimed'
<1>1. \A c \in Commits : claim[c] # "none" => c = ckpt.sha
  BY DEF IInv, Claimed
<1>2. "none" \notin Commits
  BY DEF Commits
<1>3. \A c \in Commits : claim'[c] # "none" => c = ckpt'.sha
  BY <1>1, <1>2 DEF Lasting, Counted
<1>4. RequestedIsAsked' /\ AskedAsVerified'
  BY DEF IInv, Claimed, RequestedIsAsked, AskedAsVerified, Lasting, Counted
<1>5. DoneOnce'
  BY DEF IInv, DoneOnce, Lasting, Counted
<1> QED BY <1>3, <1>4, <1>5 DEF Claimed

LEMMA StepHeld ==
  ASSUME IInv, Surrounded', NEW a \in Attempts, NEW k \in Checkpoints, att' = a, ckpt' = k, Lasting, Counted,
         a.pc \notin {"check", "send", "settle"},
         a.pc = "commit" => done'.commits = 0, a.pc = "create" => done'.created = 0,
         Worth(k, tree'.head, done'.seen), a.pc \notin {"idle", "down"} => Knows(a, k, tree'.head, done'.seen)
  PROVE IInv'
<1>1. TypeOK'
  BY DEF TypeOK, Surrounded, Attempts, Checkpoints
<1>2. DoneOnce' /\ Claimed'
  BY LaterHeld
<1>3. OnRecord' /\ Attempted'
  BY DEF OnRecord, Attempted, Active
<1> QED BY <1>1, <1>2, <1>3 DEF IInv

\* A step that only moves the attempt on.
LEMMA GoHeld ==
  ASSUME IInv, Active, Surrounded', ckpt' = ckpt, Lasting, Counted,
         NEW pc \in PCs \ {"idle", "down", "check", "send", "settle", "audit"}, Go(pc),
         done'.seen = done.seen \/ att.pc \in {"list", "view"},
         pc = "commit" => done'.commits = 0, pc = "create" => done'.created = 0,
         pc \in {"commit", "confirm"} => att.sha = "none", pc \in Verifying => att.sha # "none",
         pc \in Staged => att.pc \in Staged,
         pc = "begin" => att.pc = "audit", pc # "begin" => att.pc \notin {"audit", "begin"},
         pc = "deliver" => done'.seen = att.sha,
         pc \in Merges => att.status = "DELIVERED"
  PROVE IInv'
<1> DEFINE a == [att EXCEPT !.pc = pc]
<1>1. /\ att \in Attempts /\ ckpt \in Checkpoints /\ Worth(ckpt, tree.head, done.seen)
      /\ Knows(att, ckpt, tree.head, done.seen)
  BY Here
<1>2. a \in Attempts /\ att' = a
  BY <1>1 DEF Attempts, Go
<1>3. a.pc = pc /\ a.sha = att.sha /\ a.stage = att.stage /\ a.status = att.status
  BY <1>1 DEF Attempts
<1> HIDE DEF a
<1>4. Worth(ckpt, tree'.head, done'.seen)
  BY <1>1 DEF Worth, Knows, Lasting, Staged, Verifying
<1>5. Knows(a, ckpt, tree'.head, done'.seen)
  BY <1>1, <1>3 DEF Knows, Lasting, Staged, Verifying, Merges
<1> QED BY <1>1, <1>2, <1>3, <1>4, <1>5, StepHeld

\* A step that saves the delivery's state.
LEMMA PublishHeld ==
  ASSUME IInv, Active, UNCHANGED <<tree, origin, pr, world, claim, spent, done>>,
         NEW status \in Statuses, NEW stage \in Stages, NEW pc \in {"inspect", "lookup", "list", "clear", "assess", "close"},
         Publish(status, stage, att.sha, pc),
         stage = "docs-audit" => att.sha = "none", pc \in {"lookup", "list"} => att.sha # "none",
         pc \in Staged => status # "DELIVERED" /\ stage # "docs-audit",
         status = "DELIVERED" => done.seen = att.sha /\ att.sha # "none",
         pc = "assess" => status = "DELIVERED"
  PROVE IInv'
<1> DEFINE a == [att EXCEPT !.pc = pc, !.status = status, !.stage = stage, !.sha = att.sha]
           k == Saved(status, stage, att.sha)
<1>1. /\ Surrounded /\ att \in Attempts /\ ckpt \in Checkpoints /\ Worth(ckpt, tree.head, done.seen)
      /\ Knows(att, ckpt, tree.head, done.seen)
  BY Here
<1>2. a \in Attempts /\ k \in Checkpoints /\ att' = a /\ ckpt' = k
  BY <1>1 DEF Attempts, Checkpoints, Publish, Saved, PCs
<1>3. /\ a.pc = pc /\ a.sha = att.sha /\ a.stage = stage /\ a.status = status
      /\ k.sha = att.sha /\ k.stage = stage /\ k.status = status
  BY <1>1 DEF Attempts, Checkpoints, Saved
<1> HIDE DEF a, k
<1>4. Surrounded' /\ Lasting /\ Counted
  BY <1>1, <1>2, <1>3 DEF Surrounded, Lasting, Counted, Knows
<1>5. Worth(k, tree'.head, done'.seen)
  BY <1>1, <1>3 DEF Worth, Knows
<1>6. Knows(a, k, tree'.head, done'.seen)
  BY <1>1, <1>3 DEF Knows, Staged, Verifying, Merges, Requesting, Stages
<1> QED BY <1>2, <1>3, <1>4, <1>5, <1>6, StepHeld

\* A stage that throws.
LEMMA PendHeld ==
  ASSUME IInv, att.pc \in Staged, Pend, Surrounded', Counted,
         tree.head # "base" => tree'.head # "base", pr.state # "none" => pr'.state # "none", pr.asked => pr'.asked
  PROVE IInv'
<1> DEFINE pc == IF att.way = "workflow" THEN "clear" ELSE "close"
           a == [att EXCEPT !.pc = pc, !.status = "DELIVERY_PENDING"]
           k == IF att.way = "workflow" THEN Saved("DELIVERY_PENDING", att.stage, att.sha) ELSE ckpt
<1>1. /\ Surrounded /\ att \in Attempts /\ ckpt \in Checkpoints /\ Worth(ckpt, tree.head, done.seen)
      /\ Knows(att, ckpt, tree.head, done.seen) /\ ckpt.status # "DELIVERED" /\ att.stage \in Stages
  <2>1. Active /\ att.pc \notin {"audit", "begin"}
    BY DEF Active, Staged, Verifying
  <2> QED BY <2>1, Here DEF Knows, Attempts
<1>2. a \in Attempts /\ k \in Checkpoints /\ att' = a /\ ckpt' = k
  BY <1>1 DEF Attempts, Checkpoints, Pend, Saved, PCs, Statuses
<1>3. /\ a.pc \in {"clear", "close"} /\ a.sha = att.sha /\ a.stage = att.stage /\ a.status = "DELIVERY_PENDING"
      /\ k.sha \in {ckpt.sha, att.sha} /\ k.stage \in {ckpt.stage, att.stage} /\ k.status # "DELIVERED"
      /\ k = ckpt \/ (k.sha = att.sha /\ k.stage = att.stage)
  BY <1>1 DEF Attempts, Checkpoints, Saved
<1> HIDE DEF a, k
<1>4. Lasting
  BY <1>1, <1>2, <1>3 DEF Lasting, Knows
<1>5. Worth(k, tree'.head, done'.seen)
  BY <1>1, <1>3 DEF Worth, Knows
<1>6. Knows(a, k, tree'.head, done'.seen)
  BY <1>1, <1>3 DEF Knows, Staged, Verifying, Merges, Requesting
<1> QED BY <1>2, <1>3, <1>4, <1>5, <1>6, StepHeld

\* The world around an attempt, when nothing but the failures moves.
LEMMA SpentTyped ==
  ASSUME Surrounded, spent' = spent \/ Failing
  PROVE spent' \in [crashes: 0..MaxCrashes, failures: 0..MaxFailures, meddling: 0..MaxMeddling]
  BY DeliveryAssumption DEF Surrounded, Failing

LEMMA Quiet ==
  ASSUME IInv, UNCHANGED <<tree, origin, pr, world, claim, done>>, spent' = spent \/ Failing
  PROVE /\ Surrounded' /\ Counted
        /\ (ckpt.sha # "none" => ckpt'.sha = ckpt.sha) => Lasting
<1>1. Surrounded
  BY Here
<1>2. spent' \in [crashes: 0..MaxCrashes, failures: 0..MaxFailures, meddling: 0..MaxMeddling]
  BY <1>1, SpentTyped
<1> QED BY <1>1, <1>2 DEF Surrounded, Counted, Lasting

-----------------------------------------------------------------------------
(* The actions of an attempt up to the pull request. *)

LEMMA BeginHeld ==
  ASSUME IInv, Begin
  PROVE IInv'
  BY PublishHeld DEF Begin, Active, Statuses, Stages, Staged, Verifying

LEMMA ToPushHeld ==
  ASSUME IInv, ToPush
  PROVE IInv'
<1>1. Active /\ att.sha # "none"
  BY Here DEF ToPush, Active, Knows, Verifying
<1> QED BY <1>1, PublishHeld DEF ToPush, Statuses, Stages, Staged, Verifying

LEMMA ToPullRequestHeld ==
  ASSUME IInv, ToPullRequest
  PROVE IInv'
<1>1. Active /\ att.sha # "none"
  BY Here DEF ToPullRequest, Active, Knows, Verifying
<1> QED BY <1>1, PublishHeld DEF ToPullRequest, Statuses, Stages, Staged, Verifying

LEMMA DeliverHeld ==
  ASSUME IInv, Deliver
  PROVE IInv'
<1>1. Active /\ att.sha # "none" /\ done.seen = att.sha
  BY Here DEF Deliver, Active, Knows, Verifying
<1>2. Delivering \in {"clear", "assess", "close"}
  BY DEF Delivering
<1> QED BY <1>1, <1>2, PublishHeld DEF Deliver, Statuses, Stages, Staged, Verifying

\* The attempt and the record at one of the places, and what they know.
LEMMA AtPlace ==
  ASSUME IInv, Active
  PROVE /\ Surrounded /\ att \in Attempts /\ ckpt \in Checkpoints
        /\ Worth(ckpt, tree.head, done.seen) /\ Knows(att, ckpt, tree.head, done.seen)
  BY Here

LEMMA AuditHeld ==
  ASSUME IInv, Audit
  PROVE IInv'
<1>1. /\ Active /\ att.pc = "audit" /\ Surrounded /\ att \in Attempts /\ ckpt \in Checkpoints
      /\ Worth(ckpt, tree.head, done.seen) /\ Knows(att, ckpt, tree.head, done.seen)
      /\ att.sha = "none" /\ ckpt.sha = "none"
  BY AtPlace DEF Audit, Active, Knows
<1>2. PICK writes \in BOOLEAN : tree' = [tree EXCEPT !.dirty = @ \/ writes]
  BY DEF Audit
<1>3. (tree.dirty \/ writes) \in BOOLEAN
  BY <1>1 DEF Surrounded
<1>4. tree'.head = tree.head /\ tree' \in [head: Commits, dirty: BOOLEAN]
  BY <1>1, <1>2, <1>3 DEF Surrounded
<1>5. spent' = spent \/ Failing
  BY DEF Audit
<1>6. Surrounded' /\ Counted
  BY <1>1, <1>4, <1>5, SpentTyped DEF Audit, Surrounded, Counted
<1>7. CASE Go("begin") /\ UNCHANGED ckpt
  <2>1. Lasting
    BY <1>4, <1>7 DEF Audit, Lasting
  <2> QED BY <1>1, <1>6, <1>7, <2>1, GoHeld DEF Audit, PCs, Staged, Verifying, Merges, Requesting
<1>8. CASE /\ att' = [att EXCEPT !.pc = Closing, !.status = "DELIVERY_PENDING", !.stage = "docs-audit"]
           /\ ckpt' = IF att.way = "workflow" THEN Saved("DELIVERY_PENDING", "docs-audit", att.sha) ELSE ckpt
  <2> DEFINE a == [att EXCEPT !.pc = Closing, !.status = "DELIVERY_PENDING", !.stage = "docs-audit"]
             k == IF att.way = "workflow" THEN Saved("DELIVERY_PENDING", "docs-audit", att.sha) ELSE ckpt
  <2>1. a \in Attempts /\ k \in Checkpoints /\ att' = a /\ ckpt' = k
    <3>1. a \in Attempts
      BY <1>1 DEF Attempts, Closing, PCs, Statuses, Stages
    <3>2. k \in Checkpoints
      BY <1>1 DEF Checkpoints, Saved, Statuses, Stages
    <3> QED BY <1>8, <3>1, <3>2
  <2>2. /\ a.pc \in {"record", "close"} /\ a.sha = "none" /\ a.stage = "docs-audit" /\ a.status = "DELIVERY_PENDING"
        /\ k.sha = "none" /\ (k.status = "DELIVERED" => k = ckpt)
    BY <1>1 DEF Attempts, Checkpoints, Closing, Saved
  <2> HIDE DEF a, k
  <2>3. Lasting
    BY <1>1, <1>4 DEF Audit, Lasting
  <2>4. done' = done
    BY DEF Audit
  <2>5. Worth(k, tree'.head, done'.seen)
    BY <1>1, <2>2, <2>4 DEF Worth
  <2>6. Knows(a, k, tree'.head, done'.seen)
    BY <1>1, <2>2 DEF Knows, Staged, Verifying, Merges, Requesting
  <2> QED BY <1>6, <2>1, <2>2, <2>3, <2>5, <2>6, StepHeld
<1> QED BY <1>7, <1>8 DEF Audit

\* A commit that is taken for the verified one.
LEMMA ShaHeld ==
  ASSUME IInv, att.pc \in {"inspect", "confirm"}, tree.head \in Marked, att.sha \in {"none", tree.head},
         att' = [att EXCEPT !.pc = "to-push", !.sha = tree.head], UNCHANGED <<tree, origin, pr, world, ckpt, claim, spent, done>>
  PROVE IInv'
<1> DEFINE a == [att EXCEPT !.pc = "to-push", !.sha = tree.head]
<1>1. /\ Active /\ Surrounded /\ att \in Attempts /\ ckpt \in Checkpoints
      /\ Worth(ckpt, tree.head, done.seen) /\ Knows(att, ckpt, tree.head, done.seen)
  BY AtPlace DEF Active
<1>2. a \in Attempts /\ att' = a
  BY <1>1 DEF Attempts, PCs
<1>3. a.pc = "to-push" /\ a.sha = tree.head /\ a.stage = att.stage /\ a.status = att.status
  BY <1>1 DEF Attempts
<1> HIDE DEF a
<1>4. Surrounded' /\ Counted /\ Lasting
  BY Quiet
<1>5. Knows(a, ckpt, tree.head, done.seen)
  BY <1>1, <1>3 DEF Knows, Staged, Verifying, Merges, Requesting, Marked
<1> QED BY <1>1, <1>2, <1>3, <1>4, <1>5, StepHeld

LEMMA InspectHeld ==
  ASSUME IInv, Inspect
  PROVE IInv'
<1>1. /\ Active /\ att.pc = "inspect" /\ att.pc \in Staged /\ UNCHANGED <<tree, origin, pr, world, claim, done>>
      /\ spent' = spent \/ Failing
  BY DEF Inspect, Active, Staged, Stop, Throw
<1>2. Surrounded' /\ Counted /\ ((ckpt.sha # "none" => ckpt'.sha = ckpt.sha) => Lasting)
  BY <1>1, Quiet
<1>3. /\ att \in Attempts /\ (att.sha # "none" => tree.head # "base") /\ (tree.head = "base" => done.commits = 0)
  BY <1>1, AtPlace DEF Knows, IInv, DoneOnce
<1>4. CASE Verified /\ att' = [att EXCEPT !.pc = "to-push", !.sha = tree.head] /\ UNCHANGED <<ckpt, spent>>
  <2>1. tree.head \in Marked /\ att.sha \in {"none", tree.head}
    BY <1>3, <1>4 DEF Verified, Attempts
  <2> QED BY <1>1, <1>4, <2>1, ShaHeld
<1>5. CASE att.sha = "none" /\ tree.head = "base" /\ tree.dirty /\ Go("commit") /\ UNCHANGED <<ckpt, spent>>
  BY <1>1, <1>2, <1>3, <1>5, GoHeld DEF PCs, Staged, Verifying, Merges, Requesting
<1>6. CASE att.sha = "none" /\ UNCHANGED spent
           /\ Publish("NO_CHANGES", "commit", "none", IF att.way = "workflow" THEN "clear" ELSE "close")
  BY <1>1, <1>6, PublishHeld DEF Statuses, Stages, Staged, Verifying
<1>7. CASE Stop \/ Throw
  BY <1>1, <1>2, <1>7, PendHeld DEF Stop, Throw
<1> QED BY <1>4, <1>5, <1>6, <1>7 DEF Inspect

LEMMA CommitHeld ==
  ASSUME IInv, Commit
  PROVE IInv'
<1>1. /\ Active /\ att.pc = "commit" /\ att.pc \in Staged /\ UNCHANGED <<origin, pr, world, claim>>
      /\ spent' = spent \/ Failing
  BY DEF Commit, Active, Staged, Stop, Throw
<1>2. Surrounded /\ att.sha = "none" /\ ckpt.sha = "none"
  BY <1>1, AtPlace DEF Knows
<1>3. CASE /\ tree' = [head |-> IF tree.head = "base" THEN "work" ELSE "local", dirty |-> FALSE]
           /\ done' = [done EXCEPT !.commits = @ + 1] /\ Go("confirm") /\ UNCHANGED <<ckpt, spent>>
  <2>1. tree'.head # "base" /\ tree' \in [head: Commits, dirty: BOOLEAN]
    BY <1>3 DEF Commits
  <2>2. /\ done'.commits = done.commits + 1 /\ done'.created = done.created /\ done'.requests = done.requests
        /\ done'.seen = done.seen /\ done'.asked = done.asked
        /\ done' \in [commits: Nat, created: Nat, requests: Nat, seen: Commits \cup {"none"},
                      asked: Commits \cup {"none"}, torn: BOOLEAN]
    BY <1>2, <1>3 DEF Surrounded
  <2>3. Surrounded' /\ Counted /\ Lasting
    BY <1>1, <1>2, <1>3, <2>1, <2>2 DEF Surrounded, Counted, Lasting
  <2> QED BY <1>1, <1>2, <1>3, <2>2, <2>3, GoHeld DEF PCs, Staged, Verifying, Merges, Requesting
<1>4. CASE (Stop \/ Throw) /\ UNCHANGED <<tree, done>>
  <2>1. Surrounded' /\ Counted
    BY <1>1, <1>4, Quiet
  <2> QED BY <1>1, <1>4, <2>1, PendHeld DEF Stop, Throw
<1> QED BY <1>3, <1>4 DEF Commit

LEMMA ConfirmHeld ==
  ASSUME IInv, Confirm
  PROVE IInv'
<1>1. /\ Active /\ att.pc = "confirm" /\ att.pc \in Staged /\ UNCHANGED <<tree, origin, pr, world, claim, done>>
      /\ spent' = spent \/ Failing
  BY DEF Confirm, Active, Staged, Stop, Throw
<1>2. Surrounded' /\ Counted
  BY <1>1, Quiet
<1>3. att.sha = "none"
  BY <1>1, AtPlace DEF Knows
<1>4. CASE tree.head \in Marked /\ att' = [att EXCEPT !.pc = "to-push", !.sha = tree.head] /\ UNCHANGED <<ckpt, spent>>
  BY <1>1, <1>3, <1>4, ShaHeld
<1>5. CASE Stop \/ Throw
  BY <1>1, <1>2, <1>5, PendHeld DEF Stop, Throw
<1> QED BY <1>4, <1>5 DEF Confirm

LEMMA LookupHeld ==
  ASSUME IInv, Lookup
  PROVE IInv'
<1>1. /\ Active /\ att.pc = "lookup" /\ att.pc \in Staged /\ UNCHANGED <<tree, origin, pr, world, claim, done>>
      /\ spent' = spent \/ Failing
  BY DEF Lookup, Active, Staged, Verifying, Stop, Throw
<1>2. Surrounded' /\ Counted /\ ((ckpt.sha # "none" => ckpt'.sha = ckpt.sha) => Lasting)
  BY <1>1, Quiet
<1>3. att.sha # "none"
  BY <1>1, AtPlace DEF Knows, Verifying
<1>4. ASSUME NEW pc \in {"push", "to-pr"}, Go(pc), UNCHANGED ckpt PROVE IInv'
  BY <1>1, <1>2, <1>3, <1>4, GoHeld DEF PCs, Staged, Verifying, Merges, Requesting
<1>5. CASE Stop \/ Throw
  BY <1>1, <1>2, <1>5, PendHeld DEF Stop, Throw
<1> QED BY <1>4, <1>5 DEF Lookup

LEMMA PushHeld ==
  ASSUME IInv, Push
  PROVE IInv'
<1>1. /\ Active /\ att.pc = "push" /\ att.pc \in Staged /\ UNCHANGED <<tree, pr, world, claim, done>>
      /\ spent' = spent \/ Failing
      /\ origin' = origin \/ origin' = [origin EXCEPT !.branch = tree.head]
  BY DEF Push, Active, Staged, Verifying, Stop, Throw
<1>2. Surrounded /\ att.sha # "none"
  BY <1>1, AtPlace DEF Knows, Verifying
<1>3. origin' \in [branch: Commits \cup {"none"}, moved: BOOLEAN]
  BY <1>1, <1>2 DEF Surrounded
<1>4. Surrounded' /\ Counted /\ ((ckpt.sha # "none" => ckpt'.sha = ckpt.sha) => Lasting)
  BY <1>1, <1>2, <1>3, SpentTyped DEF Surrounded, Counted, Lasting
<1>5. CASE Go("to-pr") /\ UNCHANGED ckpt
  BY <1>1, <1>2, <1>4, <1>5, GoHeld DEF PCs, Staged, Verifying, Merges, Requesting
<1>6. CASE Stop \/ Throw
  BY <1>1, <1>4, <1>6, PendHeld DEF Stop, Throw
<1> QED BY <1>5, <1>6 DEF Push

\* What GitHub is seen to show changes nothing of what was done.
LEMMA SeenQuiet ==
  ASSUME IInv, UNCHANGED <<tree, origin, pr, world, claim>>, spent' = spent \/ Failing,
         done' = done \/ done' = [done EXCEPT !.seen = pr.head]
  PROVE /\ Surrounded' /\ Counted /\ done'.seen \in {done.seen, pr.head}
        /\ (ckpt.sha # "none" => ckpt'.sha = ckpt.sha) => Lasting
<1>1. Surrounded
  BY Here
<1>2. /\ UNCHANGED <<done.commits, done.created, done.requests, done.asked>> /\ done'.seen \in {done.seen, pr.head}
      /\ done' \in [commits: Nat, created: Nat, requests: Nat, seen: Commits \cup {"none"},
                    asked: Commits \cup {"none"}, torn: BOOLEAN]
  BY <1>1 DEF Surrounded
<1>3. Surrounded'
  BY <1>1, <1>2, SpentTyped DEF Surrounded
<1> QED BY <1>2, <1>3 DEF Counted, Lasting

LEMMA ListHeld ==
  ASSUME IInv, List
  PROVE IInv'
<1>1. /\ Active /\ att.pc = "list" /\ att.pc \in Staged /\ UNCHANGED <<tree, origin, pr, world, claim>>
      /\ spent' = spent \/ Failing
      /\ done' = done \/ done' = [done EXCEPT !.seen = pr.head]
  BY DEF List, Active, Staged, Verifying, Stop, Throw
<1>2. Surrounded' /\ Counted /\ ((ckpt.sha # "none" => ckpt'.sha = ckpt.sha) => Lasting)
  BY <1>1, SeenQuiet
<1>3. att.sha # "none" /\ Surrounded
  BY <1>1, AtPlace DEF Knows, Verifying
<1>4. CASE pr.state = "none" /\ Go("create") /\ UNCHANGED ckpt
  <2>1. done'.created = 0
    BY <1>1, <1>2, <1>4 DEF IInv, DoneOnce, Counted
  <2> QED BY <1>1, <1>2, <1>3, <1>4, <2>1, GoHeld DEF PCs, Staged, Verifying, Merges, Requesting
<1>5. CASE Matches /\ Go("deliver") /\ UNCHANGED ckpt /\ done' = [done EXCEPT !.seen = pr.head]
  <2>1. done'.seen = att.sha
    BY <1>3, <1>5 DEF Matches, Surrounded
  <2> QED BY <1>1, <1>2, <1>3, <1>5, <2>1, GoHeld DEF PCs, Staged, Verifying, Merges, Requesting
<1>6. CASE Stop \/ Throw
  BY <1>1, <1>2, <1>6, PendHeld DEF Stop, Throw
<1> QED BY <1>4, <1>5, <1>6 DEF List

LEMMA ViewHeld ==
  ASSUME IInv, View
  PROVE IInv'
<1>1. /\ Active /\ att.pc = "view" /\ att.pc \in Staged /\ UNCHANGED <<tree, origin, pr, world, claim>>
      /\ spent' = spent \/ Failing
      /\ done' = [done EXCEPT !.seen = pr.head]
  BY DEF View, Active, Staged, Verifying, Stop, Throw
<1>2. Surrounded' /\ Counted /\ ((ckpt.sha # "none" => ckpt'.sha = ckpt.sha) => Lasting)
  BY <1>1, SeenQuiet
<1>3. att.sha # "none" /\ Surrounded
  BY <1>1, AtPlace DEF Knows, Verifying
<1>4. CASE Matches /\ Go("deliver") /\ UNCHANGED ckpt
  <2>1. done'.seen = att.sha
    BY <1>1, <1>3, <1>4 DEF Matches, Surrounded
  <2> QED BY <1>1, <1>2, <1>3, <1>4, <2>1, GoHeld DEF PCs, Staged, Verifying, Merges, Requesting
<1>5. CASE Stop \/ Throw
  BY <1>1, <1>2, <1>5, PendHeld DEF Stop, Throw
<1> QED BY <1>4, <1>5 DEF View

LEMMA CreateHeld ==
  ASSUME IInv, Create
  PROVE IInv'
<1>1. /\ Active /\ att.pc = "create" /\ att.pc \in Staged /\ UNCHANGED <<tree, origin, world, claim>>
      /\ spent' = spent \/ Failing
  BY DEF Create, Active, Staged, Verifying, Stop, Throw
<1>2. Surrounded /\ att.sha # "none"
  BY <1>1, AtPlace DEF Knows, Verifying
<1>3. CASE UNCHANGED <<pr, done>> /\ (Stop \/ Throw)
  <2>1. Surrounded' /\ Counted
    BY <1>1, <1>3, Quiet
  <2> QED BY <1>1, <1>3, <2>1, PendHeld DEF Stop, Throw
<1>4. CASE /\ pr' = [pr EXCEPT !.state = "open", !.head = origin.branch]
           /\ done' = [done EXCEPT !.created = @ + 1]
           /\ (Go("view") /\ UNCHANGED <<ckpt, spent>>) \/ Throw
  <2>1. /\ pr'.state = "open" /\ pr'.asked = pr.asked
        /\ pr' \in [state: {"none", "open", "closed", "merged"}, head: Commits \cup {"none"}, asked: BOOLEAN]
    BY <1>2, <1>4 DEF Surrounded
  <2>2. /\ done'.commits = done.commits /\ done'.created = done.created + 1 /\ done'.requests = done.requests
        /\ done'.seen = done.seen /\ done'.asked = done.asked
        /\ done' \in [commits: Nat, created: Nat, requests: Nat, seen: Commits \cup {"none"},
                      asked: Commits \cup {"none"}, torn: BOOLEAN]
    BY <1>2, <1>4 DEF Surrounded
  <2>3. Surrounded' /\ Counted
    BY <1>1, <1>2, <2>1, <2>2, SpentTyped DEF Surrounded, Counted
  <2>4. CASE Go("view") /\ UNCHANGED <<ckpt, spent>>
    <3>1. Lasting
      BY <1>1, <2>1, <2>4 DEF Lasting
    <3> QED BY <1>1, <1>2, <2>2, <2>3, <2>4, <3>1, GoHeld DEF PCs, Staged, Verifying, Merges, Requesting
  <2>5. CASE Throw
    BY <1>1, <2>1, <2>3, <2>5, PendHeld DEF Throw
  <2> QED BY <1>4, <2>4, <2>5
<1> QED BY <1>3, <1>4 DEF Create

LEMMA ClearHeld ==
  ASSUME IInv, Clear
  PROVE IInv'
<1>1. /\ Active /\ att.pc = "clear" /\ UNCHANGED <<tree, origin, pr, world, claim, spent, done>> /\ Surrounded
      /\ att \in Attempts /\ ckpt \in Checkpoints /\ Worth(ckpt, tree.head, done.seen) /\ Knows(att, ckpt, tree.head, done.seen)
  BY AtPlace DEF Clear, Active
<1> DEFINE pc == IF att.status = "DELIVERED" /\ att.shipped THEN "assess" ELSE "record"
           a == [att EXCEPT !.pc = pc]
           k == [ckpt EXCEPT !.action = "none"]
<1>2. a \in Attempts /\ k \in Checkpoints /\ att' = a /\ ckpt' = k
  BY <1>1 DEF Clear, Go, Attempts, Checkpoints, PCs
<1>3. /\ a.pc \in {"assess", "record"} /\ (a.pc = "assess" => att.status = "DELIVERED")
      /\ a.sha = att.sha /\ a.stage = att.stage /\ a.status = att.status
      /\ k.sha = ckpt.sha /\ k.stage = ckpt.stage /\ k.status = ckpt.status
  BY <1>1 DEF Attempts, Checkpoints
<1> HIDE DEF a, k
<1>4. Surrounded' /\ Counted /\ Lasting
  BY <1>1, <1>2, <1>3, Quiet
<1>5. Worth(k, tree.head, done.seen)
  BY <1>1, <1>3 DEF Worth
<1>6. Knows(a, k, tree.head, done.seen)
  BY <1>1, <1>3 DEF Knows, Staged, Verifying, Merges, Requesting
<1> QED BY <1>1, <1>2, <1>3, <1>4, <1>5, <1>6, StepHeld

-----------------------------------------------------------------------------
(* The request to merge, and the end of an attempt. *)

LEMMA RecordHeld ==
  ASSUME IInv, Record
  PROVE IInv'
<1>1. /\ Active /\ att.pc = "record" /\ Knows(att, ckpt, tree.head, done.seen) /\ att \in Attempts
      /\ UNCHANGED <<tree, origin, pr, world, claim, spent, done>> /\ Publish(att.status, att.stage, att.sha, "close")
  BY AtPlace DEF Record, Active
<1>2. att.status \in Statuses /\ att.stage \in Stages
  BY <1>1 DEF Knows, Attempts
<1> QED BY <1>1, <1>2, PublishHeld DEF Knows, Staged, Verifying

LEMMA AssessHeld ==
  ASSUME IInv, Assess
  PROVE IInv'
<1>1. /\ Active /\ att.pc = "assess" /\ UNCHANGED <<tree, origin, pr, world, ckpt, claim, spent, done>> /\ Surrounded
      /\ att \in Attempts /\ ckpt \in Checkpoints /\ Worth(ckpt, tree.head, done.seen) /\ Knows(att, ckpt, tree.head, done.seen)
      /\ att.status = "DELIVERED"
  BY AtPlace DEF Assess, Active, Knows, Merges
<1>2. PICK pc \in {"request", "record", "close"}, enough \in BOOLEAN :
        att' = [att EXCEPT !.pc = pc, !.eligible = enough]
  BY <1>1 DEF Assess, Closing
<1> DEFINE a == [att EXCEPT !.pc = pc, !.eligible = enough]
<1>3. a \in Attempts /\ att' = a
  BY <1>1, <1>2 DEF Attempts, PCs, Requesting
<1>4. a.pc = pc /\ a.sha = att.sha /\ a.stage = att.stage /\ a.status = att.status
  BY <1>1 DEF Attempts
<1> HIDE DEF a
<1>5. Surrounded' /\ Counted /\ Lasting
  BY <1>1, Quiet
<1>6. Knows(a, ckpt, tree.head, done.seen)
  BY <1>1, <1>4 DEF Knows, Staged, Verifying, Merges, Requesting
<1> QED BY <1>1, <1>3, <1>4, <1>5, <1>6, StepHeld

LEMMA RequestHeld ==
  ASSUME IInv, Request \/ Recheck
  PROVE IInv'
<1>1. /\ Active /\ att.pc \in {"request", "recheck"} /\ UNCHANGED <<tree, origin, pr, world, ckpt, claim, spent, done>>
      /\ Knows(att, ckpt, tree.head, done.seen) /\ att.status = "DELIVERED"
  BY AtPlace DEF Request, Recheck, Active, Knows, Merges, Requesting
<1>2. Surrounded' /\ Counted /\ Lasting
  BY <1>1, Quiet
<1>3. PICK pc \in {"recheck", "claim", "record", "close"} : Go(pc)
  BY DEF Request, Recheck, Closing
<1> QED BY <1>1, <1>2, <1>3, GoHeld DEF PCs, Staged, Verifying, Merges, Requesting

\* From the claim on, the record stays and names the commit of the attempt.
LEMMA MergeHeld ==
  ASSUME IInv, att.pc \in {"claim", "check", "send", "settle"}, Surrounded', UNCHANGED <<tree, ckpt, done.seen>>,
         NEW pc \in {"check", "send", "settle", "record", "close"}, NEW told \in BOOLEAN,
         att' = [att EXCEPT !.pc = pc, !.told = told]
  PROVE /\ TypeOK' /\ OnRecord' /\ Attempted'
        /\ att.sha \in Commits /\ ckpt.sha = att.sha /\ att'.sha = att.sha /\ att'.pc = pc /\ att'.told = told
<1>1. /\ Active /\ att \in Attempts /\ ckpt \in Checkpoints
      /\ Worth(ckpt, tree.head, done.seen) /\ Knows(att, ckpt, tree.head, done.seen)
  BY AtPlace DEF Active
<1>2. att.status = "DELIVERED" /\ att.sha # "none" /\ ckpt.sha = att.sha
  BY <1>1 DEF Knows, Merges, Requesting
<1> DEFINE a == [att EXCEPT !.pc = pc, !.told = told]
<1>3. a \in Attempts /\ att' = a
  BY <1>1 DEF Attempts, PCs, Requesting
<1>4. a.pc = pc /\ a.sha = att.sha /\ a.stage = att.stage /\ a.status = att.status /\ a.told = told
  BY <1>1 DEF Attempts
<1> HIDE DEF a
<1>5. TypeOK'
  BY <1>1, <1>3 DEF TypeOK, Surrounded, Attempts, Checkpoints
<1>6. Knows(a, ckpt, tree.head, done.seen)
  BY <1>1, <1>2, <1>4 DEF Knows, Staged, Verifying, Merges, Requesting
<1>7. OnRecord' /\ Attempted'
  BY <1>1, <1>3, <1>6 DEF OnRecord, Attempted
<1>8. att.sha \in Commits
  BY <1>1, <1>2 DEF Attempts, Marked, Commits
<1> QED BY <1>2, <1>3, <1>4, <1>5, <1>7, <1>8

\* A move is one with what the process was told left as it is.
LEMMA GoTold ==
  ASSUME IInv, NEW pc, Go(pc)
  PROVE att.told \in BOOLEAN /\ att' = [att EXCEPT !.pc = pc, !.told = att.told]
<1>1. att \in Attempts
  BY Here
<1> QED BY <1>1 DEF Go, Attempts

LEMMA ClaimHeld ==
  ASSUME IInv, Claim
  PROVE IInv'
<1>1. /\ att.pc = "claim" /\ UNCHANGED <<tree, origin, pr, world, ckpt, spent, done>> /\ Surrounded
      /\ claim' = [claim EXCEPT ![att.sha] = IF @ = "none" THEN "claimed" ELSE @]
  BY Here DEF Claim
<1>2. claim \in [Commits -> {"none", "claimed", "requested", "failed"}]
  BY <1>1 DEF Surrounded
<1>3. PICK pc \in {"check", "record", "close"} : Go(pc) /\ (pc = "check" <=> claim[att.sha] = "none")
  BY DEF Claim, Closing
<1>4. claim' \in [Commits -> {"none", "claimed", "requested", "failed"}]
  BY <1>1, <1>2
<1>5. Surrounded'
  BY <1>1, <1>4 DEF Surrounded
<1>6. /\ TypeOK' /\ OnRecord' /\ Attempted' /\ att.sha \in Commits /\ ckpt.sha = att.sha
      /\ att'.sha = att.sha /\ att'.pc = pc
  BY <1>1, <1>3, <1>5, GoTold, MergeHeld
<1>7. /\ claim'[att.sha] # "none" /\ (\A c \in Commits \ {att.sha} : claim'[c] = claim[c])
      /\ (claim'[att.sha] = "requested" => claim[att.sha] = "requested")
  BY <1>1, <1>2, <1>6
<1>8. DoneOnce'
  BY <1>1, <1>3, <1>6, <1>7, Here DEF IInv, DoneOnce, Commits
<1>9. Claimed'
  BY <1>1, <1>3, <1>6, <1>7 DEF IInv, Claimed, RequestedIsAsked, AskedAsVerified
<1> QED BY <1>6, <1>8, <1>9 DEF IInv

\* A claim that is settled, after a look at the pull request or the answer to the request.
LEMMA FinishHeld ==
  ASSUME IInv, att.pc \in {"check", "settle"}, NEW state \in {"requested", "failed"}, Finish(state), Go(Closing),
         UNCHANGED <<tree, origin, pr, world, ckpt, done>>, spent' = spent \/ Failing,
         state = "requested" => pr.asked
  PROVE IInv'
<1>1. Surrounded /\ claim \in [Commits -> {"none", "claimed", "requested", "failed"}]
  BY Here DEF Surrounded
<1>2. claim' \in [Commits -> {"none", "claimed", "requested", "failed"}]
  BY <1>1 DEF Finish
<1>3. Surrounded'
  BY <1>1, <1>2, SpentTyped DEF Surrounded
<1>4. Closing \in {"record", "close"}
  BY DEF Closing
<1>5. /\ TypeOK' /\ OnRecord' /\ Attempted' /\ att.sha \in Commits /\ ckpt.sha = att.sha
      /\ att'.sha = att.sha /\ att'.pc \in {"record", "close"}
  BY <1>3, <1>4, GoTold, MergeHeld
<1>6. claim'[att.sha] = state /\ \A c \in Commits \ {att.sha} : claim'[c] = claim[c]
  BY <1>1, <1>5 DEF Finish
<1>7. DoneOnce'
  BY <1>5, <1>6 DEF IInv, DoneOnce
<1>8. Claimed'
  BY <1>5, <1>6 DEF IInv, Claimed, RequestedIsAsked, AskedAsVerified
<1> QED BY <1>5, <1>7, <1>8 DEF IInv

LEMMA SettleHeld ==
  ASSUME IInv, Settle
  PROVE IInv'
<1>1. att.pc = "settle" /\ UNCHANGED <<tree, origin, pr, world, ckpt, spent, done>> /\ Go(Closing)
  BY DEF Settle
<1>2. PICK state \in {"requested", "failed"} : Finish(state) /\ (state = "requested" => att.told)
  BY DEF Settle
<1>3. state = "requested" => pr.asked
  BY <1>1, <1>2 DEF IInv, Claimed
<1> QED BY <1>1, <1>2, <1>3, FinishHeld

LEMMA CheckHeld ==
  ASSUME IInv, Check
  PROVE IInv'
<1>1. att.pc = "check" /\ UNCHANGED <<tree, origin, pr, world, ckpt, done>>
  BY DEF Check
<1>2. CASE Go("send") /\ UNCHANGED <<claim, spent>>
  <2>1. Surrounded'
    BY <1>1, <1>2, Quiet
  <2>2. TypeOK' /\ OnRecord' /\ Attempted' /\ ckpt.sha = att.sha /\ att'.sha = att.sha /\ att'.pc = "send"
    BY <1>1, <1>2, <2>1, GoTold, MergeHeld
  <2>3. DoneOnce' /\ Claimed'
    BY <1>1, <1>2, <2>2 DEF IInv, DoneOnce, Claimed, RequestedIsAsked, AskedAsVerified
  <2> QED BY <2>2, <2>3 DEF IInv
<1>3. ASSUME NEW state \in {"requested", "failed"}, Finish(state), Go(Closing), spent' = spent \/ Failing,
             state = "requested" => pr.asked
      PROVE IInv'
  BY <1>1, <1>3, FinishHeld
<1> QED BY <1>2, <1>3 DEF Check

LEMMA SendHeld ==
  ASSUME IInv, Send
  PROVE IInv'
<1>1. /\ att.pc = "send" /\ UNCHANGED <<tree, origin, world, ckpt, claim>> /\ Surrounded
      /\ spent' = spent \/ Failing
  BY Here DEF Send
<1>2. /\ pr' = pr \/ (AtHead /\ pr' = [pr EXCEPT !.asked = TRUE])
      /\ \/ done' = [done EXCEPT !.requests = @ + 1]
         \/ AtHead /\ done' = [done EXCEPT !.requests = @ + 1, !.asked = pr.head]
  BY DEF Send
<1>3. PICK told \in BOOLEAN : att' = [att EXCEPT !.pc = "settle", !.told = told] /\ (told => pr'.asked)
  BY <1>1 DEF Send, Surrounded
<1>4. /\ pr'.state = pr.state /\ (pr.asked => pr'.asked)
      /\ pr' \in [state: {"none", "open", "closed", "merged"}, head: Commits \cup {"none"}, asked: BOOLEAN]
  BY <1>1, <1>2 DEF Surrounded
<1>5. /\ done'.requests = done.requests + 1 /\ done'.commits = done.commits /\ done'.created = done.created
      /\ done'.seen = done.seen /\ (done'.asked = done.asked \/ (AtHead /\ done'.asked = pr.head))
      /\ done' \in [commits: Nat, created: Nat, requests: Nat, seen: Commits \cup {"none"},
                    asked: Commits \cup {"none"}, torn: BOOLEAN]
  <2>1. CASE done' = [done EXCEPT !.requests = @ + 1]
    BY <1>1, <2>1 DEF Surrounded
  <2>2. CASE AtHead /\ done' = [done EXCEPT !.requests = @ + 1, !.asked = pr.head]
    <3>1. pr.head \in Commits \cup {"none"} /\ done.requests + 1 \in Nat
      BY <1>1 DEF Surrounded
    <3>2. /\ done'.requests = done.requests + 1 /\ done'.commits = done.commits /\ done'.created = done.created
          /\ done'.seen = done.seen /\ done'.asked = pr.head
      BY <1>1, <2>2 DEF Surrounded
    <3>3. done' \in [commits: Nat, created: Nat, requests: Nat, seen: Commits \cup {"none"},
                     asked: Commits \cup {"none"}, torn: BOOLEAN]
      BY <1>1, <2>2, <3>1 DEF Surrounded
    <3> QED BY <2>2, <3>2, <3>3
  <2> QED BY <1>2, <2>1, <2>2
<1>6. Surrounded'
  BY <1>1, <1>4, <1>5, SpentTyped DEF Surrounded
<1>7. /\ TypeOK' /\ OnRecord' /\ Attempted' /\ att.sha \in Commits /\ ckpt.sha = att.sha
      /\ att'.sha = att.sha /\ att'.pc = "settle" /\ att'.told = told
  BY <1>1, <1>3, <1>5, <1>6, MergeHeld
<1>8. done.requests = 0 /\ claim[att.sha] # "none" /\ att.sha # "none"
  BY <1>1, <1>7 DEF IInv, DoneOnce, Claimed, Commits
<1>9. DoneOnce'
  BY <1>1, <1>4, <1>5, <1>7, <1>8 DEF IInv, DoneOnce
<1>10. AskedAsVerified'
  BY <1>1, <1>5, <1>7 DEF IInv, Claimed, AskedAsVerified, AtHead
<1>11. Claimed'
  BY <1>1, <1>3, <1>4, <1>7, <1>8, <1>10 DEF IInv, Claimed, RequestedIsAsked
<1> QED BY <1>7, <1>9, <1>11 DEF IInv

LEMMA CloseHeld ==
  ASSUME IInv, Close
  PROVE IInv'
<1> DEFINE state == IF att.status = "DELIVERY_PENDING" THEN "DELIVERY_PENDING" ELSE "SUCCEEDED"
           a == [att EXCEPT !.pc = "idle"]
           k == [ckpt EXCEPT !.state = state, !.action = "none", !.status = att.status, !.stage = att.stage,
                             !.sha = att.sha, !.evidence = @ \/ att.shipped]
<1>1. /\ Active /\ att.pc = "close" /\ UNCHANGED <<tree, origin, pr, world, claim, spent, done>> /\ att' = a /\ ckpt' = k
      /\ att \in Attempts /\ ckpt \in Checkpoints /\ Knows(att, ckpt, tree.head, done.seen)
  BY AtPlace DEF Close, Active, Go
<1>2. (ckpt.evidence \/ att.shipped) \in BOOLEAN /\ state \in States
  BY <1>1 DEF Attempts, Checkpoints, States
<1> HIDE DEF state
<1>3. a \in Attempts /\ k \in Checkpoints
  BY <1>1, <1>2 DEF Attempts, Checkpoints, PCs
<1>4. a.pc = "idle" /\ k.sha = att.sha /\ k.stage = att.stage /\ k.status = att.status
  BY <1>1 DEF Attempts, Checkpoints
<1> HIDE DEF a, k
<1>5. Surrounded' /\ Counted /\ Lasting
  BY <1>1, <1>4, Quiet DEF Knows
<1>6. Worth(k, tree.head, done.seen)
  BY <1>1, <1>4 DEF Worth, Knows
<1> QED BY <1>1, <1>3, <1>4, <1>5, <1>6, StepHeld

\* A process that dies leaves the record as it was, or with the intent alone.
LEMMA CrashHeld ==
  ASSUME IInv, Crash
  PROVE IInv'
<1>1. /\ Surrounded /\ att \in Attempts /\ ckpt \in Checkpoints /\ Worth(ckpt, tree.head, done.seen)
      /\ UNCHANGED <<origin, pr, world, claim>>
  BY Here DEF Crash
<1>2. /\ spent' \in [crashes: 0..MaxCrashes, failures: 0..MaxFailures, meddling: 0..MaxMeddling]
      /\ tree' \in [head: Commits, dirty: BOOLEAN] /\ tree'.head = tree.head
  <2>1. spent' = [spent EXCEPT !.crashes = @ + 1] /\ spent.crashes < MaxCrashes
    BY DEF Crash
  <2>2. tree' = tree \/ tree' = [tree EXCEPT !.dirty = TRUE]
    BY DEF Crash
  <2>3. spent' \in [crashes: 0..MaxCrashes, failures: 0..MaxFailures, meddling: 0..MaxMeddling]
    BY <1>1, <2>1, DeliveryAssumption DEF Surrounded
  <2>4. tree' \in [head: Commits, dirty: BOOLEAN] /\ tree'.head = tree.head
    BY <1>1, <2>2 DEF Surrounded
  <2> QED BY <2>3, <2>4
<1>3. PICK torn \in BOOLEAN : done' = [done EXCEPT !.torn = torn]
  <2>1. done' = [done EXCEPT !.torn = @ \/ (ckpt'.action = "delivery" /\ ckpt'.step = "docs-audit")]
    BY DEF Crash
  <2>2. (done.torn \/ (ckpt'.action = "delivery" /\ ckpt'.step = "docs-audit")) \in BOOLEAN
    BY <1>1 DEF Surrounded
  <2> QED BY <2>1, <2>2
<1>4. /\ UNCHANGED <<done.commits, done.created, done.requests, done.seen, done.asked>>
      /\ done' \in [commits: Nat, created: Nat, requests: Nat, seen: Commits \cup {"none"},
                    asked: Commits \cup {"none"}, torn: BOOLEAN]
  BY <1>1, <1>3 DEF Surrounded
<1>5. Surrounded'
  BY <1>1, <1>2, <1>4 DEF Surrounded
<1>6. ckpt' \in Checkpoints /\ ckpt'.sha = ckpt.sha /\ ckpt'.stage = ckpt.stage /\ ckpt'.status = ckpt.status
  <2>1. CASE ckpt' = ckpt
    BY <1>1, <2>1
  <2>2. CASE Announced # "none" /\ ckpt' = [ckpt EXCEPT !.action = "delivery", !.step = Announced]
    <3>1. Announced \in Stages
      BY <2>2 DEF Announced, Stages
    <3> HIDE DEF Announced
    <3> QED BY <1>1, <2>2, <3>1 DEF Checkpoints
  <2> QED BY <2>1, <2>2 DEF Crash
<1>7. att' \in Attempts /\ att'.pc = "down"
  BY <1>1 DEF Crash, Go, Attempts, PCs
<1>8. Counted /\ Lasting
  BY <1>1, <1>2, <1>4, <1>6 DEF Counted, Lasting
<1>9. Worth(ckpt', tree'.head, done'.seen)
  BY <1>1, <1>2, <1>4, <1>6 DEF Worth
<1> QED BY <1>5, <1>6, <1>7, <1>8, <1>9, StepHeld

\* An attempt that starts anew knows what the record says.
LEMMA AttemptHeld ==
  ASSUME IInv, NEW k \in Checkpoints, ckpt' = k, k.sha = ckpt.sha, k.stage \in {ckpt.stage, "docs-audit"},
         k.status = ckpt.status \/ k.status = "READY", k.stage = "docs-audit" => ckpt.sha = "none",
         NEW way \in {"workflow", "finish"}, NEW pc \in {"begin", "audit"}, NEW stage \in Stages \cup {"none"},
         Attempt(way, pc, stage, ckpt.sha), stage = "docs-audit" \/ pc = "audit" => ckpt.sha = "none",
         UNCHANGED <<tree, origin, pr, world, claim, spent, done>>
  PROVE IInv'
<1> DEFINE a == [pc |-> pc, by |-> "server", way |-> way, sha |-> ckpt.sha, stage |-> stage, status |-> "READY",
                 dial |-> world.dial, shipped |-> FALSE, eligible |-> FALSE, told |-> FALSE]
<1>1. /\ Surrounded /\ ckpt \in Checkpoints /\ Worth(ckpt, tree.head, done.seen) /\ att' = a
  BY Here DEF Attempt
<1>2. ckpt.sha \in Marked \cup {"none"} /\ world.dial \in BOOLEAN
  BY <1>1 DEF Checkpoints, Surrounded
<1>3. a \in Attempts
  BY <1>2 DEF Attempts, PCs, Statuses
<1>4. a.pc = pc /\ a.sha = ckpt.sha /\ a.stage = stage /\ a.status = "READY"
  OBVIOUS
<1> HIDE DEF a
<1>5. Surrounded' /\ Counted /\ Lasting
  BY Quiet
<1>6. Worth(k, tree.head, done.seen)
  BY <1>1 DEF Worth
<1>7. Knows(a, k, tree.head, done.seen)
  BY <1>1, <1>4 DEF Worth, Knows, Staged, Verifying, Merges, Requesting
<1> QED BY <1>1, <1>3, <1>4, <1>5, <1>6, <1>7, StepHeld

LEMMA RecoverHeld ==
  ASSUME IInv, Recover
  PROVE IInv'
<1>1. /\ Surrounded /\ att \in Attempts /\ ckpt \in Checkpoints /\ Worth(ckpt, tree.head, done.seen)
      /\ UNCHANGED <<tree, origin, pr, world, claim, done>>
  BY Here DEF Recover
<1>2. CASE Attempt("finish", "begin", ckpt.stage, ckpt.sha) /\ UNCHANGED <<ckpt, spent>>
  <2>1. ckpt.stage \in Stages \cup {"none"} /\ (ckpt.stage = "docs-audit" => ckpt.sha = "none")
    BY <1>1 DEF Checkpoints, Worth
  <2> QED BY <1>1, <1>2, <2>1, AttemptHeld
<1>3. CASE /\ tree = [head |-> "base", dirty |-> FALSE] /\ UNCHANGED spent
           /\ Attempt("workflow", "audit", "docs-audit", ckpt.sha)
           /\ ckpt' = [ckpt EXCEPT !.action = "delivery", !.step = "docs-audit"]
  <2> DEFINE k == [ckpt EXCEPT !.action = "delivery", !.step = "docs-audit"]
  <2>1. k \in Checkpoints /\ k.sha = ckpt.sha /\ k.stage = ckpt.stage /\ k.status = ckpt.status /\ ckpt' = k
    BY <1>1, <1>3 DEF Checkpoints, Stages
  <2>2. ckpt.sha = "none"
    BY <1>1, <1>3 DEF Worth
  <2> HIDE DEF k
  <2> QED BY <1>1, <1>3, <2>1, <2>2, AttemptHeld DEF Stages
<1>4. CASE Go("idle") /\ ckpt' = [ckpt EXCEPT !.state = "RECOVERY_REQUIRED"] /\ (UNCHANGED spent \/ Failing)
  <2>1. att' \in Attempts /\ att'.pc = "idle"
    BY <1>1, <1>4 DEF Go, Attempts, PCs
  <2>2. ckpt' \in Checkpoints /\ ckpt'.sha = ckpt.sha /\ ckpt'.stage = ckpt.stage /\ ckpt'.status = ckpt.status
    BY <1>1, <1>4 DEF Checkpoints, States
  <2>3. Surrounded' /\ Counted /\ Lasting
    BY <1>1, <1>4, <2>2, Quiet
  <2>4. Worth(ckpt', tree.head, done.seen)
    BY <1>1, <2>2 DEF Worth
  <2> QED BY <1>1, <2>1, <2>2, <2>3, <2>4, StepHeld
<1> QED BY <1>2, <1>3, <1>4 DEF Recover

LEMMA RetryHeld ==
  ASSUME IInv, Retry
  PROVE IInv'
<1>1. /\ ckpt \in Checkpoints /\ Worth(ckpt, tree.head, done.seen)
      /\ UNCHANGED <<tree, origin, pr, world, claim, spent, done>>
  BY Here DEF Retry
<1>2. CASE ckpt.stage = "docs-audit"
  <2> DEFINE k == [Saved("READY", "docs-audit", "none") EXCEPT !.state = "RUNNING"]
  <2>1. ckpt.sha = "none" /\ Attempt("finish", "audit", "docs-audit", ckpt.sha) /\ ckpt' = k
    BY <1>1, <1>2 DEF Retry, Worth
  <2>2. k \in Checkpoints /\ k.sha = "none" /\ k.stage = "docs-audit" /\ k.status = "READY"
    BY <1>1 DEF Saved, Checkpoints, Stages, Statuses, States
  <2> HIDE DEF k
  <2> QED BY <1>1, <2>1, <2>2, AttemptHeld DEF Stages
<1>3. CASE ckpt.stage # "docs-audit"
  <2> DEFINE k == [ckpt EXCEPT !.state = "RUNNING"]
  <2>1. Attempt("finish", "begin", ckpt.stage, ckpt.sha) /\ ckpt' = k
    BY <1>3 DEF Retry
  <2>2. k \in Checkpoints /\ k.sha = ckpt.sha /\ k.stage = ckpt.stage /\ k.status = ckpt.status
        /\ ckpt.stage \in Stages \cup {"none"}
    BY <1>1 DEF Checkpoints, States
  <2> HIDE DEF k
  <2> QED BY <1>1, <1>3, <2>1, <2>2, AttemptHeld
<1> QED BY <1>2, <1>3

-----------------------------------------------------------------------------
(* What others do, and every step. *)

\* People leave the record, the attempt and the claims alone, and undo nothing that was done.
LEMMA OthersHeld ==
  ASSUME IInv, Others
  PROVE IInv'
<1>1. /\ Surrounded /\ OnRecord /\ Attempted /\ UNCHANGED <<ckpt, att, claim, done>>
      /\ spent' = [spent EXCEPT !.meddling = @ + 1] /\ spent.meddling < MaxMeddling
  BY Here DEF IInv, Others, EditTree, CommitLocally, PushTheirs, OpenPullRequest, EndPullRequest, MoveBase,
              Reconfigure, TurnDial, Meddle
<1>2. spent' \in [crashes: 0..MaxCrashes, failures: 0..MaxFailures, meddling: 0..MaxMeddling]
  BY <1>1, DeliveryAssumption DEF Surrounded
<1>3. tree' \in [head: Commits, dirty: BOOLEAN] /\ (tree.head # "base" => tree'.head # "base")
  <2>1. CASE EditTree
    BY <1>1, <2>1 DEF EditTree, Surrounded
  <2>2. CASE CommitLocally
    BY <1>1, <2>2 DEF CommitLocally, Surrounded, Commits
  <2>3. CASE tree' = tree
    BY <1>1, <2>3 DEF Surrounded
  <2> QED BY <2>1, <2>2, <2>3 DEF Others, PushTheirs, OpenPullRequest, EndPullRequest, MoveBase, Reconfigure, TurnDial
<1>4. origin' \in [branch: Commits \cup {"none"}, moved: BOOLEAN]
  <2>1. CASE PushTheirs
    BY <1>1, <2>1 DEF PushTheirs, Surrounded, Commits
  <2>2. CASE EndPullRequest
    <3>1. PICK moved \in BOOLEAN : origin' = [origin EXCEPT !.moved = moved]
      <4>1. PICK state \in {"closed", "merged"} : origin' = [origin EXCEPT !.moved = @ \/ state = "merged"]
        BY <2>2 DEF EndPullRequest
      <4>2. (origin.moved \/ state = "merged") \in BOOLEAN
        BY <1>1 DEF Surrounded
      <4> QED BY <4>1, <4>2
    <3> QED BY <1>1, <3>1 DEF Surrounded
  <2>3. CASE MoveBase
    BY <1>1, <2>3 DEF MoveBase, Surrounded
  <2>4. CASE origin' = origin
    BY <1>1, <2>4 DEF Surrounded
  <2> QED BY <2>1, <2>2, <2>3, <2>4 DEF Others, EditTree, CommitLocally, OpenPullRequest, Reconfigure, TurnDial
<1>5. /\ pr' \in [state: {"none", "open", "closed", "merged"}, head: Commits \cup {"none"}, asked: BOOLEAN]
      /\ pr'.asked = pr.asked /\ (pr.state # "none" => pr'.state # "none")
  <2>1. CASE PushTheirs
    BY <1>1, <2>1 DEF PushTheirs, Surrounded, Commits
  <2>2. CASE OpenPullRequest
    BY <1>1, <2>2 DEF OpenPullRequest, Surrounded
  <2>3. CASE EndPullRequest
    <3>1. PICK state \in {"closed", "merged"} : pr' = [pr EXCEPT !.state = state]
      BY <2>3 DEF EndPullRequest
    <3> QED BY <1>1, <3>1 DEF Surrounded
  <2>4. CASE pr' = pr
    BY <1>1, <2>4 DEF Surrounded
  <2> QED BY <2>1, <2>2, <2>3, <2>4 DEF Others, EditTree, CommitLocally, MoveBase, Reconfigure, TurnDial
<1>6. world' \in [reconfigured: BOOLEAN, dial: BOOLEAN, wanted: BOOLEAN]
  <2>1. CASE Reconfigure
    BY <1>1, <2>1 DEF Reconfigure, Surrounded
  <2>2. CASE TurnDial
    BY <1>1, <2>2 DEF TurnDial, Surrounded
  <2>3. CASE world' = world
    BY <1>1, <2>3 DEF Surrounded
  <2> QED BY <2>1, <2>2, <2>3 DEF Others, EditTree, CommitLocally, PushTheirs, OpenPullRequest, EndPullRequest, MoveBase
<1>7. Surrounded'
  BY <1>1, <1>2, <1>3, <1>4, <1>5, <1>6 DEF Surrounded
<1>8. TypeOK'
  BY <1>1, <1>7, Here DEF TypeOK, Surrounded, Attempts, Checkpoints
<1>9. OnRecord' /\ Attempted'
  BY <1>1, <1>3 DEF OnRecord, Attempted, Active, Worth, Knows
<1>10. DoneOnce' /\ Claimed'
  BY <1>1, <1>3, <1>5 DEF IInv, DoneOnce, Claimed, RequestedIsAsked, AskedAsVerified
<1> QED BY <1>8, <1>9, <1>10 DEF IInv

LEMMA DeliveryStarts == Init => IInv
<1> SUFFICES ASSUME Init PROVE IInv
  OBVIOUS
<1>1. /\ tree \in [head: {"base"}, dirty: BOOLEAN] /\ world \in [reconfigured: {FALSE}, dial: BOOLEAN, wanted: BOOLEAN]
      /\ origin = [branch |-> "none", moved |-> FALSE] /\ pr = [state |-> "none", head |-> "none", asked |-> FALSE]
      /\ claim = [c \in Commits |-> "none"] /\ spent = [crashes |-> 0, failures |-> 0, meddling |-> 0]
      /\ done = [commits |-> 0, created |-> 0, requests |-> 0, seen |-> "none", asked |-> "none", torn |-> FALSE]
      /\ ckpt = [state |-> "RUNNING", action |-> "delivery", step |-> "docs-audit",
                 status |-> "READY", stage |-> "none", sha |-> "none", evidence |-> FALSE]
  BY DEF Init
<1>2. Surrounded
  <2>1. "base" \in Commits
    BY DEF Commits
  <2>2. tree \in [head: Commits, dirty: BOOLEAN]
    BY <1>1, <2>1
  <2>3. world \in [reconfigured: BOOLEAN, dial: BOOLEAN, wanted: BOOLEAN]
    BY <1>1
  <2>4. origin \in [branch: Commits \cup {"none"}, moved: BOOLEAN]
    BY <1>1
  <2>5. pr \in [state: {"none", "open", "closed", "merged"}, head: Commits \cup {"none"}, asked: BOOLEAN]
    BY <1>1
  <2>6. claim \in [Commits -> {"none", "claimed", "requested", "failed"}]
    BY <1>1
  <2>7. spent \in [crashes: 0..MaxCrashes, failures: 0..MaxFailures, meddling: 0..MaxMeddling]
    BY <1>1, DeliveryAssumption
  <2>8. done \in [commits: Nat, created: Nat, requests: Nat, seen: Commits \cup {"none"},
                  asked: Commits \cup {"none"}, torn: BOOLEAN]
    BY <1>1
  <2> QED BY <2>2, <2>3, <2>4, <2>5, <2>6, <2>7, <2>8 DEF Surrounded
<1>3. ckpt \in Checkpoints
  BY <1>1 DEF Checkpoints, States, Stages, Statuses
<1>4. PICK by \in Callers :
        att = [pc |-> "audit", by |-> by, way |-> "workflow", sha |-> "none", stage |-> "none",
               status |-> "READY", dial |-> world.dial, shipped |-> TRUE, eligible |-> FALSE, told |-> FALSE]
  BY DEF Init
<1>5. by \in {"server", "cli"} /\ world.dial \in BOOLEAN
  BY <1>1, DeliveryAssumption
<1>6. att \in Attempts
  BY <1>4, <1>5 DEF Attempts, PCs, Statuses
<1>7. TypeOK
  BY <1>2, <1>3, <1>6, Typed
<1>8. OnRecord /\ Attempted
  BY <1>1, <1>4 DEF OnRecord, Attempted, Worth, Knows, Staged, Verifying, Merges, Requesting
<1>9. DoneOnce
  BY <1>1 DEF DoneOnce
<1>10. Claimed
  BY <1>1, <1>4 DEF Claimed, RequestedIsAsked, AskedAsVerified
<1> QED BY <1>7, <1>8, <1>9, <1>10 DEF IInv

LEMMA DeliveryStep == IInv /\ [Next]_vars => IInv'
<1> SUFFICES ASSUME IInv, [Next]_vars PROVE IInv'
  OBVIOUS
<1>1. CASE UNCHANGED vars
  BY <1>1 DEF vars, IInv, TypeOK, OnRecord, Attempted, Active, Worth, Knows, DoneOnce, Claimed, RequestedIsAsked, AskedAsVerified
<1>2. CASE Stage
  BY <1>2, AuditHeld, BeginHeld, InspectHeld, CommitHeld, ConfirmHeld, ToPushHeld, LookupHeld, PushHeld,
     ToPullRequestHeld, ListHeld, CreateHeld, ViewHeld, DeliverHeld, ClearHeld DEF Stage
<1>3. CASE Merging
  BY <1>3, AssessHeld, RequestHeld, ClaimHeld, CheckHeld, SendHeld, SettleHeld DEF Merging
<1>4. CASE Record \/ Close \/ Crash \/ Recover \/ Retry
  BY <1>4, RecordHeld, CloseHeld, CrashHeld, RecoverHeld, RetryHeld
<1>5. CASE Others
  BY <1>5, OthersHeld
<1> QED BY <1>1, <1>2, <1>3, <1>4, <1>5 DEF Next

-----------------------------------------------------------------------------
(* The theorems. *)

\* What pr-delivery.ts and auto-merge-execution.ts know of a delivery at each of its places,
\* and what the record is worth to whoever takes it up again.
THEOREM DeliveryInvariance == Spec => []IInv
<1>1. Init => IInv
  BY DeliveryStarts
<1>2. IInv /\ [Next]_vars => IInv'
  BY DeliveryStep
<1> QED BY <1>1, <1>2, PTL DEF Spec

\* However often an attempt dies, fails, is recovered or retried, and whatever people do meanwhile:
\* one commit, one pull request and one merge request are made (pr-delivery.ts), a commit recorded
\* as delivered was seen on GitHub, and a claim says "requested" only of a request GitHub took.
THEOREM DeliverySound == Spec => []DeliveryInvariant
<1>1. ASSUME IInv PROVE OncePerRun
  <2>1. done.commits \in {0, 1} /\ done.created \in {0, 1} /\ done.requests \in {0, 1}
    BY <1>1 DEF IInv, DoneOnce
  <2> QED BY <2>1 DEF OncePerRun
<1>2. IInv => DeliveryInvariant
  BY <1>1 DEF IInv, DeliveryInvariant, DeliveredWasSeen, OnRecord, Worth, Claimed
<1> QED BY <1>2, DeliveryInvariance, PTL

\* GitHub is asked to merge the recorded commit and no other (auto-merge-execution.ts), whoever
\* pushes and whichever process asks.
THEOREM AskedSound == Spec => []AskedAsVerified
<1>1. IInv => AskedAsVerified
  BY DEF IInv, Claimed
<1> QED BY <1>1, DeliveryInvariance, PTL

\* A verified commit, once on record, is not forgotten and not replaced (persistDeliveryState),
\* by no stage, failure, recovery or retry.
THEOREM CommitKept == Spec => ShaKept
<1>1. ASSUME IInv, [Next]_vars, ckpt.sha # "none" PROVE ckpt'.sha = ckpt.sha
  <2>1. /\ ckpt \in Checkpoints /\ Worth(ckpt, tree.head, done.seen)
        /\ Active => att.sha = ckpt.sha /\ att.pc \notin {"audit", "commit", "confirm"}
    BY <1>1, Here DEF Knows
  <2>2. ASSUME NEW status, NEW stage PROVE Saved(status, stage, att.sha).sha = att.sha
    BY <2>1 DEF Saved, Checkpoints
  <2>3. CASE ckpt' = ckpt
    BY <2>3
  <2>4. ASSUME NEW status, NEW stage, Active, ckpt' = Saved(status, stage, att.sha) PROVE ckpt'.sha = ckpt.sha
    BY <2>1, <2>2, <2>4
  <2>5. CASE Begin \/ ToPush \/ ToPullRequest \/ Deliver \/ Record
    BY <2>4, <2>5 DEF Begin, ToPush, ToPullRequest, Deliver, Record, Publish, Active
  <2>6. CASE Audit \/ Inspect \/ Commit \/ Confirm \/ Lookup \/ Push \/ List \/ Create \/ View
    <3>1. Active
      BY <2>6 DEF Audit, Inspect, Commit, Confirm, Lookup, Push, List, Create, View, Active
    <3>2. att.sha # "none"
      BY <1>1, <2>1, <3>1
    <3>3. CASE Inspect
      <4>1. ckpt' = ckpt \/ Pend
        BY <3>2, <3>3 DEF Inspect, Stop, Throw
      <4> QED BY <2>3, <2>4, <3>1, <4>1 DEF Pend
    <3>4. CASE Commit \/ Confirm \/ Lookup \/ Push \/ List \/ Create \/ View
      <4>1. ckpt' = ckpt \/ Pend
        BY <3>4 DEF Commit, Confirm, Lookup, Push, List, Create, View, Stop, Throw
      <4> QED BY <2>3, <2>4, <3>1, <4>1 DEF Pend
    <3>5. ~Audit
      BY <2>1, <3>1 DEF Audit
    <3> QED BY <2>6, <3>3, <3>4, <3>5
  <2>7. CASE Clear \/ Crash
    BY <2>1, <2>7 DEF Clear, Crash, Checkpoints
  <2>8. CASE Close
    BY <2>1, <2>8 DEF Close, Checkpoints, Active
  <2>9. CASE Recover
    BY <2>1, <2>9 DEF Recover, Checkpoints
  <2>10. CASE Retry
    BY <1>1, <2>1, <2>10 DEF Retry, Checkpoints, Worth
  <2>11. CASE UNCHANGED vars \/ Merging \/ Others
    BY <2>3, <2>11 DEF vars, Merging, Assess, Request, Recheck, Claim, Check, Send, Settle, Others, EditTree, CommitLocally,
                       PushTheirs, OpenPullRequest, EndPullRequest, MoveBase, Reconfigure, TurnDial, Meddle
  <2> QED BY <1>1, <2>5, <2>6, <2>7, <2>8, <2>9, <2>10, <2>11 DEF Next, Stage
<1>2. IInv /\ [Next]_vars => (ckpt.sha # "none" => ckpt'.sha = ckpt.sha)
  BY <1>1
<1> QED BY <1>2, DeliveryInvariance, PTL DEF Spec, ShaKept

-----------------------------------------------------------------------------
(* Finite sets in an order (Ordered and Streak of MergeTrust). *)

\* What is before x.
Below(S, R, x) == {y \in S : <<y, x>> \in R}

StrictOrder(S, R) ==
    /\ \A x \in S : <<x, x>> \notin R
    /\ \A x, y \in S : x = y \/ <<x, y>> \in R \/ <<y, x>> \in R
    /\ \A x, y, z \in S : <<x, y>> \in R /\ <<y, z>> \in R => <<x, z>> \in R

LEMMA RankTyped ==
    ASSUME NEW S, IsFiniteSet(S), NEW R, StrictOrder(S, R), NEW x \in S
    PROVE  /\ IsFiniteSet(Below(S, R, x)) /\ Cardinality(S) \in Nat
           /\ Cardinality(Below(S, R, x)) \in Nat /\ Cardinality(Below(S, R, x)) < Cardinality(S)
<1>1. Below(S, R, x) \in SUBSET S /\ x \notin Below(S, R, x)
  BY DEF Below, StrictOrder
<1>2. Below(S, R, x) # S
  BY <1>1
<1>3. IsFiniteSet(Below(S, R, x)) /\ Cardinality(Below(S, R, x)) <= Cardinality(S)
        /\ Cardinality(Below(S, R, x)) # Cardinality(S)
  BY <1>1, <1>2, FS_Subset
<1>4. Cardinality(S) \in Nat /\ Cardinality(Below(S, R, x)) \in Nat
  BY <1>3, FS_CardinalityType
<1> QED BY <1>3, <1>4

\* What is before has the lower rank.
LEMMA RankGrows ==
    ASSUME NEW S, IsFiniteSet(S), NEW R, StrictOrder(S, R), NEW x \in S, NEW y \in S, <<x, y>> \in R
    PROVE  Cardinality(Below(S, R, x)) < Cardinality(Below(S, R, y))
<1>1. Below(S, R, x) \in SUBSET Below(S, R, y) /\ x \notin Below(S, R, x) /\ x \in Below(S, R, y)
  BY DEF Below, StrictOrder
<1>2. IsFiniteSet(Below(S, R, y)) /\ Cardinality(Below(S, R, y)) \in Nat /\ Cardinality(Below(S, R, x)) \in Nat
  BY RankTyped
<1>3. Cardinality(Below(S, R, x)) <= Cardinality(Below(S, R, y))
        /\ Cardinality(Below(S, R, x)) # Cardinality(Below(S, R, y))
  BY <1>1, <1>2, FS_Subset
<1> QED BY <1>2, <1>3

LEMMA RankOrders ==
    ASSUME NEW S, IsFiniteSet(S), NEW R, StrictOrder(S, R), NEW x \in S, NEW y \in S
    PROVE  /\ (<<x, y>> \in R <=> Cardinality(Below(S, R, x)) < Cardinality(Below(S, R, y)))
           /\ (x = y <=> Cardinality(Below(S, R, x)) = Cardinality(Below(S, R, y)))
<1>1. Cardinality(Below(S, R, x)) \in Nat /\ Cardinality(Below(S, R, y)) \in Nat
  BY RankTyped
<1>2. x = y \/ <<x, y>> \in R \/ <<y, x>> \in R
  BY DEF StrictOrder
<1>3. <<x, y>> \in R => Cardinality(Below(S, R, x)) < Cardinality(Below(S, R, y))
  BY RankGrows
<1>4. <<y, x>> \in R => Cardinality(Below(S, R, y)) < Cardinality(Below(S, R, x))
  BY RankGrows
<1> QED BY <1>1, <1>2, <1>3, <1>4

\* Every place is taken by the member of its rank.
LEMMA OrderedPlaces ==
    ASSUME NEW S, IsFiniteSet(S), NEW R, StrictOrder(S, R), NEW n \in 1..Cardinality(S)
    PROVE  Ordered(S, R)[n] \in S /\ Cardinality(Below(S, R, Ordered(S, R)[n])) = n - 1
<1> DEFINE N == Cardinality(S)
           place == [x \in S |-> Cardinality(Below(S, R, x)) + 1]
<1>0. \A x, y \in S : x = y <=> Cardinality(Below(S, R, x)) = Cardinality(Below(S, R, y))
  <2> HIDE DEF place, N
  <2>1. ASSUME NEW x \in S, NEW y \in S
        PROVE  /\ (<<x, y>> \in R <=> Cardinality(Below(S, R, x)) < Cardinality(Below(S, R, y)))
               /\ (x = y <=> Cardinality(Below(S, R, x)) = Cardinality(Below(S, R, y)))
    BY RankOrders, SMTT(60)
  <2> QED BY <2>1
<1>1. N \in Nat
  BY FS_CardinalityType
<1>2. place \in [S -> 1..N]
  <2>1. ASSUME NEW x \in S PROVE Cardinality(Below(S, R, x)) + 1 \in 1..N
    BY <1>1, RankTyped
  <2> QED BY <2>1
<1>3. \A x, y \in S : place[x] = place[y] => x = y
  <2>1. ASSUME NEW x \in S, NEW y \in S, place[x] = place[y] PROVE x = y
    <3>1. Cardinality(Below(S, R, x)) \in Nat /\ Cardinality(Below(S, R, y)) \in Nat
      BY RankTyped
    <3>2. Cardinality(Below(S, R, x)) = Cardinality(Below(S, R, y))
      BY <2>1, <3>1
    <3> QED BY <1>0, <3>2
  <2> QED BY <2>1
<1>4. place \in Injection(S, 1..N)
  <2> HIDE DEF place, N
  <2> QED BY <1>2, <1>3 DEF Injection, IsInjective
<1>5. IsFiniteSet(1..N) /\ Cardinality(1..N) = N
  BY <1>1, FS_Interval
<1>6. place \in Surjection(S, 1..N)
  BY <1>4, <1>5, FS_Injection
<1>7. PICK x \in S : place[x] = n
  BY <1>6 DEF Surjection
<1>8. Cardinality(Below(S, R, x)) = n - 1
  BY <1>1, <1>7, RankTyped
<1>9. \E y \in S : Cardinality({z \in S : <<z, y>> \in R}) = n - 1
  BY <1>8 DEF Below
<1>10. Ordered(S, R)[n] = CHOOSE y \in S : Cardinality({z \in S : <<z, y>> \in R}) = n - 1
  BY DEF Ordered
<1> QED BY <1>9, <1>10 DEF Below

\* A set of numbers has a least one.
LEMMA LeastNat ==
    ASSUME NEW T, T \subseteq Nat, T # {}
    PROVE  \E x \in T : \A y \in T : x <= y
<1>1. PICK x \in T : \A y \in T : ~(<<y, x>> \in OpToRel(<, Nat))
  BY NatLessThanWellFounded, WFMin, Zenon
<1>2. \A y \in T : ~(y < x)
  BY <1>1, Zenon DEF OpToRel
<1> QED BY <1>2


\* f keeps what Streak keeps.
Follows(f, N, order, good) ==
    /\ f[0] = {}
    /\ \A n \in 1..N : f[n] = IF order[n] \in good THEN f[n - 1] \cup {order[n]} ELSE {}

\* Two functions that keep the same at every step are the same.
LEMMA SameSteps ==
    ASSUME NEW N \in Nat, NEW order, NEW good, 
           NEW f, Follows(f, N, order, good), NEW g, Follows(g, N, order, good)
    PROVE  f[N] = g[N]
<1> DEFINE T == {n \in 0..N : f[n] # g[n]}
<1>1. SUFFICES ASSUME T # {} PROVE FALSE
  OBVIOUS
<1>2. PICK n \in T : \A y \in T : n <= y
  <2>1. T \subseteq Nat
    OBVIOUS
  <2> HIDE DEF T
  <2> QED BY <1>1, <2>1, LeastNat
<1>3. n \in 1..N /\ n - 1 \in 0..N /\ ~(n <= n - 1)
  BY <1>2 DEF Follows
<1>4. n - 1 \notin T
  <2> HIDE DEF T
  <2> QED BY <1>2, <1>3
<1>5. f[n - 1] = g[n - 1]
  BY <1>3, <1>4
<1> QED BY <1>2, <1>3, <1>5 DEF Follows

\* The loop of both streaks (calculateEvalTrustStreak, getAutoMergeLiveTrustStreak) leaves, of any
\* finite number of results, those that come after every one that does not count.
THEOREM StreakIs ==
    ASSUME NEW S, IsFiniteSet(S), NEW R, StrictOrder(S, R), NEW good
    PROVE  Streak(S, R, good) = {x \in S : \A y \in S : y \notin good => <<y, x>> \in R}
<1> DEFINE N == Cardinality(S)
           order == Ordered(S, R)
           rank(x) == Cardinality(Below(S, R, x))
           next(n, kept) == IF order[n] \in good THEN kept \cup {order[n]} ELSE {}
           Steps(f) == f = [n \in 0..N |-> IF n = 0 THEN {}
                                           ELSE IF order[n] \in good THEN f[n - 1] \cup {order[n]} ELSE {}]
           streak == CHOOSE f : Steps(f)
           seen(n) == {x \in S : rank(x) < n /\ \A y \in S : rank(y) < n /\ y \notin good => <<y, x>> \in R}
           closed == [n \in 0..N |-> seen(n)]
<1>2. N \in Nat /\ \A n \in 1..N : order[n] \in S /\ rank(order[n]) = n - 1
  BY FS_CardinalityType, OrderedPlaces
<1>3. \A x \in S : rank(x) \in Nat /\ rank(x) < N
  BY RankTyped
<1>4. \A x, y \in S : (<<x, y>> \in R <=> rank(x) < rank(y)) /\ (x = y <=> rank(x) = rank(y))
  BY RankOrders
<1> HIDE DEF N, order, rank
<1>5. seen(0) = {}
  BY <1>3
<1>6. ASSUME NEW n \in 1..N PROVE seen(n) = next(n, seen(n - 1))
  <2> DEFINE o == order[n]
  <2>1. n \in Nat /\ o \in S /\ rank(o) = n - 1
    BY <1>2
  <2>2. \A x \in S : rank(x) < n <=> x = o \/ rank(x) < n - 1
    <3>1. ASSUME NEW x \in S PROVE rank(x) < n <=> x = o \/ rank(x) < n - 1
      <4>1. rank(x) \in Nat /\ (x = o <=> rank(x) = n - 1)
        BY <1>3, <1>4, <2>1
      <4> QED BY <2>1, <4>1
    <3> QED BY <3>1
  <2> HIDE DEF o
  <2>3. CASE o \in good
    <3>1. \A y \in S : y \notin good => (rank(y) < n <=> rank(y) < n - 1) 
      BY <2>2, <2>3
    <3>2. \A y \in S : rank(y) < n - 1 => <<y, o>> \in R
      BY <1>4, <2>1
    <3>3. seen(n) = seen(n - 1) \cup {o}
      BY <2>1, <2>2, <3>1, <3>2
    <3> QED BY <2>3, <3>3 DEF o
  <2>4. CASE o \notin good
    <3>1. ASSUME NEW x \in S, rank(x) < n PROVE <<o, x>> \notin R
      <4>1. ~(n - 1 < rank(x))
        BY <1>3, <2>1, <3>1
      <4> QED BY <1>4, <2>1, <4>1
    <3>2. rank(o) < n
      BY <2>1
    <3>3. seen(n) = {}
      BY <2>1, <2>4, <3>1, <3>2
    <3> QED BY <2>4, <3>3 DEF o
  <2> QED BY <2>3, <2>4
<1> HIDE DEF seen, next
<1>7. Steps(closed)
  <2>1. ASSUME NEW n \in 0..N
        PROVE  seen(n) = IF n = 0 THEN {} ELSE next(n, closed[n - 1])
    <3>1. CASE n = 0
      BY <1>5, <3>1
    <3>2. CASE n # 0
      <4>1. n \in 1..N /\ n - 1 \in 0..N
        BY <1>2, <3>2
      <4>2. closed[n - 1] = seen(n - 1)
        BY <4>1
      <4> QED BY <1>6, <3>2, <4>1, <4>2
    <3> QED BY <3>1, <3>2
  <2> QED BY <2>1 DEF next
<1>8. Steps(streak)
  BY <1>7
<1>9. ASSUME NEW f, Steps(f) PROVE Follows(f, N, order, good)
  <2> DEFINE kept(n) == IF n = 0 THEN {} ELSE IF order[n] \in good THEN f[n - 1] \cup {order[n]} ELSE {}
  <2>1. f = [n \in 0..N |-> kept(n)]
    BY ONLY <1>9, Zenon
  <2>2. \A n \in 0..N : f[n] = kept(n)
    <3> HIDE DEF kept
    <3> QED BY <2>1
  <2>3. f[0] = {}
    <3>1. 0 \in 0..N
      BY <1>2
    <3>2. f[0] = kept(0)
      <4> HIDE DEF kept
      <4> QED BY <2>2, <3>1
    <3> QED BY <3>2, Zenon
  <2>4. ASSUME NEW n \in 1..N PROVE f[n] = IF order[n] \in good THEN f[n - 1] \cup {order[n]} ELSE {}
    <3>1. n \in 0..N /\ n # 0
      BY <1>2
    <3> QED BY <2>2, <3>1
  <2> QED BY <2>3, <2>4 DEF Follows
<1>10. streak[N] = seen(N)
  <2> HIDE DEF streak, closed, Steps
  <2>1. Follows(streak, N, order, good) /\ Follows(closed, N, order, good)
    BY <1>7, <1>8, <1>9
  <2>2. streak[N] = closed[N]
    BY <1>2, <2>1, SameSteps
  <2> QED BY <1>2, <2>2 DEF closed
<1>11. seen(N) = {x \in S : \A y \in S : y \notin good => <<y, x>> \in R}
  BY <1>3 DEF seen
<1>12. Streak(S, R, good) = streak[N]
  BY DEF Streak, N, order, next
<1> QED BY <1>10, <1>11, <1>12

\* Earlier first, and of the same time the lower first.
LEMMA TimeOrders ==
    ASSUME NEW D, D \subseteq Nat, NEW at, \A x \in D : at[x] \in Nat, NEW S, S \subseteq D, NEW R,
           \A x, y \in D : <<x, y>> \in R <=> at[x] < at[y] \/ (at[x] = at[y] /\ x < y)
    PROVE  StrictOrder(S, R)
<1>1. ASSUME NEW x \in S PROVE <<x, x>> \notin R
  <2>1. x \in D /\ x \in Nat /\ at[x] \in Nat
    OBVIOUS
  <2>2. ~(at[x] < at[x]) /\ ~(x < x)
    BY <2>1
  <2> QED BY <2>1, <2>2
<1>2. ASSUME NEW x \in S, NEW y \in S PROVE x = y \/ <<x, y>> \in R \/ <<y, x>> \in R
  <2>1. x \in D /\ y \in D /\ x \in Nat /\ y \in Nat /\ at[x] \in Nat /\ at[y] \in Nat
    OBVIOUS
  <2>2. \/ at[x] < at[y] \/ (at[x] = at[y] /\ x < y) \/ x = y
        \/ at[y] < at[x] \/ (at[y] = at[x] /\ y < x)
    BY <2>1
  <2> QED BY <2>1, <2>2
<1>3. ASSUME NEW x \in S, NEW y \in S, NEW z \in S, <<x, y>> \in R, <<y, z>> \in R PROVE <<x, z>> \in R
  <2>1. /\ x \in D /\ y \in D /\ z \in D /\ x \in Nat /\ y \in Nat /\ z \in Nat
        /\ at[x] \in Nat /\ at[y] \in Nat /\ at[z] \in Nat
    OBVIOUS
  <2>2. /\ at[x] < at[y] \/ (at[x] = at[y] /\ x < y)
        /\ at[y] < at[z] \/ (at[y] = at[z] /\ y < z)
    BY <1>3, <2>1
  <2>3. at[x] < at[z] \/ (at[x] = at[z] /\ x < z)
    BY <2>1, <2>2
  <2> QED BY <2>1, <2>3
<1> QED BY <1>1, <1>2, <1>3 DEF StrictOrder

-----------------------------------------------------------------------------
(* What the streaks are *)

LEMMA EvalsOrdered ==
    ASSUME TrustTypeOK, NEW category
    PROVE  IsFiniteSet(Results(category)) /\ StrictOrder(Results(category), Clocked)
<1> DEFINE D == DOMAIN evals
           at == [i \in D |-> evals[i].at]
<1>1. Len(evals) \in Nat /\ D = 1..Len(evals)
  BY DEF TrustTypeOK
<1>2. ASSUME NEW i \in D PROVE evals[i].at \in Nat
  <2>1. i \in 1..Len(evals)
    BY <1>1
  <2> DEFINE E == [case : 1..(MaxEvals + 1), declared : Categories, category : Categories \cup {"none"},
                   outcome : {"pass", "fail", "skipped"}, policy : Policies \cup {None}, at : 1..2]
  <2>2. evals \in Seq(E)
    BY DEF TrustTypeOK
  <2>3. evals[i] \in E
    <3> HIDE DEF E
    <3> QED BY <2>1, <2>2
  <2> QED BY <2>3
<1>3. D \subseteq Nat /\ IsFiniteSet(D)
  BY <1>1, FS_Interval
<1>4. Results(category) \in SUBSET D
  BY DEF Results
<1>5. \A x, y \in D : <<x, y>> \in Clocked <=> evals[x].at < evals[y].at \/ (evals[x].at = evals[y].at /\ x < y)
  BY DEF Clocked
<1>6. IsFiniteSet(Results(category))
  BY <1>3, <1>4, FS_Subset
<1>7. /\ \A x \in D : at[x] \in Nat
      /\ \A x, y \in D : <<x, y>> \in Clocked <=> at[x] < at[y] \/ (at[x] = at[y] /\ x < y)
  BY <1>2, <1>5
<1>8. StrictOrder(Results(category), Clocked)
  <2> HIDE DEF D, at
  <2> QED BY <1>3, <1>4, <1>7, TimeOrders
<1> QED BY <1>6, <1>8

LEMMA MergesOrdered ==
    ASSUME TrustTypeOK, NEW rows, NEW category
    PROVE  IsFiniteSet(OnTable(rows, category)) /\ StrictOrder(OnTable(rows, category), MergedBefore)
<1> DEFINE at == [q \in Prs |-> pulls[q].since]
<1>1. MaxPrs \in Nat
  BY TrustAssumption
<1>2. \A q \in Prs : pulls[q].since \in Nat
  BY TrustAssumption DEF TrustTypeOK
<1>3. Prs \subseteq Nat /\ IsFiniteSet(Prs)
  BY <1>1, FS_Interval DEF Prs
<1>4. OnTable(rows, category) \in SUBSET Prs
  BY DEF OnTable
<1>5. \A x, y \in Prs :
        <<x, y>> \in MergedBefore <=> pulls[x].since < pulls[y].since \/ (pulls[x].since = pulls[y].since /\ x < y)
  BY DEF MergedBefore
<1>6. IsFiniteSet(OnTable(rows, category))
  BY <1>3, <1>4, FS_Subset
<1>7. /\ \A x \in Prs : at[x] \in Nat
      /\ \A x, y \in Prs : <<x, y>> \in MergedBefore <=> at[x] < at[y] \/ (at[x] = at[y] /\ x < y)
  BY <1>2, <1>5
<1>8. StrictOrder(OnTable(rows, category), MergedBefore)
  <2> HIDE DEF at
  <2> QED BY <1>3, <1>4, <1>7, TimeOrders
<1> QED BY <1>6, <1>8

\* The evaluations of a category that count are those since the last one that did not pass.
LEMMA EvalStreakIs ==
    ASSUME TrustTypeOK, NEW category
    PROVE  EvalStreak(category) = Since([i \in DOMAIN evals |-> evals[i].category], category)
<1>1. EvalStreak(category) =
        {x \in Results(category) : \A y \in Results(category) : y \notin Passed => <<y, x>> \in Clocked}
  BY EvalsOrdered, StreakIs DEF EvalStreak
<1> QED BY <1>1 DEF Results, Since

LEMMA EvalsCounted ==
    ASSUME TrustTypeOK
    PROVE  EvalsTrusted
<1>1. \A category : EvalStreak(category) = Since([i \in DOMAIN evals |-> evals[i].category], category)
  BY EvalStreakIs
<1> QED BY <1>1 DEF EvalsTrusted, EvalTrust, Earned

\* A streak that is long enough holds the last pull requests of the category.
LEMMA NewestCount ==
    ASSUME TrustTypeOK, NEW rows, NEW category, LiveTrust(rows, category)
    PROVE  /\ Cardinality(OnTable(rows, category)) >= LiveMin
           /\ \A q \in Newest(rows, category) : Counts(rows[q], q)
<1> DEFINE S == OnTable(rows, category)
           good == {q \in Prs : Counts(rows[q], q)}
           streak == LiveStreak(rows, category)
<1>1. IsFiniteSet(S) /\ StrictOrder(S, MergedBefore)
  BY MergesOrdered
<1>2. streak = {x \in S : \A y \in S : y \notin good => <<y, x>> \in MergedBefore}
  <2> HIDE DEF S, good
  <2>1. Streak(S, MergedBefore, good) = {x \in S : \A y \in S : y \notin good => <<y, x>> \in MergedBefore}
    BY <1>1, StreakIs
  <2> QED BY <2>1 DEF LiveStreak, S, good
<1>3. Cardinality(streak) >= LiveMin /\ LiveMin \in Nat
  BY TrustAssumption DEF LiveTrust
<1>4. S \subseteq Prs
  BY DEF OnTable
<1> HIDE DEF S, good, streak
<1>5. Cardinality(S) >= LiveMin
  <2>1. streak \in SUBSET S
    BY <1>2
  <2>2. IsFiniteSet(streak) /\ Cardinality(streak) <= Cardinality(S)
    BY <1>1, <2>1, FS_Subset
  <2>3. Cardinality(streak) \in Nat /\ Cardinality(S) \in Nat
    BY <1>1, <2>2, FS_CardinalityType
  <2> QED BY <1>3, <2>2, <2>3
<1>6. ASSUME NEW q \in S, Cardinality({r \in S : <<q, r>> \in MergedBefore}) < LiveMin PROVE q \in good
  <2> DEFINE later == {r \in S : <<q, r>> \in MergedBefore}
  <2>1. SUFFICES ASSUME q \notin good PROVE FALSE
    OBVIOUS
  <2>2. streak \in SUBSET later /\ later \in SUBSET S
    BY <1>2, <2>1
  <2>3. IsFiniteSet(later)
    <3> HIDE DEF later
    <3> QED BY <1>1, <2>2, FS_Subset
  <2>4. IsFiniteSet(streak) /\ Cardinality(streak) <= Cardinality(later)
    <3> HIDE DEF later
    <3> QED BY <2>2, <2>3, FS_Subset
  <2>5. Cardinality(streak) \in Nat /\ Cardinality(later) \in Nat
    <3> HIDE DEF later
    <3> QED BY <2>3, <2>4, FS_CardinalityType
  <2> QED BY <1>3, <1>6, <2>4, <2>5
<1> QED BY <1>5, <1>6 DEF Newest, S, good

-----------------------------------------------------------------------------
(* What the table says *)

\* The kinds and the label of a pull request: one that has a kind on record is of this kind,
\* one that is on the table was merged, and a label that counts came late enough.
Labelled ==
    \A q \in Prs :
        /\ known[q].category \in Categories => pulls[q].phase # "none" /\ Classify(pulls[q].files) = known[q].category
        /\ table[q].outcome # "none" => pulls[q].phase = "merged"
        /\ pulls[q].stable # 0 =>
            pulls[q].phase = "merged" /\ pulls[q].since + Days <= pulls[q].stable /\ pulls[q].stable <= day

\* StableMeant is not inductive: the table is written from what the labels say.
TrustInductive == TrustTypeOK /\ Labelled /\ StableMeant

LEMMA TrustStarts ==
    ASSUME TrustInit
    PROVE  TrustInductive
<1> USE DEF None
<1>1. /\ {MaxPrs, MaxEvals, MaxMishaps} \subseteq Nat /\ MaxDay \in Nat /\ MaxDay >= 1
  BY TrustAssumption
<1>2. /\ policy = 1 /\ mishaps = 0 /\ day = 1 /\ eligible = 0
      /\ pulls = [p \in Prs |-> NoPr] /\ known = [p \in Prs |-> Unknown] /\ table = [p \in Prs |-> Unseen]
  BY DEF TrustInit
<1> DEFINE Evals == [case : 1..(MaxEvals + 1), declared : Categories, category : Categories \cup {"none"},
                     outcome : {"pass", "fail", "skipped"}, policy : Policies \cup {None}, at : 1..2]
<1>3. evals \in Seq(Evals)
  <2>1. CASE evals = <<>>
    BY <2>1
  <2>2. CASE evals = [i \in 1..(MaxEvals + 1) |-> Result(i, "docs", "docs", "pass", 1)]
    <3>1. \A i \in 1..(MaxEvals + 1) : Result(i, "docs", "docs", "pass", 1) \in Evals
      BY <1>2 DEF Result, Categories, Policies
    <3>2. MaxEvals + 1 \in Nat
      BY <1>1
    <3> HIDE DEF Evals
    <3> QED BY <2>2, <3>1, <3>2
  <2> QED BY <2>1, <2>2 DEF TrustInit
<1>4. policy \in Policies /\ mishaps \in 0..MaxMishaps /\ day \in 1..MaxDay /\ eligible \in 0..MaxPrs
  BY <1>1, <1>2 DEF Policies
<1>5. TrustTypeOK
  BY <1>1, <1>2, <1>3, <1>4 DEF TrustTypeOK, NoPr, Unknown, Unseen, FileKinds
<1>6. Labelled /\ StableMeant
  BY <1>2 DEF Labelled, StableMeant, NoPr, Unknown, Unseen, Categories
<1> QED BY <1>5, <1>6 DEF TrustInductive

\* What an assessment writes into the table.
LEMMA RowsMeant ==
    ASSUME TrustInductive, NEW category \in Categories, NEW seen, seen \subseteq Candidates(category),
           table' = Synchronized(seen), UNCHANGED <<pulls, day>>
    PROVE  /\ table' \in [Prs -> [outcome : {"none", "unknown", "failed", "stable"}, category : Categories \cup {"none"},
                                  policy : Policies \cup {None}, verified : 0..MaxDay]]
           /\ \A q \in Prs : table'[q].outcome # "none" => pulls[q].phase = "merged"
           /\ StableMeant'
<1> DEFINE Row == [outcome : {"none", "unknown", "failed", "stable"}, category : Categories \cup {"none"},
                   policy : Policies \cup {None}, verified : 0..MaxDay]
<1>1. TrustTypeOK /\ Labelled /\ StableMeant
  BY DEF TrustInductive
<1>2. ASSUME NEW q \in seen
      PROVE  /\ Observed(q) \in Row /\ pulls[q].phase = "merged"
             /\ Observed(q).outcome = "stable" =>
                    /\ pulls[q].merger = "human"
                    /\ pulls[q].since + Days <= Observed(q).verified /\ Observed(q).verified <= day
                    /\ Classify(pulls[q].files) = Observed(q).category
  <2>1. q \in Prs /\ known[q].category = category /\ pulls[q].phase = "merged"
    BY DEF Candidates
  <2>2. known[q].policy \in Policies \cup {None} /\ pulls[q].stable \in 0..MaxDay /\ 0 \in 0..MaxDay
    BY <1>1, <2>1, TrustAssumption DEF TrustTypeOK
  <2>3. Observed(q) \in Row
    BY <2>1, <2>2 DEF Observed
  <2>4. Observed(q).outcome = "stable" =>
            /\ pulls[q].merger = "human" /\ pulls[q].stable # 0 /\ Observed(q).verified = pulls[q].stable
            /\ Observed(q).category = known[q].category
    BY DEF Observed
  <2>5. /\ Classify(pulls[q].files) = known[q].category
        /\ pulls[q].stable # 0 => pulls[q].since + Days <= pulls[q].stable /\ pulls[q].stable <= day
    BY <1>1, <2>1 DEF Labelled
  <2> QED BY <2>1, <2>3, <2>4, <2>5
<1>3. \A q \in Prs : table[q] \in Row
  BY <1>1 DEF TrustTypeOK
<1>4. \A q \in Prs : table'[q] = IF q \in seen THEN Observed(q) ELSE table[q]
  BY DEF Synchronized
<1> HIDE DEF Row
<1>5. table' \in [Prs -> Row]
  BY <1>2, <1>3 DEF Synchronized
<1>6. \A q \in Prs : table'[q].outcome # "none" => pulls[q].phase = "merged"
  BY <1>1, <1>2, <1>4 DEF Labelled
<1>7. StableMeant'
  BY <1>1, <1>2, <1>4 DEF StableMeant
<1> QED BY <1>5, <1>6, <1>7 DEF Row

\* An assessment that was answered, of whatever came of it, records a kind that the files have.
LEMMA AssessmentKept ==
    ASSUME TrustInductive, NEW p \in Prs, pulls[p].phase \in {"open", "merged"},
           NEW category \in {"ineligible", Classify(pulls[p].files)}, Recorded(p, category),
           table' = table \/ (category \in Categories /\ \E seen \in SUBSET Candidates(category) : table' = Synchronized(seen)),
           mishaps' \in 0..MaxMishaps, eligible' \in {None, p}, UNCHANGED <<policy, day, pulls, evals>>
    PROVE  TrustInductive'
<1>1. TrustTypeOK /\ Labelled /\ StableMeant
  BY DEF TrustInductive
<1>2. category \in Categories \cup {"ineligible"}
  BY DEF Classify, Categories
<1>3. known' \in [Prs -> [category : Categories \cup {"ineligible", "none"}, policy : Policies \cup {None}]]
  BY <1>1, <1>2 DEF Recorded, TrustTypeOK
<1>4. /\ table' \in [Prs -> [outcome : {"none", "unknown", "failed", "stable"}, category : Categories \cup {"none"},
                             policy : Policies \cup {None}, verified : 0..MaxDay]]
      /\ \A q \in Prs : table'[q].outcome # "none" => pulls[q].phase = "merged"
      /\ StableMeant'
  <2>1. CASE table' = table
    BY <1>1, <2>1 DEF TrustTypeOK, Labelled, StableMeant
  <2>2. CASE category \in Categories /\ \E seen \in SUBSET Candidates(category) : table' = Synchronized(seen)
    BY <2>2, RowsMeant
  <2> QED BY <2>1, <2>2
<1>5. eligible' \in 0..MaxPrs
  BY TrustAssumption DEF Prs, None
<1>6. TrustTypeOK'
  BY <1>1, <1>3, <1>4, <1>5 DEF TrustTypeOK
<1>7. \A q \in Prs : known'[q].category \in Categories =>
            pulls[q].phase # "none" /\ Classify(pulls[q].files) = known'[q].category
  <2>1. ASSUME NEW q \in Prs, known'[q].category \in Categories
        PROVE  pulls[q].phase # "none" /\ Classify(pulls[q].files) = known'[q].category
    <3>1. CASE q = p
      <4>1. known'[q].category = category
        BY <1>1, <3>1 DEF Recorded, TrustTypeOK
      <4> QED BY <2>1, <3>1, <4>1 DEF Categories
    <3>2. CASE q # p
      <4>1. known'[q] = known[q]
        BY <1>1, <3>2 DEF Recorded, TrustTypeOK
      <4> QED BY <1>1, <2>1, <4>1 DEF Labelled
    <3> QED BY <3>1, <3>2
  <2> QED BY <2>1
<1>8. Labelled'
  BY <1>1, <1>4, <1>7 DEF Labelled
<1> QED BY <1>4, <1>6, <1>8 DEF TrustInductive

\* A change on GitHub of the pull request p, which stays the kind it is.
LEMMA PullKept ==
    ASSUME TrustInductive, NEW p \in Prs, NEW new, pulls' = [pulls EXCEPT ![p] = new],
           new \in [phase : {"none", "open", "merged"}, files : SUBSET FileKinds, made : Policies \cup {None},
                    merger : {"none", "human", "unapproved", "bot", "moved"}, since : 0..MaxDay,
                    labelled : BOOLEAN, stable : 0..MaxDay, failed : BOOLEAN],
           pulls[p].phase # "none" => new.phase # "none" /\ new.files = pulls[p].files,
           pulls[p].phase = "merged" => new.phase = "merged" /\ new.merger = pulls[p].merger /\ new.since = pulls[p].since,
           new.stable # 0 => new.phase = "merged" /\ new.since + Days <= new.stable /\ new.stable <= day,
           mishaps' \in 0..MaxMishaps, UNCHANGED <<policy, day, known, table, evals, eligible>>
    PROVE  TrustInductive'
<1>1. TrustTypeOK /\ Labelled /\ StableMeant
  BY DEF TrustInductive
<1>2. \A q \in Prs : pulls'[q] = IF q = p THEN new ELSE pulls[q]
  BY <1>1 DEF TrustTypeOK
<1>3. TrustTypeOK'
  BY <1>1 DEF TrustTypeOK
<1>4. Labelled'
  <2>1. ASSUME NEW q \in Prs
        PROVE  /\ known[q].category \in Categories =>
                    pulls'[q].phase # "none" /\ Classify(pulls'[q].files) = known[q].category
               /\ table[q].outcome # "none" => pulls'[q].phase = "merged"
               /\ pulls'[q].stable # 0 =>
                    pulls'[q].phase = "merged" /\ pulls'[q].since + Days <= pulls'[q].stable /\ pulls'[q].stable <= day
    BY <1>1, <1>2 DEF Labelled
  <2> QED BY <2>1 DEF Labelled
<1>5. StableMeant'
  <2>1. ASSUME NEW q \in Prs, table[q].outcome = "stable"
        PROVE  /\ pulls'[q].merger = "human"
               /\ pulls'[q].since + Days <= table[q].verified /\ table[q].verified <= day
               /\ Classify(pulls'[q].files) = table[q].category
    <3>1. pulls[q].phase = "merged"
      BY <1>1, <2>1 DEF Labelled
    <3> QED BY <1>1, <1>2, <2>1, <3>1 DEF StableMeant
  <2> QED BY <2>1 DEF StableMeant
<1> QED BY <1>3, <1>4, <1>5 DEF TrustInductive

LEMMA FiledKept ==
    ASSUME TrustInductive, NEW seen \in [Categories -> Categories \cup {"none"}], Filed(seen)
    PROVE  TrustInductive'
<1>1. TrustTypeOK /\ Labelled /\ StableMeant
  BY DEF TrustInductive
<1> DEFINE Evals == [case : 1..(MaxEvals + 1), declared : Categories, category : Categories \cup {"none"},
                     outcome : {"pass", "fail", "skipped"}, policy : Policies \cup {None}, at : 1..2]
<1>2. PICK case \in 1..2, declared \in Categories, outcome \in {"pass", "fail", "skipped"}, at \in 1..2 :
        evals' = Append(evals, Result(case, declared, seen[declared], outcome, at))
  BY DEF Filed
<1>3. MaxEvals \in Nat /\ Len(evals) \in Nat /\ Len(evals) < MaxEvals
  BY <1>1, TrustAssumption DEF Filed, TrustTypeOK
<1>4. Result(case, declared, seen[declared], outcome, at) \in Evals
  <2>1. case \in 1..(MaxEvals + 1)
    BY <1>3
  <2> QED BY <1>1, <2>1 DEF Result, TrustTypeOK
<1>5. evals' \in Seq(Evals)
  <2>1. evals \in Seq(Evals)
    BY <1>1 DEF TrustTypeOK
  <2> HIDE DEF Evals
  <2> QED BY <1>2, <1>4, <2>1
<1>6. TrustTypeOK'
  BY <1>1, <1>5 DEF Filed, TrustTypeOK
<1>7. Labelled' /\ StableMeant'
  BY <1>1 DEF Filed, Labelled, StableMeant
<1> QED BY <1>6, <1>7 DEF TrustInductive

LEMMA TrustKept ==
    ASSUME TrustInductive, [TrustNext]_trustVars
    PROVE  TrustInductive'
<1>1. TrustTypeOK /\ Labelled /\ StableMeant
  BY DEF TrustInductive
<1>2. /\ MaxMishaps \in Nat /\ MaxDay \in Nat /\ Days \in Nat
      /\ mishaps \in 0..MaxMishaps /\ day \in 1..MaxDay
  BY <1>1, TrustAssumption DEF TrustTypeOK
<1>3. Mishap => mishaps' \in 0..MaxMishaps
  BY <1>2 DEF Mishap
<1>4. CASE UNCHANGED trustVars
  BY <1>1, <1>4 DEF trustVars, TrustInductive, TrustTypeOK, Labelled, StableMeant
<1>5. CASE Tomorrow
  <2>1. day' = day + 1 /\ day' \in 1..MaxDay /\ UNCHANGED <<policy, mishaps, pulls, known, table, evals, eligible>>
    BY <1>2, <1>5 DEF Tomorrow
  <2>2. TrustTypeOK'
    BY <1>1, <2>1 DEF TrustTypeOK
  <2>3. \A n \in 0..MaxDay : n <= day => n <= day'
    BY <1>2, <2>1
  <2>4. \A q \in Prs : pulls[q].stable \in 0..MaxDay /\ table[q].verified \in 0..MaxDay
    BY <1>1 DEF TrustTypeOK
  <2>5. Labelled' /\ StableMeant'
    BY <1>1, <2>1, <2>3, <2>4 DEF Labelled, StableMeant
  <2> QED BY <2>2, <2>5 DEF TrustInductive
<1>6. CASE ChangePolicy
  <2>1. mishaps' \in 0..MaxMishaps /\ policy' \in Policies /\ UNCHANGED <<day, pulls, known, table, evals, eligible>>
    BY <1>3, <1>6 DEF ChangePolicy
  <2>2. TrustTypeOK'
    BY <1>1, <2>1 DEF TrustTypeOK
  <2>3. Labelled' /\ StableMeant'
    BY <1>1, <2>1 DEF Labelled, StableMeant
  <2> QED BY <2>2, <2>3 DEF TrustInductive
<1>7. CASE Evaluate \/ File
  BY <1>7, FiledKept DEF Evaluate, File
<1>8. ASSUME NEW p \in Prs, DryRun(p) PROVE TrustInductive'
  <2> DEFINE category == Classify(pulls[p].files)
  <2>1. /\ pulls[p].phase \in {"open", "merged"} /\ category # "ineligible"
        /\ table' = Synchronized(Candidates(category)) /\ Recorded(p, category)
        /\ eligible' \in {None, p} /\ UNCHANGED <<policy, mishaps, day, pulls, evals>>
    BY <1>8 DEF DryRun
  <2>2. category \in Categories /\ Candidates(category) \in SUBSET Candidates(category)
    BY <2>1 DEF Classify, Categories
  <2>3. mishaps' \in 0..MaxMishaps
    BY <1>2, <2>1
  <2> HIDE DEF category
  <2> QED BY <2>1, <2>2, <2>3, AssessmentKept DEF category
<1>9. ASSUME NEW p \in Prs, Refuse(p) PROVE TrustInductive'
  <2>1. /\ pulls[p].phase \in {"open", "merged"} /\ mishaps' \in 0..MaxMishaps
        /\ eligible' \in {None, p} /\ UNCHANGED <<policy, day, pulls, evals>>
    BY <1>3, <1>9 DEF Refuse
  <2>2. CASE Recorded(p, "ineligible") /\ UNCHANGED table
    BY <2>1, <2>2, AssessmentKept
  <2>3. CASE LET category == Classify(pulls[p].files)
             IN  /\ category # "ineligible"
                 /\ \E seen \in SUBSET Candidates(category) : table' = Synchronized(seen)
                 /\ Recorded(p, category)
    <3> DEFINE category == Classify(pulls[p].files)
    <3>1. category \in Categories
      BY <2>3 DEF Classify, Categories
    <3> QED BY <2>1, <2>3, <3>1, AssessmentKept
  <2> QED BY <1>9, <2>2, <2>3 DEF Refuse
<1> DEFINE Pull == [phase : {"none", "open", "merged"}, files : SUBSET FileKinds, made : Policies \cup {None},
                    merger : {"none", "human", "unapproved", "bot", "moved"}, since : 0..MaxDay,
                    labelled : BOOLEAN, stable : 0..MaxDay, failed : BOOLEAN]
<1>10. /\ pulls \in [Prs -> Pull] /\ policy \in Policies
       /\ \A q \in Prs : pulls[q].stable # 0 =>
            pulls[q].phase = "merged" /\ pulls[q].since + Days <= pulls[q].stable /\ pulls[q].stable <= day
  BY <1>1 DEF TrustTypeOK, Labelled
<1>11. ASSUME NEW p \in Prs, Open(p) PROVE TrustInductive'
  <2>1. PICK files \in FileSets : pulls' = [pulls EXCEPT ![p].phase = "open", ![p].files = files, ![p].made = policy]
    BY <1>11 DEF Open
  <2> DEFINE new == [pulls[p] EXCEPT !.phase = "open", !.files = files, !.made = policy]
  <2>2. /\ pulls[p].phase = "none" /\ pulls' = [pulls EXCEPT ![p] = new] 
        /\ UNCHANGED <<policy, mishaps, day, known, table, evals, eligible>>
    BY <1>10, <1>11, <2>1 DEF Open
  <2>3. files \in SUBSET FileKinds
    BY TrustAssumption DEF FileKinds
  <2>4. new \in Pull /\ new.stable = pulls[p].stable
    BY <1>10, <2>3
  <2>5. new.stable = 0
    BY <1>10, <2>2, <2>4
  <2> HIDE DEF new
  <2> QED BY <1>2, <2>2, <2>4, <2>5, PullKept
<1>12. ASSUME NEW p \in Prs, Merge(p) PROVE TrustInductive'
  <2>1. PICK merger \in {"human", "unapproved", "bot", "moved"} :
            /\ pulls' = [pulls EXCEPT ![p].phase = "merged", ![p].merger = merger, ![p].since = day]
            /\ IF merger = "human" THEN UNCHANGED mishaps ELSE Mishap
    BY <1>12 DEF Merge
  <2> DEFINE new == [pulls[p] EXCEPT !.phase = "merged", !.merger = merger, !.since = day]
  <2>2. /\ pulls[p].phase = "open" /\ pulls' = [pulls EXCEPT ![p] = new]
        /\ mishaps' \in 0..MaxMishaps /\ UNCHANGED <<policy, day, known, table, evals, eligible>>
    BY <1>2, <1>3, <1>10, <1>12, <2>1 DEF Merge
  <2>3. day \in 0..MaxDay
    BY <1>2
  <2>4. new \in Pull /\ new.stable = pulls[p].stable /\ new.phase = "merged" /\ new.files = pulls[p].files
    BY <1>10, <2>3
  <2>5. new.stable = 0
    BY <1>10, <2>2, <2>4
  <2> HIDE DEF new
  <2> QED BY <1>2, <2>2, <2>4, <2>5, PullKept
<1>13. ASSUME NEW p \in Prs, Label(p) PROVE TrustInductive'
  <2>1. PICK judge \in BOOLEAN :
            pulls' = [pulls EXCEPT ![p].labelled = TRUE,
                        ![p].stable = IF judge /\ @ = 0 /\ day >= pulls[p].since + Days THEN day ELSE @]
    BY <1>13 DEF Label
  <2> DEFINE stable == IF judge /\ pulls[p].stable = 0 /\ day >= pulls[p].since + Days THEN day ELSE pulls[p].stable
             new == [pulls[p] EXCEPT !.labelled = TRUE, !.stable = stable]
  <2>2. /\ pulls[p].phase = "merged" /\ pulls' = [pulls EXCEPT ![p] = new]
        /\ UNCHANGED <<policy, mishaps, day, known, table, evals, eligible>>
    BY <1>10, <1>13, <2>1 DEF Label
  <2>3. pulls[p].since \in 0..MaxDay /\ pulls[p].stable \in 0..MaxDay /\ day \in 0..MaxDay
    BY <1>2, <1>10
  <2>4. stable \in 0..MaxDay /\ (stable # 0 => pulls[p].since + Days <= stable /\ stable <= day)
    BY <1>2, <1>10, <2>3
  <2> HIDE DEF stable
  <2>5. /\ new \in Pull /\ new.stable = stable /\ new.phase = pulls[p].phase /\ new.files = pulls[p].files
        /\ new.merger = pulls[p].merger /\ new.since = pulls[p].since
    BY <1>10, <2>4
  <2> HIDE DEF new
  <2> QED BY <1>2, <2>2, <2>4, <2>5, PullKept
<1>14. ASSUME NEW p \in Prs, Unlabel(p) \/ Fail(p) PROVE TrustInductive'
  <2>1. PICK labelled \in BOOLEAN, failed \in BOOLEAN :
            pulls' = [pulls EXCEPT ![p] = [pulls[p] EXCEPT !.labelled = labelled, !.failed = failed]]
    <3>1. CASE Unlabel(p)
      <4>1. pulls' = [pulls EXCEPT ![p] = [pulls[p] EXCEPT !.labelled = FALSE, !.failed = pulls[p].failed]]
        BY <1>10, <3>1 DEF Unlabel
      <4>2. pulls[p].failed \in BOOLEAN
        BY <1>10
      <4> QED BY <4>1, <4>2
    <3>2. CASE Fail(p)
      <4>1. pulls' = [pulls EXCEPT ![p] = [pulls[p] EXCEPT !.labelled = pulls[p].labelled, !.failed = TRUE]]
        BY <1>10, <3>2 DEF Fail
      <4>2. pulls[p].labelled \in BOOLEAN
        BY <1>10
      <4> QED BY <4>1, <4>2
    <3> QED BY <1>14, <3>1, <3>2
  <2> DEFINE new == [pulls[p] EXCEPT !.labelled = labelled, !.failed = failed]
  <2>2. mishaps' \in 0..MaxMishaps /\ UNCHANGED <<policy, day, known, table, evals, eligible>>
    BY <1>3, <1>14 DEF Unlabel, Fail
  <2>3. /\ new \in Pull /\ new.stable = pulls[p].stable /\ new.phase = pulls[p].phase /\ new.files = pulls[p].files
        /\ new.merger = pulls[p].merger /\ new.since = pulls[p].since
    BY <1>10
  <2>4. pulls' = [pulls EXCEPT ![p] = new]
    BY <2>1
  <2> HIDE DEF new
  <2> QED BY <1>10, <2>2, <2>3, <2>4, PullKept
<1> QED BY <1>4, <1>5, <1>6, <1>7, <1>8, <1>9, <1>11, <1>12, <1>13, <1>14 DEF TrustNext

\* What the labels, the kinds and the table say of each other holds at any time.
THEOREM TrustInductiveInvariance == TrustSpec => []TrustInductive
<1>1. TrustInit => TrustInductive
  BY TrustStarts
<1>2. TrustInductive /\ [TrustNext]_trustVars => TrustInductive'
  BY TrustKept
<1> QED BY <1>1, <1>2, PTL DEF TrustSpec

\* At any time, evaluations are trusted exactly as those since the last that did not pass earn it
\* (calculateEvalTrustStreak), and what the table (synchronizeAutoMergeLiveHistory) calls stable was
\* merged by a person and found stable by a person after the days it takes.
THEOREM TrustMeant == TrustSpec => []TrustInvariant
<1>1. TrustInductive => TrustInvariant
  BY EvalsCounted DEF TrustInductive, TrustInvariant
<1> QED BY <1>1, TrustInductiveInvariance, PTL

LEMMA EligibleStep ==
    ASSUME TrustInductive, [TrustNext]_trustVars,
           eligible' # None, <<known, table, eligible>>' # <<known, table, eligible>>
    PROVE  LET category == Classify(pulls[eligible'].files)
           IN  /\ pulls[eligible'].phase = "open" /\ pulls[eligible'].made = policy
               /\ Earned([i \in DOMAIN evals |-> evals[i].category], category)
               /\ Cardinality(OnTable(table', category)) >= LiveMin
               /\ \A q \in Newest(table', category) :
                    /\ pulls[q].merger = "human" /\ table'[q].policy = policy /\ pulls[q].since + Days <= day
                    /\ q \in Candidates(category) =>
                            pulls[q].labelled /\ ~pulls[q].failed /\ known[q].policy = policy
<1>1. TrustTypeOK /\ Labelled /\ StableMeant
  BY DEF TrustInductive
<1>2. PICK p \in Prs : DryRun(p)
  <2>1. ASSUME UNCHANGED <<known, table, eligible>> PROVE FALSE
    BY <2>1
  <2>2. ASSUME NEW p \in Prs, Refuse(p) PROVE FALSE
    BY <2>2 DEF Refuse
  <2>3. ASSUME NEW p \in Prs, Open(p) \/ Merge(p) \/ Label(p) \/ Unlabel(p) \/ Fail(p) PROVE FALSE
    BY <2>1, <2>3 DEF Open, Merge, Label, Unlabel, Fail
  <2>4. ~(Tomorrow \/ ChangePolicy \/ Evaluate \/ File \/ UNCHANGED trustVars)
    BY <2>1 DEF Tomorrow, ChangePolicy, Evaluate, File, Filed, trustVars
  <2> QED BY <2>2, <2>3, <2>4 DEF TrustNext
<1> DEFINE category == Classify(pulls[p].files)
           rows == Synchronized(Candidates(category))
<1>3. /\ eligible' = p /\ pulls[p].phase = "open" /\ pulls[p].made = policy /\ category # "ineligible"
      /\ table' = rows /\ LiveTrust(rows, category) /\ EvalTrust(category) /\ UNCHANGED <<pulls, day>>
  BY <1>2 DEF DryRun
<1>4. category \in Categories
  BY <1>3 DEF Classify, Categories
<1>5. Earned([i \in DOMAIN evals |-> evals[i].category], category)
  BY <1>1, <1>3, <1>4, EvalsCounted DEF EvalsTrusted
<1>6. Cardinality(OnTable(table', category)) >= LiveMin /\ \A q \in Newest(table', category) : Counts(table'[q], q)
  BY <1>1, <1>3, NewestCount
<1> HIDE DEF category
<1>7. StableMeant'
  BY <1>3, <1>4, RowsMeant
<1>8. ASSUME NEW q \in Newest(table', category)
      PROVE  /\ pulls[q].merger = "human" /\ table'[q].policy = policy /\ pulls[q].since + Days <= day
             /\ q \in Candidates(category) => pulls[q].labelled /\ ~pulls[q].failed /\ known[q].policy = policy
  <2>1. q \in Prs
    BY DEF Newest, OnTable
  <2>2. /\ table'[q].policy = policy /\ table'[q].outcome = "stable"
        /\ table'[q].verified >= pulls[q].since + Days /\ table'[q].verified <= day
    BY <1>6 DEF Counts
  <2>3. pulls[q].merger = "human"
    BY <1>3, <1>7, <2>1, <2>2 DEF StableMeant
  <2>4. pulls[q].since \in Nat /\ table'[q].verified \in Nat /\ day \in Nat /\ Days \in Nat
    <3>1. table' \in [Prs -> [outcome : {"none", "unknown", "failed", "stable"}, category : Categories \cup {"none"},
                              policy : Policies \cup {None}, verified : 0..MaxDay]]
      BY <1>3, <1>4, RowsMeant
    <3>2. table'[q].verified \in 0..MaxDay
      BY <2>1, <3>1
    <3>3. pulls[q].since \in 0..MaxDay /\ day \in 1..MaxDay
      BY <1>1, <2>1 DEF TrustTypeOK
    <3>4. MaxDay \in Nat /\ Days \in Nat
      BY TrustAssumption
    <3> QED BY <3>2, <3>3, <3>4
  <2>5. pulls[q].since + Days <= day
    BY <2>2, <2>4
  <2>6. ASSUME q \in Candidates(category) PROVE pulls[q].labelled /\ ~pulls[q].failed /\ known[q].policy = policy
    <3>1. table'[q] = Observed(q)
      BY <1>3, <2>1, <2>6 DEF Synchronized
    <3> QED BY <2>2, <3>1 DEF Observed
  <2> QED BY <2>2, <2>3, <2>5, <2>6
<1> QED BY <1>3, <1>5, <1>6, <1>8 DEF category

\* A pull request is found eligible (evaluateAutoMergeDryRun) only while the evaluations of its
\* kind, and the last pull requests of its kind on the table, as GitHub shows them now, have earned it.
THEOREM EligibilityEarned == TrustSpec => EligibleEarned
<1>1. TrustInductive /\ [TrustNext]_trustVars =>
        [eligible' # None /\ <<known, table, eligible>>' # <<known, table, eligible>> =>
            LET category == Classify(pulls[eligible'].files)
            IN  /\ pulls[eligible'].phase = "open" /\ pulls[eligible'].made = policy
                /\ Earned([i \in DOMAIN evals |-> evals[i].category], category)
                /\ Cardinality(OnTable(table', category)) >= LiveMin
                /\ \A q \in Newest(table', category) :
                    /\ pulls[q].merger = "human" /\ table'[q].policy = policy /\ pulls[q].since + Days <= day
                    /\ q \in Candidates(category) =>
                            pulls[q].labelled /\ ~pulls[q].failed /\ known[q].policy = policy]_trustVars
  BY EligibleStep
<1> QED BY <1>1, TrustInductiveInvariance, PTL DEF TrustSpec, EligibleEarned
=============================================================================
