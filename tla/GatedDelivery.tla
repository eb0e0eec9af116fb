---------------------------- MODULE GatedDelivery ----------------------------
(***************************************************************************)
(* What the spec workflow of src/workflows/spec.ts promises of the code it *)
(* commits or delivers: the gates were passed first, the review came after *)
(* the gates, no scaffold, test or team work came in between, and no more  *)
(* reworks were made than the run was given.  Work of a team has passed    *)
(* the gates, and may be delivered without a review that approved it.      *)
(* SpecPipeline implements it.                                             *)
(***************************************************************************)
EXTENDS Naturals

VARIABLES
    due,        \* what the run has to show: "checked", "approved"
    shown,      \* what it has shown of the code as it is
    byTeam,     \* whether a team made the code, in place of the steps
    left,       \* the reworks it has left
    phase       \* "working", "delivering" or "closed"

dvars == <<due, shown, byTeam, left, phase>>

Marks == {"checked", "approved"}

Init ==
    /\ due \in SUBSET Marks
    /\ shown = {}
    /\ byTeam = FALSE
    /\ left \in Nat
    /\ phase = "working"

Working == phase = "working" /\ UNCHANGED <<due, phase>>

Needed == IF byTeam THEN due \ {"approved"} ELSE due

Edit == Working /\ shown' = {} /\ UNCHANGED <<byTeam, left>>
StartTeam == Working /\ shown' = {} /\ byTeam' = TRUE /\ UNCHANGED left
Check == Working /\ shown' = shown \cup {"checked"} /\ UNCHANGED <<byTeam, left>>

Approve ==
    /\ Working /\ due \ {"approved"} \subseteq shown
    /\ shown' = shown \cup {"approved"}
    /\ UNCHANGED <<byTeam, left>>

\* A rework begins with the steps again, whoever made the code.
Rework == Working /\ left > 0 /\ left' = left - 1 /\ byTeam' = FALSE /\ UNCHANGED shown

Deliver ==
    /\ phase = "working" /\ Needed \subseteq shown
    /\ phase' = "delivering"
    /\ UNCHANGED <<due, shown, byTeam, left>>

\* The review of a run may approve the code and hand it over at once.
ApproveAndDeliver ==
    /\ phase = "working" /\ due \ {"approved"} \subseteq shown
    /\ shown' = shown \cup {"approved"}
    /\ phase' = "delivering"
    /\ UNCHANGED <<due, byTeam, left>>

Close == phase # "closed" /\ phase' = "closed" /\ UNCHANGED <<due, shown, byTeam, left>>

Next == Edit \/ StartTeam \/ Check \/ Approve \/ Rework \/ Deliver \/ ApproveAndDeliver \/ Close

Spec == Init /\ [][Next]_dvars
=============================================================================
