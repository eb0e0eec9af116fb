--------------------------- MODULE MCSpecRecovery ---------------------------
(* Instances of SpecRecovery. *)
EXTENDS SpecRecovery

CONSTANTS Routes        \* the rework budget of the instances

Full == [steps |-> Steps, start |-> 1, maxRoutes |-> Routes, clarifyRounds |-> 1, gates |-> {"verify", "runtime"},
         boundary |-> FALSE, checkpointed |-> TRUE, pr |-> FALSE, instruction |-> FALSE, ignored |-> FALSE]

CrashOptions == {Full, [Full EXCEPT !.gates = {"repro"}, !.clarifyRounds = 0],
                 [Full EXCEPT !.gates = {"baseline", "verify"}, !.ignored = TRUE],
                 [Full EXCEPT !.gates = {"verify"}, !.pr = TRUE, !.clarifyRounds = 0],
                 [Full EXCEPT !.gates = {"verify"}, !.checkpointed = FALSE]}
EditedOptions == {[Full EXCEPT !.gates = {"verify"}, !.pr = TRUE, !.clarifyRounds = 0]}
AllPlans == {"plan", "plan+cicd", "team"}
=============================================================================
