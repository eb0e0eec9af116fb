--------------------------- MODULE MCSpecPipeline ---------------------------
(* Instances of SpecPipeline: the options of the runs that TLC explores. *)
EXTENDS SpecPipeline

CONSTANTS Routes        \* the rework budget of the instances

Full == [steps |-> Steps, start |-> 1, maxRoutes |-> Routes, clarifyRounds |-> 1, gates |-> {"verify", "runtime"},
         boundary |-> TRUE, checkpointed |-> TRUE, pr |-> FALSE, instruction |-> FALSE, ignored |-> FALSE]

\* Whole workflows: with both gates, with a reproduction command, with a baseline, in pull-request mode.
FullOptions == {Full, [Full EXCEPT !.gates = {"repro", "verify"}, !.clarifyRounds = 0],
                [Full EXCEPT !.gates = {"baseline", "verify"}, !.checkpointed = FALSE],
                [Full EXCEPT !.gates = {"verify"}, !.pr = TRUE, !.instruction = TRUE]}

\* Parts of one: only some steps, and runs resumed at the test or the review step.
PartOptions == {[Full EXCEPT !.steps = {"scaffold", "test"}], [Full EXCEPT !.steps = Steps \ {"planner"}],
                [Full EXCEPT !.start = 4, !.checkpointed = FALSE], [Full EXCEPT !.start = 5, !.checkpointed = FALSE],
                [Full EXCEPT !.start = 4]}

AllOptions == FullOptions \cup PartOptions
AllPlans == {"plan", "plan+cicd", "team"}
=============================================================================
