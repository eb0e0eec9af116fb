------------------------------ MODULE FencedRun ------------------------------
(***************************************************************************)
(* What the checkpoint table promises about one run: its progress and its  *)
(* outcome are written by the current holder only, every write is a new    *)
(* version, the outcome is decided in the very step that gives the lease   *)
(* up, and a closed run is never written again. A run that never opened    *)
(* may be abandoned; a parked one (a pull request that could not be        *)
(* delivered) keeps its outcome and may be reopened.                       *)
(***************************************************************************)
EXTENDS Naturals

CONSTANTS Holders, NoHolder

VARIABLES stage, holder, version, outcome

vars == <<stage, holder, version, outcome>>

Init ==
  /\ stage = "none" /\ holder = NoHolder /\ version = 0
  /\ outcome = "undecided"

Abandon ==
  /\ stage = "none"
  /\ outcome' = "FAILED"
  /\ UNCHANGED <<stage, holder, version>>

Open(h) ==
  /\ stage = "none"
  /\ stage' = "open" /\ holder' = h /\ version' = 1
  /\ UNCHANGED outcome

Write(h) ==
  /\ stage = "open" /\ holder = h
  /\ version' = version + 1
  /\ UNCHANGED <<stage, holder, outcome>>

TakeOver(h) ==
  /\ stage = "open" /\ holder # h
  /\ holder' = h /\ version' = version + 1
  /\ UNCHANGED <<stage, outcome>>

Reopen(h) ==
  /\ stage = "parked"
  /\ stage' = "open" /\ holder' = h /\ version' = version + 1
  /\ UNCHANGED outcome

Park(h) ==
  /\ stage = "open" /\ holder = h
  /\ stage' = "parked" /\ holder' = NoHolder /\ version' = version + 1
  /\ outcome' = "DONE"

Close(h, o) ==
  /\ stage = "open" /\ holder = h
  /\ stage' = "closed" /\ holder' = NoHolder /\ version' = version + 1
  /\ outcome' = o

Next ==
  \/ Abandon
  \/ \E h \in Holders :
       \/ Open(h) \/ Write(h) \/ TakeOver(h) \/ Reopen(h) \/ Park(h)
       \/ \E o \in {"DONE", "FAILED"} : Close(h, o)

Spec == Init /\ [][Next]_vars
=============================================================================
