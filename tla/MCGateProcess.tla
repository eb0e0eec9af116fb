--------------------------- MODULE MCGateProcess ---------------------------
(* An instance of GateProcess for TLC: the three gates, one check script. *)
EXTENDS GateProcess
=============================================================================
