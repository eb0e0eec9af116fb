--------------------------- MODULE MCSpecSessions ---------------------------
(* An instance of SpecSessions for TLC. *)
EXTENDS SpecSessions
=============================================================================
