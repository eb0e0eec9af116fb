---------------------------- MODULE MCMergeTrust ----------------------------
(* An instance of MergeTrust for TLC. *)
EXTENDS MergeTrust
=============================================================================
