---------------------------- MODULE MCIssueRuns ----------------------------
(* An instance of IssueRuns for TLC. *)
EXTENDS IssueRuns
=============================================================================
