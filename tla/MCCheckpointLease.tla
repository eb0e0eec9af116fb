-------------------------- MODULE MCCheckpointLease --------------------------
(***************************************************************************)
(* Small instances of CheckpointLease for TLC. p1 and p2 are successive or *)
(* simultaneous servers of one host, cli a command-line process beside     *)
(* them, far a server on another host that shares the database file.       *)
(***************************************************************************)
EXTENDS CheckpointLease

CONSTANTS p1, p2, cli, far

OneHostProcs == {p1, p2, cli}
TwoHostProcs == {p1, p2, far}

HostName(p) == IF p = far THEN "b" ELSE "a"
Pid(p) == CASE p = p1 -> 1 [] p = p2 -> 2 [] OTHER -> 3

OneHostNames == [p \in OneHostProcs |-> "a"]
OneHostPids == [p \in OneHostProcs |-> Pid(p)]
TwoHosts == [p \in TwoHostProcs |-> HostName(p)]
TwoHostPids == [p \in TwoHostProcs |-> Pid(p)]
=============================================================================
