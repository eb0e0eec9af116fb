SPECIFICATION FairSpec
CONSTANTS
    Kinds = {"verify", "repro", "runtime"}
    Checks = 1
INVARIANT GateInvariant
PROPERTY GateEnds
CHECK_DEADLOCK FALSE
