SPECIFICATION Spec
CONSTANTS
    Runs = {r1, r2}
    Parallel = 2
    Limit = 1
    NoLimit = NoLimit
    Fallback = TRUE
    Watchers = {w}
    DayLength = 2
    MaxTime = 3
CHECK_DEADLOCK FALSE
INVARIANT AgentInvariant
PROPERTY VerdictFinal
