SPECIFICATION TrustSpec
CONSTANTS
    MaxPrs = 1
    MaxDay = 1
    MaxEvals = 2
    MaxMishaps = 0
    FileSets = {{"document"}}
    EvalMin = 2
    CaseMin = 2
    LiveMin = 2
    Days = 1
INVARIANT EvaluationsCount
CHECK_DEADLOCK FALSE
