SPECIFICATION TrustSpec
CONSTANTS
    MaxPrs = 3
    MaxDay = 2
    MaxEvals = 3
    MaxMishaps = 1
    FileSets = {{"document"}, {"manifest"}}
    EvalMin = 2
    CaseMin = 2
    LiveMin = 2
    Days = 1
INVARIANT TrustInvariant
PROPERTY EligibleEarned
CHECK_DEADLOCK FALSE
