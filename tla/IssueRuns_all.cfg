SPECIFICATION FairSpec
CONSTANTS
    MaxRuns = 2
    MaxEdits = 2
INVARIANT IssueInvariant
PROPERTY IssueReleased
CHECK_DEADLOCK FALSE
