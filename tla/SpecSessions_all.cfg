SPECIFICATION FairSpec
CONSTANTS
    MaxRuns = 3
    MaxShared = 2
    MaxRounds = 2
    Modes = {TRUE, FALSE}
 
PROPERTIES CommitStays RunsSettle
CHECK_DEADLOCK FALSE
