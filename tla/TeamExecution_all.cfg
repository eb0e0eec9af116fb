SPECIFICATION FairSpec
CONSTANTS
    PlanTexts <- AllTexts
    MaxTeamTasks = 3
    MaxTeamDepth = 2
INVARIANTS TeamInvariant GatedIntegration
PROPERTY TeamEnds
CHECK_DEADLOCK FALSE
