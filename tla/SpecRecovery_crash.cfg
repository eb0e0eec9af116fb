SPECIFICATION RFairSpec
CONSTANTS
    Routes = 1
    MaxRestarts = 1
    EditedRuns <- EditedOptions
    Options <- CrashOptions
    PlanKinds <- AllPlans
INVARIANTS RecoveryInvariant TornWorkKept FeedbackSurvives
PROPERTIES ProgressKept RunSettles
CHECK_DEADLOCK FALSE
