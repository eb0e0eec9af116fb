SPECIFICATION FairSpec
CONSTANTS
    Routes = 1
    Options <- AllOptions
    PlanKinds <- AllPlans
INVARIANTS LoopInvariant EndsWithVerdict NothingStale DeliveredIntact BoundaryKept
PROPERTIES CancelHolds ImplementsGatedDelivery RunEnds
CHECK_DEADLOCK FALSE
