SPECIFICATION FairSpec
CONSTANTS
    MaxCrashes = 2
    MaxFailures = 2
    MaxMeddling = 2
    Callers <- Anyone
INVARIANTS DeliveryInvariant AskedAsVerified
PROPERTIES ShaKept 
CHECK_DEADLOCK FALSE
