SPECIFICATION FairSpec
CONSTANTS
    Types = {"alert", "no_data"}
    Center = TRUE
    MaxAlerts = 2
    recovery_condition = 2
    MaxRetry = 1
    MaxRequests = 1
    Faults = {"push", "error", "crash"}
INVARIANTS
    TypeOK
    OneActiveAlert
    FlagIsHonest
PROPERTIES
    EndedStaysEnded
    RecoversAfterQuiet
    EndReachesCenter
CHECK_DEADLOCK FALSE
