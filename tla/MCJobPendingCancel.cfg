SPECIFICATION Spec
CONSTANTS
    NTargets = 2
    MaxWorkers = 2
    Kinds = {"script"}
    Canceller = {"view"}
    Handler = {h1}
    MaxReports = 1
    Faults = {}
CHECK_DEADLOCK FALSE
INVARIANT
    PendingCancelHasNoEffect
