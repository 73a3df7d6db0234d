SPECIFICATION FairSpec
CONSTANTS
    NoTask = NoTask
    Task = {t1}
    CallbackTask = {t1}
    Unaddressed = {}
    Worker = {w1, w2}
    MaxDeliver = 2
    MaxCrash = 0
    Faults = {"ack", "keepalive", "stall", "callback"}
INVARIANTS
    FailedCallbackHasRetry
PROPERTIES
    StoredTaskSettles
    FailedCallbackSettles
