SPECIFICATION FairSpec
CONSTANTS
    NoTask = NoTask
    Task = {t1, t2}
    CallbackTask = {t1, t2}
    Unaddressed = {t2}
    Worker = {w1, w2}
    MaxDeliver = 3
    MaxCrash = 1
    Faults = {}
INVARIANTS
    SentWasReceived
PROPERTIES
    StoredTaskSettles
