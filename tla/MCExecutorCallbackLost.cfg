SPECIFICATION FairSpec
CONSTANTS
    NoTask = NoTask
    Task = {t1}
    CallbackTask = {t1}
    Unaddressed = {}
    Worker = {w1, w2}
    MaxDeliver = 3
    MaxCrash = 1
    Faults = {}
PROPERTIES
    FinishedTaskCallsBack
