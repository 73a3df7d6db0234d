SPECIFICATION Spec
CONSTANTS
    NoTask = NoTask
    Task = {t1}
    CallbackTask = {t1}
    Unaddressed = {}
    Worker = {w1, w2}
    MaxDeliver = 2
    MaxCrash = 1
    Faults = {"publish", "ack", "delivery", "keepalive", "stall", "callback", "loop"}
SYMMETRY Workers
INVARIANTS
    TypeOK
    OnlyLatestClaimOwns
    ReceivedIsRecorded
    SentWasReceived
    StatusCoherent
    RemovedOnlyWhenSettled
PROPERTIES
    ResultIsFinal
    LiveLeaseNotStolen
    ImplementsLedger
