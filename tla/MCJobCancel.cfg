SPECIFICATION Spec
CONSTANTS
    NTargets = 3
    MaxWorkers = 2
    Kinds = {"script", "files", "ansible", "playbook", "blocked", "unsupported", "missing", "empty"}
    Canceller = {"view", "terminate"}
    Handler = {h1, h2}
    MaxReports = 3
    Faults = {"broker"}
SYMMETRY Handlers
CHECK_DEADLOCK FALSE
INVARIANTS
    TypeOK
    CancelStopsDispatch
    SuccessIsHonest
    NoticesAgree
PROPERTIES
    TerminalStable
