SPECIFICATION FairSpec
CONSTANTS
    NTargets = 2
    MaxWorkers = 1
    Kinds = {"script", "files", "ansible", "playbook", "blocked", "unsupported", "missing", "empty"}
    Canceller = {"view", "terminate"}
    Handler = {h1}
    MaxReports = 2
    Faults = {"broker", "rpc"}
CHECK_DEADLOCK FALSE
INVARIANT
    UnfinishedHasWriter
PROPERTIES
    CancellingConverges
    JobConverges
