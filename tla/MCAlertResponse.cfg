SPECIFICATION FairSpec
CONSTANTS
    u1 = u1
    u2 = u2
    u3 = u3
    User = {u1, u2, u3}
    Assignee = {{u3}}
    Personnel = {u1}
    UILayers <- ThreeLayers
    Mode = "append"
    Budgets = {1}
    Scanner = {s1, s2}
    MaxEdits = 1
    CountCap = 2
    Faults = {"broker", "crash"}
INVARIANTS
    TypeOK
    ReachedMayClaim
    ClaimStopsEscalation
    RoundIsBounded
PROPERTIES
    FinishedStaysFinished
    UnclaimedEscalates
    FinishedFallsQuiet
CHECK_DEADLOCK FALSE
