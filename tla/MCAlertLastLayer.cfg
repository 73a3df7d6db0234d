SPECIFICATION FairSpec
CONSTANTS
    u1 = u1
    u2 = u2
    u3 = u3
    User = {u1, u2, u3}
    Assignee = {{u1}}
    Personnel = {u1}
    UILayers <- TwoLayers
    Mode = "append"
    Budgets = {1}
    Scanner = {s1}
    MaxEdits = 0
    CountCap = 2
    Faults = {}
PROPERTY
    LastLayerIsReminded
CHECK_DEADLOCK FALSE
