SPECIFICATION Spec
CONSTANTS
    None = None
    chat = chat
    summarize = summarize
    p1 = p1
    p2 = p2
    m1 = m1
    m2 = m2
    f1 = f1
    f2 = f2
    f3 = f3
    i1 = i1
    i2 = i2
    Node = {1, 2}
    RawSnapshot <- Reports
    RawTask <- SomeTasks
    Millis = 4
    EpochLimit = 20
    StaleAfter = 1
    MaxRuntimes = 2
    MaxModels = 2
    MaxCandidates = 2
    Start = 41
    MaxTime = 44
INVARIANTS
    TypeOK
    HintIsUsable
    WarmestFirst
    InventoryCoversPlacement
