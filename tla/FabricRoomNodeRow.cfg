SPECIFICATION HSpec
CONSTANTS
    n1 = n1
    r1 = r1
    c1 = c1
    c2 = c2
    c3 = c3
    j1 = j1
    j2 = j2
    t1 = t1
    None = None
    Node = {n1}
    Runtime = {r1}
    Conn = {c1, c2}
    Job = {j1, j2}
    Token = {t1}
    Binding <- OneNode
    StaleAfter = 1
    JobTimeout = 1
    JobRetention = 1
    NodeRetention = 1
    IdleGap = 1
    Start = 2
    MaxTime = 5
PROPERTIES
    NodeMetadataRetained
