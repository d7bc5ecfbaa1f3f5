SPECIFICATION Spec
CONSTANTS
    n1 = n1
    n2 = n2
    r1 = r1
    r2 = r2
    c1 = c1
    c2 = c2
    c3 = c3
    j1 = j1
    j2 = j2
    t1 = t1
    t2 = t2
    t3 = t3
    None = None
    Node = {n1, n2}
    Runtime = {r1}
    Conn = {c1, c2}
    Job = {j1, j2}
    Token = {t1, t2, t3}
    Binding <- TwoNodes
    StaleAfter = 1
    JobTimeout = 1
    JobRetention = 0
    NodeRetention = 1
    IdleGap = 1
    Start = 2
    MaxTime = 3
INVARIANTS
    NoLeakedReservation
    NoWorkForRevokedToken
SYMMETRY NodesSymmetry
