SPECIFICATION Spec
CONSTANTS
    None = None
    n1 = n1
    r1 = r1
    c1 = c1
    c2 = c2
    j1 = j1
    j2 = j2
    t1 = t1
    node = n1
    Runtime = {r1}
    Attached = {}
    RuntimeOf <- OneRuntime
    Conn = {c1, c2}
    Job = {j1, j2}
    Token = {t1}
    StaleAfter = 1
    JobTimeout = 1
    JobRetention = 9
    NodeRetention = 9
    IdleGap = 1
    Start = 10
    MaxTime = 12
    MaxWire = 1
SYMMETRY Symmetry
INVARIANTS
    WorkIsReserved
