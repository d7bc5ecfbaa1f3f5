SPECIFICATION FairSpec
CHECK_DEADLOCK FALSE
CONSTANTS
    m1 = m1
    m2 = m2
    c1 = c1
    c2 = c2
    i1 = i1
    i2 = i2
    i3 = i3
    i4 = i4
    None = None
    Model = {m1, m2}
    Server = {c1, c2}
    Instance = {i1, i2, i3, i4}
INVARIANTS
    TypeOK
    ResidentIsServed
    CandidateIsReusable
    IdleLaneIsSettled
    StraysWereTold
PROPERTIES
    GenerationStartsOnIdleServer
    LaneIsFreed
    ShutdownCompletes
