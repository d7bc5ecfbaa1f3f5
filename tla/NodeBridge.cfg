SPECIFICATION FairSpec
CONSTANTS
    None = None
    j1 = j1
    j2 = j2
    j3 = j3
    r1 = r1
    r2 = r2
    Job = {j1, j2, j3}
    Runtime = {r1, r2}
    Attached = {r1}
    RuntimeOf <- Target
    MaxCompleted = 1
    MaxInbox = 2
    MaxPushes = 5
    MaxConnections = 2
INVARIANTS
    TypeOK
    OncePerConnection
    NothingOutlivesItsConnection
PROPERTIES
    Settles
