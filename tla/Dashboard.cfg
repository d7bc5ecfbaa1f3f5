SPECIFICATION Spec
CONSTANTS
    None = None
    g1 = g1
    q1 = q1
    w1 = w1
    w2 = w2
    s1 = s1
    s2 = s2
    j1 = j1
    j2 = j2
    Reads = {g1}
    Polls = {q1}
    Writes = {w1, w2}
    Session = {s1, s2}
    Admins = {s2}
    Job = {j1, j2}
    MaxVersion = 1
    MaxActs = 2
    MaxFailures = 1
INVARIANTS
    BusyIsInFlight
    ShownJobIsNotAhead
PROPERTIES
    Converges
