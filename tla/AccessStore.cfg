SPECIFICATION Spec
CONSTANTS
    t1 = t1
    t2 = t2
    s1 = s1
    s2 = s2
    k1 = k1
    k2 = k2
    b1 = b1
    b2 = b2
    None = None
    BootstrapAdmin = BootstrapAdmin
    Token = {t1, t2}
    Session = {s1, s2}
    Call = {k1, k2}
    Secret = {b1, b2}
    MaxTokens = 1
    MaxSessions = 1
    TokenLife = {1}
    SessionLife = 2
    MaxTime = 1
SYMMETRY StoreSymmetry
INVARIANTS
    TypeOK
    TokenCap
    SessionsWithinToken
    SessionCap
PROPERTIES
    ServedWithAuthority
    RotationEndsBootstrapSessions
