SPECIFICATION Spec
CONSTANTS
    r1 = r1
    r2 = r2
    a1 = a1
    a2 = a2
    u1 = u1
    u2 = u2
    hello = hello
    other = other
    m = m
    n = n
    Req = {r1, r2}
    Admin = {a1, a2}
    User = {u1, u2}
    Id = {1, 2}
    Secret = {1, 2}
    Model = {m, n}
    Body = {hello, other}
    ModelOf <- Asks
    Bad = {}
    Empty = {}
    InitTokens <- OneToken
    TTL = 1
    CacheMax = 1
    MaxTime = 2
    MaxOps = 2
SYMMETRY Symmetric
CHECK_DEADLOCK FALSE
INVARIANTS
    TypeOK
    AnswersGranted
    RefusalsJustified
    LogsTruthful
    CacheBound
PROPERTIES
    CacheHonest
