\* Two VUs share one connection and, for three templates, a cache of one; the servers
\* and timeouts of every driver.
CONSTANTS
    u1 = u1
    u2 = u2
    t1 = t1
    t2 = t2
    t3 = t3
    VUs = {u1, u2}
    PoolSize = 1
    Templates = {t1, t2, t3}
    NoText = NoText
    CacheMax = 1
    Settings <- MCSettings
    MaxRows = 1
    MaxStatements = 3

SPECIFICATION Spec

INVARIANTS
    NothingLeftBehind
    HintKeepsConnection
    CacheBounded
    NeverAtServersMercy

PROPERTIES
    AnswerIsTrue

SYMMETRY StatementSymmetry

CHECK_DEADLOCK FALSE
