\* Two VUs race for the order ids of one district under READ COMMITTED, where only
\* the row lock of get_district orders them, in two iterations of two attempts.
CONSTANTS
    u1 = u1
    u2 = u2
    VUs = {u1, u2}
    MaxIterations = 2
    MaxAttempts = 2
    TxIsolation = "read_committed"
    Kinds = {"new_order", "stock_level"}

SPECIFICATION FairSpec

INVARIANT NoDuplicateOrder

PROPERTY IterationsEnd
