\* Two VUs of one warehouse, three iterations of any kind between them, two attempts,
\* PostgreSQL's default isolation.
CONSTANTS
    u1 = u1
    u2 = u2
    VUs = {u1, u2}
    MaxIterations = 3
    MaxAttempts = 2
    TxIsolation = ""
    Kinds = {"new_order", "payment", "order_status", "delivery", "stock_level"}

SPECIFICATION Spec

SYMMETRY VUSymmetry

INVARIANTS
    Consistent
    DeliveredOnce
    AppliedOnce
    SuccessIsReal
    NoOrphanTx
