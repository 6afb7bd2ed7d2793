\* One VU of the stored-procedure variant.
CONSTANTS
    v1 = v1
    VUs = {v1}
    Kinds = {"new_order", "payment"}
    Variants = {"procs"}
    MaxAttempts = 2
    Bounds <- MCBounds
    ShortCeiling = 1
    LongCeiling = 2
    SlotWidth = 2
    SlotCount = 2
    BinCount = 2
    MinSteadySlots = 2
    MinSteadyBins = 2
    MaxTransactions = 2
    MaxClock = 2

SPECIFICATION Spec

INVARIANT SpecRollbackSucceeds
