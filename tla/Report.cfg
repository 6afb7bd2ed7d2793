\* Two VUs, at most three transactions of two types and two attempts each; two slots
\* of two milliseconds, and time for a completion to fall past them.
CONSTANTS
    v1 = v1
    v2 = v2
    VUs = {v1, v2}
    Kinds = {"new_order", "stock_level"}
    Variants = {"tx", "procs"}
    MaxAttempts = 2
    Bounds <- MCBounds
    ShortCeiling = 1
    LongCeiling = 2
    SlotWidth = 2
    SlotCount = 2
    BinCount = 2
    MinSteadySlots = 2
    MinSteadyBins = 2
    MaxTransactions = 3
    MaxClock = 4

SPECIFICATION Spec

SYMMETRY VUSymmetry

VIEW WithoutRollback

CONSTRAINT Combined

INVARIANTS
    VerdictIsTrue
    MeasuredOnce
    SeriesIsWhole
