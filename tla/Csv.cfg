SPECIFICATION Spec
CONSTANTS
    t1 = t1
    t2 = t2
    Absent = Absent
    Tables = {t1, t2}
    Total = 2
    MaxWorkers = 2
    MaxInserts = 2
    MaxProcesses = 2
INVARIANTS
    CompleteFiles
    ManifestIsBacked
SYMMETRY TableSymmetry
CHECK_DEADLOCK FALSE
