\* Three VUs race for three tickets of shared-iterations, or work until a deadline that
\* leaves room for three iterations, under fairness of the scheduler and of the workload.
CONSTANTS
    NumVUs = 3
    Iterations = 3
    Executors = {"shared-iterations", "constant-vus"}
    MaxLoops = 3

SPECIFICATION FairSpec

INVARIANTS
    BudgetRespected
    BudgetSpent
    FatalReported
    OneLateIteration
    CleanupAfterLoad

PROPERTIES
    ImplementsLifecycle
    Terminates
