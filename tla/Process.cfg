\* One VU until a deadline that leaves room for two iterations, and up to three signals of either kind at any moment;
\* the scheduler is fair to the monitor and to stop(), not to the run.
CONSTANTS
    Signals = {2, 15}
    MaxSignals = 3
    NumVUs = 1
    Iterations = 1
    Executors = {"constant-vus"}
    MaxLoops = 2

SPECIFICATION FairProcess

INVARIANT TruthfulExit

PROPERTIES
    StopClosesGate
    SecondSignalEnds
