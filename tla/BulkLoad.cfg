\* Every driver and method.  Five rows, two workers, batches of two: the first
\* chunk is one full batch, the second a full batch and a remainder; the counter
\* reports every three rows, which only a COPY and the drain reach.
CONSTANTS
    Total = 5
    Workers = 2
    BatchSize = 2
    FlushEvery = 3
    Drivers = {"postgres", "mysql", "picodata", "ydb", "noop"}
    Methods = {"native", "plain_bulk", "plain_query", "columnar"}

SPECIFICATION FairSpec

INVARIANTS
    LoadedOnce
    ConfirmedIsStored
    NothingLate

PROPERTIES
    SamplesGrow
    InsertReturns
