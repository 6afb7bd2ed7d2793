CONSTANTS
    MaxOpening = 4
    Drivers = {"postgres", "mysql", "picodata", "ydb", "noop", "csv", "unspecified"}
SPECIFICATION OpenSpec
INVARIANT NothingLeftOpen
PROPERTY OpeningEnds
