\* One instance, three commands, over two warehouses.
CONSTANTS
    i1 = i1
    Instances = {i1}
    WarehouseStart <- MCStart
    ScaleFactor <- MCScale
    SplitMix64 <- MCSplitMix64
    BitXor <- MCBitXor
    LoadWorkers = 2
    Targets <- AllTargets
    Filters <- Every
    MaxCommands = 3
    MaxTransactions = 1
    DistrictsPerWarehouse = 2
    CustomersPerDistrict = 3
    Items = 2
    OrdersDelivered = 1
    OlCntFixed = 2
    DistrictNextOID = 4
    TellersPerBranch = 2
    AccountsPerBranch = 2
    ReferenceRows = 2

SPECIFICATION SetupSpec

INVARIANTS
    RepairsDatabase
    MeasuresWholeData

PROPERTY ValidatedIsWhole
