SPECIFICATION Spec
CONSTANTS
    d1 = d1
    d2 = d2
    long = long
    None = None
    Ids = {d1, d2}
    LongIds = {}
    D = 1
    Coords = {0, 2}
    NCells = 2
    MaxLabel = 2
    Proxy = "keyed"
    Quantizers <- LineQuantizers
    Batches <- LineBatches
    Targets <- LineTargets
    Searches <- NoSearches
INVARIANTS
    TypeOK
    IndexMatchesDataMap
    ListedDataBelongs
    LabelIsFirstPush
    LoadPromise
PROPERTIES
    ResidentCellsFrozen
    ImplementsVectorCache
CHECK_DEADLOCK FALSE
