SPECIFICATION Spec
CONSTANTS
    d1 = d1
    d2 = d2
    long = long
    None = None
    Ids = {d1, d2, long}
    LongIds = {long}
    D = 2
    Coords = {0, 1}
    NCells = 2
    MaxLabel = 1
    Proxy = "fetch"
    Quantizers <- PlaneQuantizers
    Batches <- PlaneBatches
    Targets <- PlaneTargets
    Searches <- PlaneSearches
PROPERTIES
    CentroidsFixed
    SingleQueryExact
CHECK_DEADLOCK FALSE
