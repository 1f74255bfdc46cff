SPECIFICATION DisciplinedSpec
CONSTANTS
    d1 = d1
    d2 = d2
    long = long
    None = None
    Ids = {d1, d2, long}
    LongIds = {long}
    D = 1
    Coords = {0, 1, 2}
    NCells = 2
    MaxLabel = 2
    Proxy = "fetch"
    Quantizers <- LineQuantizers
    Batches <- UniqueBatches
    Targets <- LineTargets
    Searches <- NoSearches
INVARIANTS
    NoAbort
    SnapshotComplete
