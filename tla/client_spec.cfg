SPECIFICATION Spec
CONSTANTS
    Calls <- Shared
    Op <- SharedOp
    Docs <- OneDoc
    Queries <- OneQuery
    Mismatched = {}
    Unsendable <- SecondIdUnsendable
    MaxCalls = 2
    MaxHits = 1
    MaxSockets = 4
    MaxFaults = 1
INVARIANTS
    TypeOK
    AtMostOnce
    ConfirmedByOne
CHECK_DEADLOCK FALSE
