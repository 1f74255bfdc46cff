SPECIFICATION SequentialSpec
CONSTANTS
    Calls <- Sequential
    Op <- SequentialOp
    Docs <- OneDoc
    Queries <- TwoThenOne
    Mismatched = {}
    Unsendable <- NoneUnsendable
    MaxCalls = 2
    MaxHits = 1
    MaxSockets = 4
    MaxFaults = 0
INVARIANTS
    OwnReply
CHECK_DEADLOCK FALSE
