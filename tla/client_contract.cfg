SPECIFICATION FairSpec
CONSTANTS
    Calls <- Sequential
    Op <- SequentialOp
    Docs <- OneDoc
    Queries <- TwoThenOne
    Mismatched = {2}
    Unsendable <- NoneUnsendable
    MaxCalls = 3
    MaxHits = 1
    MaxSockets = 4
    MaxFaults = 1
INVARIANTS
    Usable
    WholeCommands
    OwnReply
    CleanCallsSucceed
PROPERTIES
    CallsEnd
    ImplementsRemoteCalls
CHECK_DEADLOCK FALSE
