SPECIFICATION FairSpec
CONSTANTS
    a = a
    b = b
    Sessions = {a, b}
    MaxCommands <- ThreeAndTwo
    SndBuf = 1
    MaxOpen = 2
INVARIANTS
    StaysUp
    RepliesMatch
PROPERTIES
    ImplementsSerialServer
    Served
CHECK_DEADLOCK FALSE
