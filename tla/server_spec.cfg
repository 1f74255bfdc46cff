SPECIFICATION Spec
CONSTANTS
    a = a
    b = b
    Sessions = {a, b}
    MaxCommands <- ThreeAndOne
    SndBuf = 1
    MaxOpen = 2
INVARIANTS
    TypeOK
    StatusOfCore
    AnsweredOnce
CHECK_DEADLOCK FALSE
