SPECIFICATION Spec
CONSTANTS
    a = a
    b = b
    Sessions = {a, b}
    MaxCommands <- TwoEach
    SndBuf = 1
    MaxOpen = 2
PROPERTIES
    RanWhenAllowed
CHECK_DEADLOCK FALSE
