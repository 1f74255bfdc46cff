SPECIFICATION FairSpec
CONSTANTS
    Calls <- EveryMethod
    Found <- TwoQueries
    MaxLength = 19
    MaxRead = 2
INVARIANTS
    TypeOK
    ArgsReadBack
    WritesFit
    ResultsReadBack
PROPERTIES
    OnlySplitHeadEnds
    ExchangeEnds
    ImplementsExchange
CHECK_DEADLOCK FALSE
