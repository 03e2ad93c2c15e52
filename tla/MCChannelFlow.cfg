SPECIFICATION FairSpec
CONSTANTS
    InitFrames = 2
    InitBytes = 3
    LimitFrames = 3
    LimitBytes = 6
    MaxCredit = 6
    MaxChunk = 2
    StreamLen = 5
INVARIANTS NoProtocolViolation CreditAccounting EofComplete
PROPERTIES StreamSpec NoStall
CHECK_DEADLOCK FALSE
