CONSTANTS
    Requests = {"r1", "r2", "r3"}
    Terminals = 1
    Commands = 1
    QueueCapacity = 1
SPECIFICATION FairSpec
INVARIANTS NothingLeft
PROPERTIES OperationsTurn RunEnds
CHECK_DEADLOCK FALSE
