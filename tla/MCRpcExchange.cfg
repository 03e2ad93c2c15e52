CONSTANTS
    Conns = {"k1", "k2"}
    Actors = {"alice", "bob"}
    Sizes = {1}
    GlobalCapacity = 3
    ActorCapacity = 2
    MaxBody = 2
    CleanupThreshold = 1
    MaxTracked = 1
    StreamCap = 1
    Plans <- MCPlans
SPECIFICATION FairExchangeSpec
INVARIANTS MemoryBounded Aligned
CHECK_DEADLOCK FALSE
PROPERTY ServedWithoutDeadline
