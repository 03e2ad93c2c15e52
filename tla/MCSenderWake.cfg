SPECIFICATION FairWakeSpec
CONSTANTS
    MaxFrames = 2
    MaxBytes = 3
    QueueLimit = 2
INVARIANTS NoLostWake
PROPERTY FlushEnds
CHECK_DEADLOCK FALSE
