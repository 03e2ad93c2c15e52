CONSTANTS
    MaxQueued = 2
    Reserved = 1
    MaxProcessed = 2
    SinkCap = 1
    InCap = 1
    MaxSent = 1
    MaxPeerSent = 1
SPECIFICATION FairSpec
INVARIANTS ProtocolHonoured SleepsSafely
PROPERTIES OverloadByControl SilentPeerNoticed
CHECK_DEADLOCK FALSE
