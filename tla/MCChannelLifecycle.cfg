SPECIFICATION FairSpec
CONSTANTS
    a = a
    b = b
    c1 = c1
    c2 = c2
    c3 = c3
    Endpoints = {a, b}
    Calls = {c1, c2, c3}
    Caller <- MCCaller
    MaxChannels = 2
    MaxPending = 1
    MaxTombs = 1
    MaxCommands = 1
    Impatient = {c1}
    Failing = {a}
INVARIANTS SlotsExact AnsweredOnce PeerUnderstood Paired
PROPERTY OpenResolves
CHECK_DEADLOCK FALSE
