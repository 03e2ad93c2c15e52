SPECIFICATION SessionSpec
CONSTANTS
    DrainGrace = 1
    TermGrace = 2
    ShutdownGrace = 3
    MaxOutput = 2
    MaxInput = 1
    WindowSize = 2
INVARIANTS HubStream LeavesNothing RunsAsUser
CHECK_DEADLOCK FALSE
