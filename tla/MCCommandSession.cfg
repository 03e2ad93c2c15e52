SPECIFICATION Spec
CONSTANTS
    Programs <- MCPrograms
    InputLength = 2
    PipeCapacity = 1
    WindowSize = 1
    MaxOutputLines = 5
    TailLength = 2
INVARIANTS FrameAligned HonestResult TimeoutJustified
PROPERTY ChildReaped
CHECK_DEADLOCK FALSE
