CONSTANTS
    Uploaders = {u1, u2}
    Values = {x, y}
    MaxChunks = 2
    MaxWrites = 2
    MaxRuns = 2
SPECIFICATION Spec
SYMMETRY Symmetric
INVARIANTS StoredFaithfully UndisturbedSucceeds
CHECK_DEADLOCK FALSE
