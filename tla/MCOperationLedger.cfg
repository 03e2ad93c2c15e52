SPECIFICATION FairSpec
CONSTANTS
    Works = {w1, t1}
    Tasks = {t1}
    MaxAttempts = 2
    MaxFaults = 4
    MaxClaims = 7
INVARIANTS LedgerFirst
PROPERTIES OutcomeSpec EventuallyDecided
CHECK_DEADLOCK FALSE
