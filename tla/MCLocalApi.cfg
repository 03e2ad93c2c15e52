CONSTANTS
    Procs = {p1, p2}
    Service = {p1, p2}
    Endpoints <- MCEndpoints
    Domains = {"us"}
    Schemes <- MCSchemes
    Home = "us"
    OwnHub = "own"
    MaxPairs = 2
    MaxKeys = 1
    MaxClients = 1
SPECIFICATION LocalSpec
INVARIANTS PresentedTogether IdentityStable PairedForGood ServerReachable
SYMMETRY MCSymmetry
CHECK_DEADLOCK FALSE
