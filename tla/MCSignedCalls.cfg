SPECIFICATION CallSpec
CONSTANTS
    p1 = p1
    p2 = p2
    NoProc = NoProc
    Procs = {p1, p2}
    Times = {0, 1, 3}
    MaxNonce = 3
    MaxRequests = 2
    Backoffs = 1
SYMMETRY ProcSymmetry
INVARIANTS ReuseNeedsLostMark RestartsAboveUsed ConclusionIsTrue
CHECK_DEADLOCK TRUE
