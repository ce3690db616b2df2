SPECIFICATION Spec
CONSTANTS
    Cloids = {c1, c2, c3}
    NoCloid = none
    Lag = 1
    Algo = "follow"
    Slices = 2
    Size = 3
    Prices = {1, 2}
    MinNotional = 2
    MinNotionalGate = 2
    MinConsecutive = 2
    MaxAttempts = 3
    ResendLimit = 1
    CancelAttempts = 2
    SettleRetries = 2
    c1 = c1
    c2 = c2
    c3 = c3
SYMMETRY CloidSymmetry
PROPERTY ImplementsIdealRun
CHECK_DEADLOCK FALSE
