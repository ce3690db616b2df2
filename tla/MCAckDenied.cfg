SPECIFICATION Spec
CONSTANTS
    Cloids = {c1}
    NoCloid = none
    Lag = 2
    Algo = "passive"
    Slices = 2
    Size = 3
    Prices = {2}
    MinNotional = 1
    MinNotionalGate = 2
    MinConsecutive = 2
    MaxAttempts = 3
    ResendLimit = 1
    CancelAttempts = 2
    SettleRetries = 2
    c1 = c1
    c2 = c2
    c3 = c3
SYMMETRY CloidSymmetry
PROPERTY AcknowledgedNotDenied
CHECK_DEADLOCK FALSE
