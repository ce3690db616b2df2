SPECIFICATION Spec
CONSTANTS
    Requests <- MCRequests
    Initials <- MCInitials
    Slices = 2
    Prices = {1, 2}
    Cap = 6
    ResendLimit = 1
    MaxExternal = 1
    MinNotional = 1
    MinNotionalGate = 2
INVARIANTS OwnWithinFrozen CompletedIsExact NothingOpenedOverTheOld CapHolds
CHECK_DEADLOCK FALSE
