SPECIFICATION ObserverSpec
CONSTANTS
    Cloids = {c1, c2}
    NoCloid = none
    Indices = {1, 2}
    Sizes = {0, 1, 2}
    Lot = 1
    Cap = 2
    QueueCapacity = 1
    c1 = c1
    c2 = c2
SYMMETRY CloidSymmetry
INVARIANTS MetricsMatchJournal LogNeverOverstates CompletedEventIsTrue ClosedHasNothingOpen
PROPERTIES NothingTakenBack UnresolvedIsAlerted
CHECK_DEADLOCK FALSE
