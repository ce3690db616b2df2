SPECIFICATION Spec
CONSTANTS
    Timeout = 4
    Lead = 2
    Grace = 3
INVARIANTS NoOrderBeforeRelease WatchedWhileExecuting
PROPERTIES AloneIsContained BarrierEnds
CHECK_DEADLOCK FALSE
