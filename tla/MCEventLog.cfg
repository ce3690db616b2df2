SPECIFICATION LogSpec
CONSTANTS
    MaxRecords = 5
INVARIANTS AckedReadable EventsInOrder
PROPERTIES ReadOnlyGrows
CHECK_DEADLOCK FALSE
