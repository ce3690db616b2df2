SPECIFICATION FairSpec
CONSTANTS
    Digits = 3
    SigDigits = 2
    DecimalsBase = 2
    BpsBase = 10
    FutureSkew = 1
    ClockSkew = 3
    Never = Never
    NoBook = NoBook
    Deadlines = {0, 4, 7}
    Polls = {2, 3}
    Graces = {1, 4}
    Thresholds = {985}
    MaxAges = {0, 1}
    Retries = 1
    Latency = 2
    Horizon = 16
    Books <- MCBooks
    Plans <- MCPlans
INVARIANTS DeadlinesHeld BlindInTime SizedOnTrigger LimitRight
PROPERTIES WaitEnds
CHECK_DEADLOCK FALSE
