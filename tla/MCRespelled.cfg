SPECIFICATION Spec
CONSTANTS
    NoValue = NoValue
    MaxStarts = 2
    Agents = {"a", "b"}
    MasterOf <- MCMasterOf
    MaxRuns = 2
    Mids = {1, 2}
    Commands <- MCCommands
    Holding <- MCHolding
    Heirlooms <- MCHeirlooms
    MinNotional = 1
    MinNotionalGate = 1
    Targets = {15}
INVARIANT OwnHeaderReplays
CHECK_DEADLOCK FALSE
