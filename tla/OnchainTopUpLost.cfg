SPECIFICATION MonitorSpec
CONSTANTS
    Watchable = {"a1"}
    Sizes = {1, 2}
    MaxTxs = 2
    Small = 3
    MaxRestarts = 2
    NoCopy = NoCopy
INVARIANT TopUpsAreCredited
CHECK_DEADLOCK FALSE
