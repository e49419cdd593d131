CONSTANTS
    Clients = {c1}
    Browsers = {c1}
    OperatorStates = {"sleeping"}
    OperatorScales = {0}
    MaxLag = 1
    MaxFaults = 2
SPECIFICATION ScaleSpec
INVARIANT SleepingIsWakeable
CHECK_DEADLOCK FALSE
