CONSTANTS
    Clients = {c1}
    Browsers = {}
    OperatorStates = {}
    OperatorScales = {}
    MaxLag = 1
    MaxFaults = 0
SPECIFICATION FairScaleSpec
PROPERTIES WokenUp RegistryFollows CachesHeal
CHECK_DEADLOCK FALSE
