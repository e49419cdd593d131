CONSTANTS
    r1 = r1
    r2 = r2
    Runners = {r1, r2}
    NoRunner = NoRunner
    NumFiles = 2
    Needs <- MCNeeds
    MaxTries = 1
    MaxCrashes = 2
    Pods = {p1}
    NoPod = NoPod
    Expects <- MCExpects
    Writes = {w1, w2}
    Attempts = 1
    Patches = {k1, k2}
    Databases = {"new", "migrated"}
    MaxStops = 2
SPECIFICATION Spec
INVARIANTS LedgerIsSchema WrittenOnce QuietWhileDrained PoolOutlivesClients
PROPERTIES EverythingEnds
CHECK_DEADLOCK FALSE
