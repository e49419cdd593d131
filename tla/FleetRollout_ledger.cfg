CONSTANTS
    NumRollouts = 2
    Tenants = {t1, t2}
    Restless = {t1}
    Targets = {v1}
    InitialVersion = v0
    OperatorAsks = {v0}
    OthersWrite = {"ready"}
SPECIFICATION FairSpec
INVARIANTS Exclusive SucceededIsDeployed
PROPERTIES LedgerSpec LockFreed
