SPECIFICATION Spec
CONSTANTS
    Procs = {p1, p2}
    NoProc = NoProc
    Versions = {v1, v2}
    NoVersion = NoVersion
    Ops = {"provision", "deprovision", "patch", "restore"}
    PatchStates = {"ready", "maintenance", "deprovisioned"}
    MaxRuns = 4
    MaxCrashes = 1
SYMMETRY Symmetry
INVARIANTS
    SecretMatchesRole
    WorkloadHasDatabase
    DeprovisionedMeansDeleted
CHECK_DEADLOCK FALSE
