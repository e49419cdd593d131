CONSTANTS
    Tenants = {t1}
    Schedulers = {s1}
    Requests = {q1}
    Changes = {"ready", "sleeping"}
    Retention = 1
    NumRows = 2
    NumBlobs = 3
    MaxDay = 3
SPECIFICATION FairSpec
INVARIANTS CatalogueHonest RestoreUndoable
PROPERTIES LastBlobKept TickEnds
