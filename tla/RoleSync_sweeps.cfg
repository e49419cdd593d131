CONSTANTS
    u1 = u1
    u2 = u2
    e1 = e1
    Accounts = {a1}
    Users = {u1, u2}
    Emails = {e1}
    EmailOf <- MCEmailOf
    Tenants = {t1}
    Handlers = {h1, h2}
    Retrier = retrier
    Operator = operator
    NoEmail = noEmail
    NoUser = noUser
    NoAccount = noAccount
    NoTenant = noTenant
    MaxRuns = 1
    MaxFaults = 1
SPECIFICATION FairSpec
INVARIANTS CompleteMeansAssigned SignedInAsThemselves
CHECK_DEADLOCK FALSE
PROPERTIES PendingDrains
