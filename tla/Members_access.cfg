CONSTANTS
    Subs = {s1, s2}
    NoSub = NoSub
    Emails = {e1, e2}
    Campaigns = {A, B}
    Default = A
    Links = {l1, l2}
    Notes = {n1}
    Slots = 2
    Pods = {p1, p2}
    PoolSize = 2
    MaxMembers = 3
    MaxRequests = 3
SPECIFICATION Spec
INVARIANTS OneOwner OneSeat AuthorsBelong
PROPERTIES IdentitiesKept RequestsEnd
CHECK_DEADLOCK FALSE
