CONSTANTS
    Notes = {n1, n2}
    Payloads = {{}, {n2}}
    Members = {m1, m2}
    Editors = {e1, e2}
    Merges = {c1}
    Pods = {p1}
    Earlier = w0
    MaxFaults = 1
SPECIFICATION FairSpec
INVARIANTS NoOrphans ReferencesFollowNotes AuthorsStayMerged
PROPERTIES BootsEnd
CHECK_DEADLOCK FALSE
