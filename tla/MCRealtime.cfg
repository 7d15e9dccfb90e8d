SPECIFICATION FairSpec
CONSTANTS
    Pods = {p1, p2}
    Clients = {c1}
    None = None
    MaxRecords = 3
    MaxFaults = 2
INVARIANTS
    CommittedWasHanded
PROPERTIES
    EveryRecordHanded
CHECK_DEADLOCK FALSE
