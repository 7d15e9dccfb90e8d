SPECIFICATION FairSpec
CONSTANTS
    e1 = e1
    e2 = e2
    Events <- MCEvents
    OccurredAt <- MCOccurredAt
    Replicas = {r1, r2}
    BatchSize = 2
    MaxClock = 2
    MaxFaults = 2
INVARIANTS
    KeyResolves
    ArchivedIsReadable
PROPERTIES
    ArchiveSpec
    OldEventsArchived
