SPECIFICATION FairSpec
CONSTANTS
    Keys = {k1}
    Seeded = {k1}
    Tenants = {t1}
    Plans = {p0, p1}
    NoPlan = p0
    Values = {off, on}
    Off = off
    On = on
    All = All
    None = None
    Readers = {r1}
    Admins = {a1}
    MaxChanges = 2
INVARIANTS
    AnswersWereRight
    StaleIsExplained
PROPERTIES
    EventuallyFresh
CHECK_DEADLOCK FALSE
