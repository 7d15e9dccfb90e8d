SPECIFICATION HubFairSpec
CONSTANTS
    c1 = c1
    c2 = c2
    t1 = t1
    t2 = t2
    Connections = {c1, c2}
    Tenants = {t1, t2}
    TenantOf <- MCTenantOf
    Channels = {"alerts"}
    QueueSize = 1
    BacklogSize = 2
    SendSize = 1
    MaxMessages = 2
INVARIANTS
    DeliveredInOrder
    PanicOnlyIfOvertaken
PROPERTIES
    LeaversAreClosed
CHECK_DEADLOCK FALSE
