SPECIFICATION Spec
CONSTANTS
    Tenants = {t1, t2}
    Requests = {q1, q2}
    PlanNames = {"pro", "business"}
    MaxCustomers = 2
    MaxSubscriptions = 2
    MaxEvents = 2
    MaxFaults = 1
SYMMETRY Interchangeable
INVARIANTS
    PaidTierHasSubscription
    TenantsApart
    AgreesWithStripe
CHECK_DEADLOCK FALSE
