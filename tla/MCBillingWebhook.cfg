SPECIFICATION WebhookFairSpec
CONSTANTS
    Events = {e1, e2}
    Handlers = {q1, q2}
    MaxDeliveries = 4
    MaxMishaps = 2
INVARIANTS
    AtMostOnce
    OutcomeIsTrue
PROPERTIES
    IntakeSpec
    EventuallyAcked
CHECK_DEADLOCK FALSE
