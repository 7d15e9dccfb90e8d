SPECIFICATION MCSpec
CONSTANTS
  Callers = {c1, c2}
  Phones = {p1}
  Codes = {x1, x2}
  Permissions = {read, WRITE}
  Refused = {WRITE}
  KeyIds = {k1}
  AgentIds = {a1}
  Handlers = {r1, r2}
  Nobody = Nobody
  Keys = {1, 2, 3}
  KidOf <- MCKidOf
  Replicas = {s1, s2}
  Bearers = {r1, r2}
  MaxAttempts = 2
SYMMETRY Interchangeable
INVARIANTS
    AcceptedIsSpent
    KeysStand
    AgentsWhole
    RefusalsExplained
CHECK_DEADLOCK FALSE
