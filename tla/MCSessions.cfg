SPECIFICATION Spec
CONSTANTS
  u1 = u1
  u2 = u2
  t1 = t1
  t2 = t2
  Users = {u1, u2}
  Tenants = {t1, t2}
  Members <- MCMembers
  Home <- MCHome
  Admins <- MCAdmins
  SessionIds = {s1}
  RecoveryIds = {k1}
  Requests = {r1, r2}
  None = None
  MaxTokens = 2
  MaxPasswords = 2
  MaxFaults = 1
SYMMETRY Interchangeable
INVARIANTS
    RotationSound
    ResetEndsSessions
    RolesKept
CHECK_DEADLOCK FALSE
