SPECIFICATION Spec
CONSTANTS
  Pods = {p1, p2}
  NoPod = NoPod
  Offsets <- MCOffsets
  Contents <- MCContents
  Threshold = 2
  Attempts = 2
  Quota = 1
  MaxFaults = 1
  MaxOutages = 1
INVARIANTS
    PassedOverHasFate
    BreakerAgrees
    RepeatsExplained
PROPERTIES
    EveryMessageHasFate
CHECK_DEADLOCK FALSE
