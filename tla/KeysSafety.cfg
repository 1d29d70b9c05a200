SPECIFICATION FairSpec
CONSTANTS
  Kids = {k1}
  Revokers = {v1, v2}
  Requests = {r1}
  TicksPerSecond = 2
  Lifetimes = {0, 3}
  StartTime = 2
  MaxTime = 7
  MaxFaults = 3
  MaxCrashes = 2
  MaxOutside = 1
  MaxGone = 1
INVARIANTS
  KeysMatchPasswords
PROPERTIES
  ClosedKeysStayClosed
  RepeatedRevokeSucceeds
CHECK_DEADLOCK FALSE
