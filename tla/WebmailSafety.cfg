SPECIFICATION Spec
CONSTANTS
  Workers = {w1, w2}
  maxPendingAttempts = 2
  CodesPerSet = 2
  MaxRequests = 5
  MaxFaults = 2
SYMMETRY RequestSymmetry
INVARIANTS
  TypeOK
  SessionsAreEarned
  TriesAreBounded
CHECK_DEADLOCK FALSE
