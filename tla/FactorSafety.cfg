SPECIFICATION Spec
CONSTANTS
  Workers = {w1, w2}
  Authenticators = {k1}
  Pendings = {t1, t2}
  CodesPerSet = 2
  MaxRequests = 4
  MaxFaults = 1
SYMMETRY RequestSymmetry
INVARIANTS
  TypeOK
  EnabledSecretIsProven
  CodesAreThoseShown
  ChallengeIsSingleUse
CHECK_DEADLOCK FALSE
