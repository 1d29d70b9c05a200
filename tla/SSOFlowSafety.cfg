SPECIFICATION Spec
CONSTANTS
  w1 = w1
  w2 = w2
  d1 = d1
  d2 = d2
  a1 = a1
  Workers = {w1, w2}
  Domains = {d1, d2}
  DomainAdmins = {a1}
  Managed <- MCManaged
  Scopes <- MCScopes
  MaxId = 1
  MaxRequests = 4
  MaxFaults = 1
SYMMETRY RequestSymmetry
INVARIANTS
  TypeOK
  SessionsAreVouchedFor
  ProvidersAreSettled
  OnlyTheOwnerChanges
CHECK_DEADLOCK FALSE
