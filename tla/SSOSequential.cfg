SPECIFICATION CredFairSpec
CONSTANTS
  Callers = {c1}
  Keys = {k1, k2}
  MaxMints = 14
  MaxFailures = 3
  MaxRestarts = 2
  MaxByHand = 1
INVARIANTS
  CachedCredentialWorks
PROPERTIES
  EventuallyCached
  FailedLoginClearsTheName
