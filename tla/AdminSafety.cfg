SPECIFICATION Spec
CONSTANTS
  Workers = {w1, w2}
  Tokens = {t1, t2}
  Codes = {c1}
  ResetTokens = {r1}
  Passwords = {p1, p2}
  Configured = p1
  MaxPendingAttempts = 1
  MaxFaults = 1
  MaxCrashes = 1
SYMMETRY LoginSymmetry
INVARIANTS
  AtMostFiveTries
  SessionNeedsACode
  PasswordsAgree
  OldSessionsAreRevoked
  ResetLinkUsesOverlap
CHECK_DEADLOCK FALSE
