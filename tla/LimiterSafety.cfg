SPECIFICATION LimiterSpec
CONSTANTS
  Keys = {k1}
  Goroutines = {g1, g2}
  Limit = 2
  Window = 4
  MaxStall = 1
  MaxClock = 9
  MaxRequests = 8
INVARIANTS
  BudgetIsKept
  GCIsTransparent
