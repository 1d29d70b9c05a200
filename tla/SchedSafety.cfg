SPECIFICATION Spec
CONSTANTS
  Ids = {r1, r2}
  Owners = {alice, bob}
  TicksPerSecond = 2
  UndoSendWindow = 2
  SendAts = {3, 5, 6}
  StaleAfter = 2
  BatchLimit = 2
  StartTime = 2
  MaxTime = 7
  MaxCrashes = 2
  MaxDBErrors = 1
SYMMETRY RowSymmetry
INVARIANTS
  DuplicatesNeedACrash
  UndoneMeansUnsent
PROPERTIES
  ImplementsOutbox
