SPECIFICATION FairSpec
CONSTANTS
  Ids = {r1, r2, r3}
  Owners = {alice}
  TicksPerSecond = 2
  UndoSendWindow = 2
  SendAts = {3}
  StaleAfter = 2
  BatchLimit = 2
  StartTime = 2
  MaxTime = 4
  MaxCrashes = 1
  MaxDBErrors = 1
PROPERTIES
  PendingIsTakenUp
  OutstandingIsSettled
