SPECIFICATION CalendarSpec
CONSTANTS
  Tabs = {t1, t2}
  Guests = {g1}
  Categories = {"work", "home"}
  Authored <- MCAuthored
  maxCalAttachTotal = 1
  MaxNames = 1
  MaxRequests = 3
SYMMETRY Symmetry
INVARIANTS
  CalendarTypeOK
  FormRoundTrips
  WritesSurvive
CHECK_DEADLOCK FALSE
