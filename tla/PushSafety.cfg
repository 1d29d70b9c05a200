SPECIFICATION Spec
CONSTANTS
  Instances = {i1, i2}
  Endpoints = {e1}
  Mailboxes = {m1}
  MaxMail = 3
  MaxPasswords = 2
  MaxSubs = 2
  MaxFaults = 1
  MaxEvents = 5
INVARIANTS
  TypeOK
  EachMessageOnce
  GoodRowsStay
PROPERTIES
  OutdatedRowsGo
CHECK_DEADLOCK FALSE
