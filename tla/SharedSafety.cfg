SPECIFICATION Spec
CONSTANTS
  Emails = {m1}
  Persons = {p1}
  Workers = {w1, w2}
  MaxMints = 2
  MaxNotes = 2
  MaxFaults = 1
SYMMETRY RequestSymmetry
INVARIANTS
  TypeOK
  SharedCredentialWorks
  RowsBelongToTheirMailbox
  OnlyTheAuthorDeletes
CHECK_DEADLOCK FALSE
