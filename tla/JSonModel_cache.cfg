SPECIFICATION JSonSpec
CONSTANTS
  Contents = {c0, c1, c2}
  Default = c0
  Empty = Empty
  Absent = Absent
  MaxChanges = 3
  MaxEdits = 2
  MaxCrashes = 2
INVARIANTS
  NoForgottenChange
PROPERTIES
  Settles
CHECK_DEADLOCK FALSE
