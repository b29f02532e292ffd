SPECIFICATION Spec
CONSTANTS
  Users = {1, 2}
  d1 = d1
  d2 = d2
  Drivers = {d1}
  OwnUuids <- TwoUsers
  Default <- MCDefault
  MaxIdx = 1
  MaxId = 3
  MaxName = 1
  NewNames = {1}
INVARIANTS
  ListSeparatesUsers
