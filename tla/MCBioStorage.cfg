SPECIFICATION Spec
CONSTANTS
  Users = {1}
  d1 = d1
  d2 = d2
  Drivers = {d1, d2}
  OwnUuids <- OneUser
  Default <- MCDefault
  MaxIdx = 1
  MaxId = 3
  MaxName = 1
  NewNames = {1}
SYMMETRY DeviceSymmetry
INVARIANTS
  TypeOK
  ChosenIndexIsFree
  RenameIsComplete
  ListIsExact
PROPERTIES
  RowsStayPut
