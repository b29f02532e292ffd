SPECIFICATION Spec
CONSTANTS
  Ids = {1, 2, 3}
  Users = {"u1", "u2"}
  Owner <- MCOwner
  NoUuid = "no uuid"
  Absent = "absent"
  MaxFaults = 3
INVARIANTS
  TypeOK
  FeaturesNeverStranded
  ServingHasAll
CHECK_DEADLOCK FALSE
PROPERTIES
  ComesUp
