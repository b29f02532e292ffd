SPECIFICATION Spec
CONSTANTS
  r1 = r1
  r2 = r2
  r3 = r3
  a = a
  b = b
  Readers = {r1, r2, r3}
  Drivers = {a, b}
  FirstDriver = a
  Kind <- MCKind
  Walkers = {"w"}
  All = All
  None = None
  Dangling = Dangling
  MaxChanges = 4
INVARIANTS
  TypeOK
  NeverTheWrongReader
  ListFollowsTheBus
  WalkMissesNothing
