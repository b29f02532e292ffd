SPECIFICATION MCSpec
CONSTANTS
  Reqs = {"r1", "r2"}
  Calls <- MixedCalls
  d1 = d1
  old = old
  Drivers = {d1, old}
  DrvList <- OneDriver
  Uids = {1}
  MaxIdx = 1
  All = All
  NoReq = NoReq
INVARIANTS
  TypeOK
  HolderInSession
  MutualExclusion
  ResultKept
  ChosenIndexStaysFree
  CleanErases
PROPERTIES
  EveryRequestAnswered
