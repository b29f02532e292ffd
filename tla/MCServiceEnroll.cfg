SPECIFICATION MCSpec
CONSTANTS
  Reqs = {"r1"}
  Calls <- EnrollCalls
  d1 = d1
  old = old
  Drivers = {d1}
  DrvList <- OneDriver
  Uids = {1}
  MaxIdx = 1
  All = All
  NoReq = NoReq
INVARIANTS
  EnrolledMeansStored
