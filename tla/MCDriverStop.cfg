SPECIFICATION Spec
CONSTANTS
  Ops = {"Verify"}
  Stoppers = {"s1"}
  TimeoutTicks = 1
  MaxWait = 1
  MaxPresses = 1
  LibErrors = FALSE
  BadTemplates = FALSE
  NullCapture = FALSE
  Hidden = Hidden
PROPERTY
  StopEndsTheOperation
CHECK_DEADLOCK FALSE
