SPECIFICATION Spec
CONSTANTS
  Ops = {"Verify"}
  Stoppers = {}
  TimeoutTicks = 1
  MaxWait = 1
  MaxPresses = 1
  LibErrors = FALSE
  BadTemplates = FALSE
  NullCapture = FALSE
  Hidden = Hidden
PROPERTY
  GivesUpOnlyAfterTimeout
CHECK_DEADLOCK FALSE
