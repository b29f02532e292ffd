SPECIFICATION Spec
CONSTANTS
  Ops <- MCOps
  Stoppers = {"s1"}
  TimeoutTicks = 1
  MaxWait = 1
  MaxPresses = 2
  LibErrors = TRUE
  BadTemplates = TRUE
  NullCapture = TRUE
  Hidden = Hidden
INVARIANTS
  TypeOK
  AffirmedByTheLibrary
  OneCallAtATime
  StrandedHasCause
PROPERTIES
  TimesOutOnlyAfterSilence
  ImplementsContract
  SessionEnds
  StopAnswers
CHECK_DEADLOCK FALSE
