SPECIFICATION TouchedSpec
CONSTANTS
  c1 = c1
  c2 = c2
  Callers = {c1}
  Ops = {"enroll", "authenticate", "cancel", "lock", "test", "pause", "continue", "screen", "ready", "deinit", "ta_break"}
  MaxCalls = 3
  PipeCap = 2
  WaitRetries = 1
  EnrollTimes = 1
  NavTypes = {"NORMAL"}
  FingerLoop = "learning"
  NeedIrqPwdn = TRUE
PROPERTIES CancelReachesIdle RequestStarts
CHECK_DEADLOCK FALSE
