SPECIFICATION QuietSpec
CONSTANTS
  c1 = c1
  c2 = c2
  Callers = {c1}
  Ops = {"enroll", "cancel"}
  MaxCalls = 2
  PipeCap = 4
  WaitRetries = 1
  EnrollTimes = 1
  NavTypes = {"NONE"}
  FingerLoop = "off"
  NeedIrqPwdn = FALSE
PROPERTIES CancelSwitchesToIdle
CHECK_DEADLOCK FALSE
