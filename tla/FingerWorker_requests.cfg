SPECIFICATION Spec
CONSTANTS
  c1 = c1
  c2 = c2
  Callers = {c1, c2}
  Ops = {"enroll", "authenticate", "cancel", "lock", "ext_cb", "screen", "deinit"}
  MaxCalls = 3
  PipeCap = 2
  WaitRetries = 1
  EnrollTimes = 2
  NavTypes = {"NONE", "LITE"}
  FingerLoop = "off"
  NeedIrqPwdn = FALSE
SYMMETRY Symmetry
INVARIANTS ServesCurrentRequest NoLostWakeup SuccessOncePerRequest
PROPERTIES HandsOver
CHECK_DEADLOCK FALSE
