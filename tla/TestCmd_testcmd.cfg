SPECIFICATION Spec
CONSTANTS
  Requests <- MCRequests
  Callers = {c1}
  Calls = {"spi", "quality", "aging", "calibrate", "factory", "cancel", "deinit"}
  MaxRequests = 2
  MaxCalls = 2
INVARIANTS BufferHolds RunsRequested SpiPassIsFresh
PROPERTIES NewestServed
CHECK_DEADLOCK FALSE
