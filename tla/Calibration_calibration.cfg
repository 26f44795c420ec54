SPECIFICATION Spec
CONSTANTS
  Devices <- MCDevices
  Fields <- MCFields
  Tables <- MCTables
  Params <- MCParams
  Registers <- MCRegisters
  NavTypeAt = 2
  Documents <- MCDocuments
  MaxGen = 2
  MaxSessions = 2
  Lens <- MCLens
INVARIANTS TakesDocument OwnConfiguration BlocksReleased AdaptationFits
PROPERTIES BaseKept
CHECK_DEADLOCK FALSE
