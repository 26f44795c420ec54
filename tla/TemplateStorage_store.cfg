SPECIFICATION Spec
CONSTANTS
  g1 = g1
  g2 = g2
  Groups = {g1}
  DefaultGroup = g1
  TplMax = 2
  FirstId = 1
  EndId = 4
  MaxFail = 2
  MaxTemplates = 4
  GroupIdle = TRUE
  Faults = {"crash", "read", "write", "index", "ta_enroll", "ta_load"}
INVARIANTS TypeOK FreshFid  RemovedStayGone TaHoldsStored
CHECK_DEADLOCK FALSE
