SPECIFICATION Spec
CONSTANTS
  g1 = g1
  g2 = g2
  Groups = {g1, g2}
  DefaultGroup = g1
  TplMax = 2
  FirstId = 1
  EndId = 4
  MaxFail = 2
  MaxTemplates = 2
  GroupIdle = FALSE
  Faults = {}
INVARIANT GroupsApart
CHECK_DEADLOCK FALSE
