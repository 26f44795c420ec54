\* Both builds; the session is opened up to three times.
CONSTANTS
  Chains <- MCChains
  MaxOpens = 3
SPECIFICATION Spec
INVARIANTS OneSession ReleasedOnce ListenerServes
PROPERTIES CallsEnd
CHECK_DEADLOCK FALSE
