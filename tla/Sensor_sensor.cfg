SPECIFICATION TouchedSpec
CONSTANTS
  Builds = {"optic", "plain"}
  FeatureSets <- MCFeatureSets
  NavTypes = {"LITE", "NORMAL"}
  Retries = 2
  MaxOpens = 2
INVARIANTS ChipReady ConfigNotForgotten
PROPERTIES WaitsEnd
CHECK_DEADLOCK FALSE
