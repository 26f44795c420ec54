SPECIFICATION ImageSpec
CONSTANTS
  Geometries <- MCGeometries
  Header = 1
  MaxFrame = 32
  Samples = 2
  MaxWaiting = 1
  MaxTouches = 1
  MaxOpened = 2
INVARIANT ImagesKept
PROPERTIES ResultIsOwn TestGoesOn
CHECK_DEADLOCK FALSE
