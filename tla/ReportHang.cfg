CONSTANTS
  a = a
  b = b
  Layouts <- LayoutValues
  StatusBuffer = 1
SPECIFICATION FairSpec
CHECK_DEADLOCK FALSE
PROPERTY CommandEnds
