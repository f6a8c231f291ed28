SPECIFICATION Spec
CONSTANTS
  MaxFaults = 1
CHECK_DEADLOCK FALSE
PROPERTY
  MoveEnds
