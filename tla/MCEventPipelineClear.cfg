SPECIFICATION Spec
CONSTANTS
  Workloads = {w1}
  Shapes <- MCFewShapes
  BatchSize = 2
  BusCapacity = 1
  RingCapacity = 2
  MaxEvents = 2
PROPERTY
  OnlyProcessedStateIsCleared
CHECK_DEADLOCK FALSE
