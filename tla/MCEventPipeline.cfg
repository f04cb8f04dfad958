SPECIFICATION Spec
CONSTANTS
  Workloads = {w1}
  Shapes <- MCShapes
  BatchSize = 2
  BusCapacity = 1
  RingCapacity = 2
  MaxEvents = 3
INVARIANTS
  QueuesBounded
  EveryEventAccounted
  AnalysedAtMostOnce
  ExecPrecedesLaterActivity
CHECK_DEADLOCK FALSE
