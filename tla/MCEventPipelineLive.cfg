SPECIFICATION Spec
CONSTANTS
  Workloads = {w1}
  Shapes <- MCFewShapes
  BatchSize = 2
  BusCapacity = 1
  RingCapacity = 1
  MaxEvents = 2
PROPERTIES
  ImplementsOrderedDelivery
  ConsumerStops
CHECK_DEADLOCK FALSE
