SPECIFICATION Spec
INVARIANT
  ShutdownKeepsWork
PROPERTY
  BatchShutdownCompletes
CHECK_DEADLOCK FALSE
