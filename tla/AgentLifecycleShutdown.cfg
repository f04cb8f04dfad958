SPECIFICATION Spec
PROPERTY
  ShutdownCompletes
CHECK_DEADLOCK FALSE
