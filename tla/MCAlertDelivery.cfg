SPECIFICATION Spec
CONSTANTS
  Paths = {p1, p2, p3}
  Confidences = {5, 8, 9}
  AlertThreshold = 8
  Senders <- MCSenders
  Cooldown = 1
  Ttl = 2
  MaxDedup = 2
  MaxTime = 3
  MaxEvents = 4
INVARIANTS
  HighMeansAlerted
  RepeatsOnlyWhenCrowdedOut
PROPERTIES
  SuppressedOnlyIfSent
  EngineReturns
CHECK_DEADLOCK FALSE
