SPECIFICATION Spec
CONSTANTS
  Cpus = {c1, c2}
  Threads = {t1, t2}
  Addrs = {a1, a2}
  Uploads = {21}
  Downloads = {2}
  TracedKinds = {"Suspicious"}
  RingSize = 1
  LimiterSize = 1
  SeenSize = 1
  NetworkSize = 1
  Second = 1
  ExfilRatio = 10
  ExfilBytes = 10
  LargeTransfer = 45
  MaxTime = 2
  MaxCalls = 4
SYMMETRY Symmetry
INVARIANTS
  CountersTrueUnlessRaced
  ExecsAreLimited
PROPERTIES
  ThreadsJudgedRightly
CHECK_DEADLOCK FALSE
