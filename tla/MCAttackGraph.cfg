SPECIFICATION Spec
CONSTANTS
  Libs = {"l1", "l2"}
  Cves = {"v1", "v2"}
  Correlated <- MCCorrelated
  Matched <- MCMatched
  Kev = {"v2"}
  HighEpss = {"v2"}
  Score <- MCScore
  TopK = 1
  NetworkWindow = 2
  MmapWindow = 3
  MaxTime = 3
  MaxCalls = 2
  MaxTransfers = 5
INVARIANTS
  BurstsCollapse
  TransfersConserved
  EnforceableIsEvident
  EvidenceRanksFirst
CHECK_DEADLOCK FALSE
