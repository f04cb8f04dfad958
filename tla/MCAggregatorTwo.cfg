SPECIFICATION Spec
CONSTANTS
  Requests <- MCTwoRequests
  Loads <- MCTwoLoads
  Paths <- MCPaths
  Reports <- MCReports
  Peers <- MCPeers
  MaxDisconnects = 0
PROPERTY
  EveryRequestIsAnswered
CHECK_DEADLOCK FALSE
