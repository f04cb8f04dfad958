SPECIFICATION Spec
CONSTANTS
  Requests <- MCRequests
  Loads <- MCLoads
  Paths <- MCPaths
  Reports <- MCReports
  Peers <- MCPeers
  MaxDisconnects = 2
PROPERTIES
  ReportsAreRight
  CalmRequestsAreAnswered
CHECK_DEADLOCK FALSE
