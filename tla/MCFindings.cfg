SPECIFICATION Spec
CONSTANTS
  MinimumCvss = 70
  MinimumEpss = 10
  CvssValues = {0, 75, 98, 110}
  EpssValues = {0, 60}
  Weights = {0, 400}
  Cves = {"CVE1", "CVE2"}
  CvssOf <- McCvssOf
  Endpoints = 1
  MinRank = 3
  MaxRetries = 2
  Readers = {r1, r2}
  ScoreValues = {0, 5, 9}
  TTL = 2
  MaxHistory = 2
  MaxFindings = 3
  MaxPerPage = 2
  PageSizes = {1, 2, 3}
  MaxInserts = 4
  Cgroups = {1, 2}
  Pids = {1, 2, 3}
  Containers = {1, 2}
  MaxEntries = 1
  Tracked = {p1, p2}
  Libraries = {"ssl", "zlib"}
  Vulns = {"v1"}
  Affects <- McAffects
  Batches <- McBatches
  MaxReports = 2
  PolicyFiles = {"a.rego", "b.rego"}
  Loggers = {l1, l2}
  LastDay = 2
  Retention = 1
  MaxEvents = 3
  Readings = {0, 2, 4}
  ZThreshold = 1
  MinSamples = 2
  Window = 2
  TrendThreshold = 5
  MinPoints = 2
  MaxPoints = 5
  MaxSamples = 6
  BatchSize = 2
  BatchTimeout = 1
  MaxPushed = 4
  Kind <- McKind
  Addresses = {"a1", "a2"}
  Named <- McNamed
  Reports <- McReports
  Manual <- McManual
  MaxAsked = 11
  ProofCves = {"CVE-2021-44228", "CVE-2023-38408"}
  Packages = {"libssl", "log4j"}
  Actors = {"java", "sshd"}
  Java = {"java"}
  MaxCalls = 3
  CgroupIds = {g1, g2}
  Commands = {"wget", "sh"}
  Suspicious = {"wget"}
  FilePaths = {"libssl", "libz", "shadow"}
  SharedObjects = {"libssl", "libz"}
  Sensitive = {"shadow"}
  Flows = {"n1"}
  TransferSizes = {1, 3}
  LargeTransferSize = 2
  MaxSetEntries = 1
  MaxSignals = 1
  MaxDataBytes = 5
  MaxApplied = 3
  LibraryPaths = {"libssl", "libz"}
  Advisories <- McAdvisories
  Matching <- McMatching
  CveOf <- McCveOf
  ReachableOnes = {"f1"}
  MaxSteps = 4
INVARIANTS
  JudgedByOneIntelState
  ExportsAccounted
  ScoresCatchUp
  StateLostOnlyToLimits
  MisnamedOnlyWhenCrowded
  ChargesFollowTheImage
  PoliciesAsReported
  LoggedEventsReadable
  SteadyWorkloadsAreQuiet
  GraphsTellWhatWasSeen
  ProofIsWhatHappened
PROPERTIES
  WorseIsNeverRankedLower
  RefreshesAndRoundsEnd
