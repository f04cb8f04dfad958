SPECIFICATION Spec
CONSTANTS
  Callers = {a, b, c}
  Threshold = 2
  Recovery = 2
  Components = {k1, k2}
  Amounts = {2}
  Timeout = 1
  MaxErrors = 1
  MaxRecords = 3
  Addresses = {ip1, ip2, ip3}
  Domains = {d1}
  Ports = {p1}
  Cgroups = {c1, c2}
  Slots <- McSlots
  MaxTimers = 2
  Cves = {"CVE 1", "CVE1", "CVE2"}
  CleanName <- McClean
  Cooldown = 2
  MaxActions = 3
  Findings = {"f1", "f2", "f3"}
  Workloads = {"w1", "w2"}
  WorkloadOf <- McWorkloadOf
  Syscalls = {s1}
  Essential = {exit}
  MaxResponses = 3
INVARIANTS
  ClosedMeansBelowThreshold
  BlocksHold
  LostOnlyToALaterAction
  ApplicationsOnRecord
PROPERTIES
  BreakerConverges
  MonitorConverges
