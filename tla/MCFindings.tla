----------------------------- MODULE MCFindings -----------------------------
(* What makes, names, judges and keeps findings, on small instances. The     *)
(* parts share no variable; a behaviour of this module exercises one of them *)
(* and leaves the others at their start.                                     *)
EXTENDS BatchExport, ObservedGraphs, ExecutionProof, ScoreCache, RuntimeState,
        NameCaches, ProcessEvidence, PolicyEngine, AuditTrail, Detectors

VARIABLE subject

vars == <<subject, signal, findingVars, batchVars, cacheVars, boardVars, nameVars, evidenceVars,
          policyVars, auditVars, baselineVars, trendVars, chainVars, proofVars, storeVars, runtimeVars>>

Parts == {"scoring", "path", "batch", "cache", "board", "names", "evidence", "policy", "audit",
          "baseline", "trend", "chains", "proof", "store", "runtime"}

AtRest ==
  /\ subject # "scoring" => signal = CHOOSE s \in Signals : s.cvss = 0 /\ ~s.kev
  /\ subject # "cache" => current = CHOOSE s \in ScoreValues : TRUE
  /\ subject # "board" => walk.priority = "any" /\ walk.per_page = CHOOSE n \in PageSizes : TRUE
  /\ subject # "names" => proc = CHOOSE f \in [{Min(Pids)} -> [cgroup : Cgroups, container : Containers]] : TRUE
  /\ subject # "policy" => directory = "ok" /\ files = [f \in PolicyFiles |-> "deny"]

Init ==
  /\ subject \in Parts
  /\ ScoringInit /\ FindingInit /\ BatchInit /\ CacheInit /\ BoardInit /\ NamesInit /\ EvidenceInit
  /\ PolicyInit /\ AuditInit /\ DetectorsInit /\ ChainsInit /\ ProofInit
  /\ StoreInit /\ RuntimeInit
  /\ AtRest

Only(name, action) ==
  /\ subject = name /\ action /\ UNCHANGED subject
  /\ name \notin {"scoring", "path"} => UNCHANGED signal
  /\ name # "path" => UNCHANGED findingVars
  /\ name # "batch" => UNCHANGED batchVars
  /\ name # "cache" => UNCHANGED cacheVars
  /\ name # "board" => UNCHANGED boardVars
  /\ name # "names" => UNCHANGED nameVars
  /\ name # "evidence" => UNCHANGED evidenceVars
  /\ name # "policy" => UNCHANGED policyVars
  /\ name # "audit" => UNCHANGED auditVars
  /\ name # "baseline" => UNCHANGED baselineVars
  /\ name # "trend" => UNCHANGED trendVars
  /\ name # "chains" => UNCHANGED chainVars
  /\ name # "proof" => UNCHANGED proofVars
  /\ name # "store" => UNCHANGED storeVars
  /\ name # "runtime" => UNCHANGED runtimeVars

Next ==
  \/ Only("scoring", ScoringNext)
  \/ Only("path", FindingNext)
  \/ Only("batch", BatchNext)
  \/ Only("cache", CacheNext)
  \/ Only("board", BoardNext)
  \/ Only("names", NamesNext)
  \/ Only("evidence", EvidenceNext)
  \/ Only("policy", PolicyNext)
  \/ Only("audit", AuditNext)
  \/ Only("baseline", BaselineNext)
  \/ Only("trend", TrendNext)
  \/ Only("chains", ChainsNext)
  \/ Only("proof", ProofNext)
  \/ Only("store", StoreNext)
  \/ Only("runtime", RuntimeNext)

(* Requests and scans end, by an answer or by their timeout, and the tasks   *)
(* go on after them. Where another part is exercised none of these can.      *)
Spec ==
  /\ Init /\ [][Next]_vars
  /\ WF_findingVars(Refresh)
  /\ WF_findingVars(Report \/ ScanFails)
  /\ WF_findingVars(Handle)

McCvssOf == [c \in Cves |-> IF c = "CVE1" THEN 98 ELSE 75]

McKind == [entry |-> "external", web |-> "service", api |-> "service", flaw |-> "cve",
           store |-> "database"]

McNamed == {<<"web", "a1">>, <<"api", "a2">>, <<"api", "a1">>}

Call(services, found, flows) ==
  [services |-> services, findings |-> found, connections |-> flows]

Flaw == [type |-> "finding", cve |-> "flaw", service |-> "web"]

Conn(source, dest, encrypted) ==
  [type |-> "connection", source |-> source, dest |-> dest, encrypted |-> encrypted]

(* Everything at once, one service with its traffic, and a finding and a     *)
(* connection that may come before the services they are about.              *)
McReports ==
  {Call(<<"web", "api">>, <<Flaw>>, <<Conn("a1", "a2", FALSE), Conn("a2", "a1", TRUE)>>),
   Call(<<"api">>, <<>>, <<Conn("a2", "a1", FALSE)>>),
   Call(<<>>, <<Flaw>>, <<Conn("a1", "a2", TRUE)>>)}

Edge(from, to, kind) == [type |-> "edge", from |-> from, to |-> to, kind |-> kind]

McManual ==
  {Edge("entry", "web", "access"), Edge("entry", "flaw", "access"), Edge("api", "store", "depends"),
   Edge("entry", "store", "access"), Edge("store", "entry", "plain")}

McAffects == {<<"v1", "ssl">>}

(* One event, or two of one process: events of different ones touch nothing  *)
(* in common but the cache.                                                  *)
McBatches ==
  {<<e>> : e \in Event} \union {b \in Event \X Event : b[1].pid = b[2].pid}

McAdvisories == {<<"x", "openssl">>, <<"x", "zlib">>, <<"y", "zlib">>}

McMatching == {<<"libssl", "openssl">>, <<"libz", "zlib">>}

McCveOf == [f1 |-> "x", f2 |-> "x"]
=============================================================================
