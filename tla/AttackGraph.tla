----------------------------- MODULE AttackGraph -----------------------------
(***************************************************************************)
(* The runtime attack graph (runtime_attack_graph_v2.rs) as the analysis   *)
(* feeds it: build_attack_paths in main.rs goes through the libraries of   *)
(* one workload, then its transfers, then ranks the paths.                 *)
(*                                                                         *)
(* One graph serves every workload and every round of the analysis, and    *)
(* main.rs passes pid 0, load time 0, the endpoint 0.0.0.0:443 and 1024    *)
(* bytes for all of them: there is one process node and one network node,  *)
(* and parallel edges are counted.                                         *)
(*                                                                         *)
(* Left out: names and texts, paths_total and avg_confidence (never read   *)
(* back), rendering, and a CVE that a scan finds in two packages.          *)
(***************************************************************************)
EXTENDS Integers, Sequences, FiniteSets, Functions

CONSTANTS
  Libs, Cves,
  Correlated,     (* <<lib, cve>>: runtime_correlation's match of a package  *)
  Matched,        (* <<lib, cve>>: the graph's own match of a package        *)
  Kev,            (* CVEs known to be exploited                              *)
  HighEpss,       (* CVEs of EPSS 0.7 and more                               *)
  Score,          (* Finding.score of each CVE                               *)
  TopK,           (* AttackGraphConfig.top_k                                 *)
  NetworkWindow,  (* AttackGraphConfig.network_window_secs                   *)
  MmapWindow,     (* AttackGraphConfig.mmap_window_secs                      *)
  MaxTime,        (* bound: timestamps                                       *)
  MaxCalls,       (* bound: workloads analysed, over all rounds              *)
  MaxTransfers    (* bound: transfers, over all workloads                    *)

ASSUME GraphAssumption ==
  /\ IsFiniteSet(Libs) /\ IsFiniteSet(Cves)
  /\ Correlated \subseteq Libs \X Cves
  /\ Matched \subseteq Libs \X Cves
  /\ Kev \subseteq Cves /\ HighEpss \subseteq Cves
  /\ Score \in [Cves -> Nat]
  /\ {TopK, NetworkWindow, MmapWindow, MaxTime, MaxCalls, MaxTransfers} \subseteq Nat

Bytes == 1024     (* data_size of every NetEvent of build_attack_paths       *)

(* Confidences in hundredths. 1024 bytes are not above min_bytes_threshold.  *)
NewConfidence    == 70
StrongConfidence == 90
Boost            == 5
MaxConfidence    == 95

VARIABLES
  pc,          (* what build_attack_paths is at                              *)
  left,        (* the libraries of the workload it has not come to           *)
  loaded,      (* those it has                                               *)
  found,       (* the findings of the workload                               *)
  loads,       (* LibraryLoaded edges to each library                        *)
  vulnerable,  (* Vulnerable edges of each CVE to each library               *)
  conns,       (* NetworkConnection edges, in the order they were added      *)
  attempts,    (* ExploitationAttempt edges of each library                  *)
  last,        (* last_network_update of the one endpoint, 0 before          *)
  updates,     (* update_queue                                               *)
  collapsed,   (* metrics.burst_events_collapsed                             *)
  report,      (* the CVEs of the last top K paths, best first               *)
  calls,       (* history: calls of build_attack_paths                       *)
  transfers,   (* history: transfers ingested                                *)
  told         (* history: what the drained updates told                     *)

workVars  == <<pc, left, loaded, found, calls>>
graphVars == <<loads, vulnerable, conns, attempts, last, updates, collapsed>>
vars      == <<workVars, graphVars, report, transfers, told>>

Stages == {"idle", "busy"}

Nothing == [loads |-> [l \in Libs |-> 0], edges |-> 0, bytes |-> 0]

(* What a reader of the updates knows after one more.                        *)
Hear(known, update) ==
  CASE update.type = "load" -> [known EXCEPT !.loads[update.lib] = @ + 1]
    [] update.type = "conn" -> [loads |-> known.loads, edges |-> known.edges + 1,
                                bytes |-> known.bytes + update.bytes]
    [] update.type = "more" -> [known EXCEPT !.bytes = @ + update.bytes]

HearAll(known, us) ==
  LET after[i \in 0 .. Len(us)] ==
        IF i = 0 THEN known ELSE Hear(after[i - 1], us[i])
  IN  after[Len(us)]
-----------------------------------------------------------------------------
(* What build_path_for_finding sees of a CVE.                                *)

(* n[l] parallel edges for each library, together.                           *)
Parallel(n) == Cardinality(UNION {{l} \X (1 .. n[l]) : l \in Libs})

(* It visits the libraries once per parallel Vulnerable edge ...             *)
Hits(v) == Parallel(vulnerable[v])

(* ... and the connections of the process once per parallel load of those.   *)
Visits(v) == Parallel([l \in Libs |-> vulnerable[v][l] * loads[l]])

(* The CVE, a node per hit, the process once, a node per visited connection. *)
Depth(v) ==
  LET hits == Hits(v)
  IN  IF hits = 0 THEN 1 ELSE 2 + hits + Visits(v) * Len(conns)

HasLibrary(v) == Hits(v) > 0
HasNetwork(v) == Visits(v) > 0 /\ conns # <<>>

IsStrong(v) ==
  Visits(v) > 0 /\ \E i \in DOMAIN conns : conns[i].confidence >= StrongConfidence

(* Faulty: the boost for the chain needs the library or the network only.    *)
ConfidenceAnyOf(v) ==
  LET Points(p, n) == IF p THEN n ELSE 0
      depth == Depth(v)
      sum   == 30 + Points(depth >= 4, 20) + Points(depth = 3, 10)
                  + Points(HasLibrary(v) \/ HasNetwork(v), 20)
                  + Points(v \in Kev, 15) + Points(v \in HighEpss, 10)
                  - Points(depth < 3, 20)
                  - Points(HasLibrary(v) /\ ~IsStrong(v), 10)
  IN  IF sum > 100 THEN 100 ELSE IF sum < 0 THEN 0 ELSE sum

(* calculate_path_confidence.                                                *)
Confidence(v) ==
  LET Points(p, n) == IF p THEN n ELSE 0
      depth == Depth(v)
      sum   == 30 + Points(depth >= 4, 20) + Points(depth = 3, 10)
                  + Points(HasNetwork(v), 20)
                  + Points(v \in Kev, 15) + Points(v \in HighEpss, 10)
                  - Points(depth < 3, 20)
                  - Points(HasLibrary(v) /\ ~IsStrong(v), 10)
  IN  IF sum > 100 THEN 100 ELSE IF sum < 0 THEN 0 ELSE sum

(* confidence * risk_score: a path of five nodes has its whole score.        *)
Worth(v) ==
  LET depth == Depth(v)
  IN  Confidence(v) * Score[v] * (IF depth >= 5 THEN 5 ELSE depth)

(* meets_enforcement_criteria: three nodes, 0.8, two kinds of signals.       *)
Enforceable(v) ==
  /\ Depth(v) >= 3
  /\ Confidence(v) >= 80
  /\ HasLibrary(v)

(* The findings correlate_vulnerability calls reachable: by a library the    *)
(* workload loaded, or by a file it opened.                                  *)
Reachable(opened) ==
  {v \in found : v \in opened \/ \E l \in loaded : <<l, v>> \in Correlated}

(* Faulty: sorted the wrong way.                                             *)
RankingsAscending(vs) ==
  {r \in Bijection(1 .. Cardinality(vs), vs) :
     \A i, j \in DOMAIN r : i < j => Worth(r[i]) <= Worth(r[j])}

(* build_attack_paths of the graph: the sort is stable, findings come in any *)
(* order, so ties may fall either way.                                       *)
Rankings(vs) ==
  {r \in Bijection(1 .. Cardinality(vs), vs) :
     \A i, j \in DOMAIN r : i < j => Worth(r[i]) >= Worth(r[j])}

Top(ranking) ==
  SubSeq(ranking, 1, IF Len(ranking) < TopK THEN Len(ranking) ELSE TopK)
-----------------------------------------------------------------------------
Init ==
  /\ pc = "idle"
  /\ left = {} /\ loaded = {} /\ found = {}
  /\ loads = [l \in Libs |-> 0]
  /\ vulnerable = [v \in Cves |-> [l \in Libs |-> 0]]
  /\ conns = <<>>
  /\ attempts = [l \in Libs |-> 0]
  /\ last = 0
  /\ updates = <<>>
  /\ collapsed = 0
  /\ report = <<>>
  /\ calls = 0 /\ transfers = 0
  /\ told = Nothing

(* The next workload of the snapshot, with the findings of its scan.         *)
Begin ==
  /\ pc = "idle"
  /\ calls < MaxCalls
  /\ \E libs \in SUBSET Libs, vs \in SUBSET Cves :
       /\ left' = libs
       /\ found' = vs
  /\ pc' = "busy"
  /\ loaded' = {}
  /\ calls' = calls + 1
  /\ UNCHANGED <<graphVars, report, transfers, told>>

(* associate_cve_with_library: an edge to every matching library in the      *)
(* graph, once for each finding the loaded library correlates with.          *)
Associate(lib, present) ==
  [v \in Cves |-> [l \in Libs |->
     IF v \in found /\ <<lib, v>> \in Correlated
        /\ l \in present /\ <<l, v>> \in Matched
       THEN vulnerable[v][l] + 1 ELSE vulnerable[v][l]]]

(* process_library_load and the associations that follow it.                 *)
LoadLibrary(lib) ==
  /\ pc = "busy"
  /\ lib \in left
  /\ left' = left \ {lib}
  /\ loaded' = loaded \cup {lib}
  /\ loads' = [loads EXCEPT ![lib] = @ + 1]
  /\ vulnerable' = Associate(lib, {l \in Libs : loads'[l] > 0})
  /\ updates' = Append(updates, [type |-> "load", lib |-> lib])
  /\ UNCHANGED <<pc, found, calls, conns, attempts, last, collapsed,
                 report, transfers, told>>

(* Within the window of the last event that opened an edge.                  *)
Collapses(time) == last > 0 /\ time > last /\ time - last < NetworkWindow

(* aggregate_network_event: find_edge returns the newest parallel edge.      *)
Aggregate ==
  LET edge == conns[Len(conns)]
  IN  [conns EXCEPT ![Len(conns)] =
         [time |-> edge.time, bytes |-> edge.bytes + Bytes, count |-> edge.count + 1,
          confidence |-> IF edge.confidence + Boost > MaxConfidence THEN MaxConfidence
                         ELSE edge.confidence + Boost]]

Collapse(time) ==
  /\ Collapses(time)
  /\ conns' = Aggregate
  /\ updates' = Append(updates, [type |-> "more", bytes |-> Bytes])
  /\ collapsed' = collapsed + 1
  /\ UNCHANGED <<attempts, last>>

(* correlate_with_libraries: an edge from every library loaded not too long  *)
(* before, for each of its loads.                                            *)
CorrelateWithLibraries(time) ==
  attempts' = IF time < MmapWindow
                THEN [l \in Libs |-> attempts[l] + loads[l]] ELSE attempts

(* Faulty: the window is measured from the latest time seen.                 *)
OpenEdgeLatest(time) ==
  /\ ~ Collapses(time)
  /\ last' = IF time > last THEN time ELSE last
  /\ conns' = Append(conns, [time |-> time, bytes |-> Bytes, count |-> 1,
                             confidence |-> NewConfidence])
  /\ CorrelateWithLibraries(time)
  /\ updates' = Append(updates, [type |-> "conn", bytes |-> Bytes])
  /\ UNCHANGED collapsed

(* A new edge, and those the libraries of the graph add to it.               *)
OpenEdge(time) ==
  /\ ~ Collapses(time)
  /\ last' = time
  /\ conns' = Append(conns, [time |-> time, bytes |-> Bytes, count |-> 1,
                             confidence |-> NewConfidence])
  /\ CorrelateWithLibraries(time)
  /\ updates' = Append(updates, [type |-> "conn", bytes |-> Bytes])
  /\ UNCHANGED collapsed

(* process_network_event, for the next signal of the workload. Signals come  *)
(* in the order the consumer applied them, workloads in the order of ids.    *)
Transfer(time) ==
  /\ pc = "busy" /\ left = {}
  /\ transfers < MaxTransfers
  /\ Collapse(time) \/ OpenEdge(time)
  /\ transfers' = transfers + 1
  /\ UNCHANGED <<workVars, loads, vulnerable, report, told>>

(* Faulty: the updates are read but not taken.                               *)
ReportKeepsUpdates ==
  /\ pc = "busy" /\ left = {}
  /\ \E opened \in SUBSET found :
       \E r \in Rankings(Reachable(opened)) : report' = Top(r)
  /\ told' = HearAll(told, updates)
  /\ pc' = "idle"
  /\ UNCHANGED <<left, loaded, found, calls, loads, vulnerable, conns, attempts,
                 last, updates, collapsed, transfers>>

(* get_top_k_paths, drain_updates, attach_attack_paths_to_findings.          *)
Report ==
  /\ pc = "busy" /\ left = {}
  /\ \E opened \in SUBSET found :
       \E r \in Rankings(Reachable(opened)) : report' = Top(r)
  /\ told' = HearAll(told, updates)
  /\ updates' = <<>>
  /\ pc' = "idle"
  /\ UNCHANGED <<left, loaded, found, calls, loads, vulnerable, conns, attempts,
                 last, collapsed, transfers>>

Next ==
  \/ Begin
  \/ \E lib \in Libs : LoadLibrary(lib)
  \/ \E time \in 1 .. MaxTime : Transfer(time)
  \/ Report

Spec == Init /\ [][Next]_vars
-----------------------------------------------------------------------------
Edge == [time : 1 .. MaxTime, bytes : Nat, count : Nat \ {0},
         confidence : NewConfidence .. MaxConfidence]

Update == [type : {"load"}, lib : Libs] \cup [type : {"conn", "more"}, bytes : Nat]

(* The types; what is left of a workload is not loaded yet.                  *)
TypeOK ==
  /\ pc \in Stages
  /\ left \in SUBSET Libs /\ loaded \in SUBSET (Libs \ left)
  /\ found \in SUBSET Cves
  /\ loads \in [Libs -> Nat]
  /\ vulnerable \in [Cves -> [Libs -> Nat]]
  /\ conns \in Seq(Edge)
  /\ attempts \in [Libs -> Nat]
  /\ last \in 0 .. MaxTime
  /\ updates \in Seq(Update)
  /\ {collapsed, calls, transfers} \subseteq Nat
  /\ report \in Seq(Cves)

(* Bursts collapse: of two connections opened one after the other, the       *)
(* later in time is at least a window later, whatever came out of order.     *)
BurstsCollapse ==
  \A i \in 1 .. Len(conns) - 1 :
    conns[i + 1].time > conns[i].time
      => conns[i + 1].time - conns[i].time >= NetworkWindow

(* Aggregation loses nothing: every transfer opened an edge or is counted as *)
(* collapsed, and is counted, with its bytes, by exactly one edge; and the   *)
(* stream of updates tells it: replayed from the start it gives the loads,   *)
(* connections and bytes that the graph holds. (process_network_event,       *)
(* aggregate_network_event, drain_updates)                                   *)
TransfersConserved ==
  LET bytes == SumFunction([i \in DOMAIN conns |-> conns[i].bytes])
  IN  /\ transfers = Len(conns) + collapsed
      /\ transfers = SumFunction([i \in DOMAIN conns |-> conns[i].count])
      /\ transfers * Bytes = bytes
      /\ HearAll(told, updates) = [loads |-> loads, edges |-> Len(conns), bytes |-> bytes]

(* The guard of enforcement: a path is good enough only with the whole chain *)
(* from CVE to network and a CVE that others exploit, however many parallel  *)
(* edges make it look deep.                                                  *)
EnforceableIsEvident ==
  \A v \in Cves : Enforceable(v) => HasNetwork(v) /\ v \in Kev \cup HighEpss

(* The report does not prefer a CVE without any evidence, even one that      *)
(* others exploit, to one with network activity that scores no less.         *)
EvidenceRanksFirst ==
  pc = "idle" =>
    \A i \in DOMAIN report, v \in Reachable({}) :
      /\ HasNetwork(v) /\ ~ HasLibrary(report[i])
      /\ Score[v] >= Score[report[i]] /\ Score[v] > 0
      => \E j \in 1 .. i - 1 : report[j] = v
=============================================================================
