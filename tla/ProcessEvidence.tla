--------------------------- MODULE ProcessEvidence ---------------------------
(***************************************************************************)
(* RuntimeMapper of runtime_mapper.rs: which vulnerable libraries each     *)
(* process has loaded, from events that process_events takes in batches:   *)
(* all execs of a batch first, then its file events, then its network      *)
(* events, whatever the order they happened in.                            *)
(***************************************************************************)
EXTENDS Naturals, Sequences

CONSTANTS
  Tracked,     (* pids                                                       *)
  Libraries,
  Vulns,       (* vulnerabilities of the image or SBOM scans                 *)
  Affects,     (* pairs <<v, l>>: library_matches_package                    *)
  Batches,     (* bound: the batches that come, sequences of events          *)
  MaxReports   (* bound: how often a process lists a vulnerability           *)

Event == [kind : {"exec", "net"}, pid : Tracked]
           \union [kind : {"mmap"}, pid : Tracked, lib : Libraries]

ASSUME EvidenceAssumption ==
  /\ Affects \subseteq Vulns \X Libraries /\ MaxReports \in Nat \ {0}
  /\ \A batch \in Batches : batch \in Seq(Event)

VARIABLES
  package_vulns,  (* known at present                                        *)
  processes,      (* per pid: [running, loaded_libs, connected, reports]     *)
  lib_vulns,      (* cache: the vulnerabilities found for a library          *)
  mapped,         (* history: per pid, libraries mapped since its last exec  *)
  mixed           (* history: pids whose last batch with an exec had a       *)
                  (* library before it                                       *)

evidenceVars == <<package_vulns, processes, lib_vulns, mapped, mixed>>

(* reports: how often each vulnerability is in the list of the process.      *)
Empty(running) == [running |-> running, loaded_libs |-> {}, connected |-> FALSE,
                   reports |-> [v \in Vulns |-> 0]]

NoProcess == Empty(FALSE)

EvidenceInit ==
  /\ package_vulns = {}
  /\ processes = [p \in Tracked |-> NoProcess]
  /\ lib_vulns = [l \in {} |-> {}]
  /\ mapped = [p \in Tracked |-> {}] /\ mixed = {}
-----------------------------------------------------------------------------

(* set_vulnerabilities; what processes list already stays.                   *)
SetVulnerabilities ==
  /\ \E S \in SUBSET Vulns : package_vulns' = S
  /\ lib_vulns' = [l \in {} |-> {}]
  /\ UNCHANGED <<processes, mapped, mixed>>

(* The handlers, on a state [procs, cached]. handle_exec: a new image has    *)
(* none of what the pid had before.                                          *)
HandleExec(s, e) ==
  [procs |-> [s.procs EXCEPT ![e.pid] = Empty(TRUE)], cached |-> s.cached]

(* scan_library, only on a miss of the cache.                                *)
VulnsOf(s, l) ==
  IF l \in DOMAIN s.cached THEN s.cached[l]
  ELSE {v \in package_vulns : <<v, l>> \in Affects}

(* handle_file, for the mmap of a shared library: others are passed over, as *)
(* is a pid without an exec.                                                 *)
HandleFile(s, e) ==
  IF ~s.procs[e.pid].running THEN s
  ELSE LET found == VulnsOf(s, e.lib)
           before == s.procs[e.pid]
           loaded == [running |-> TRUE, connected |-> before.connected,
                      loaded_libs |-> before.loaded_libs \union {e.lib},
                      reports |-> [v \in Vulns |->
                        before.reports[v] + (IF v \in found THEN 1 ELSE 0)]]
       IN [procs |-> [s.procs EXCEPT ![e.pid] = loaded],
           cached |-> [l \in DOMAIN s.cached \union {e.lib} |->
                         IF l = e.lib THEN found ELSE s.cached[l]]]

(* handle_network, for the ports 80 and 443.                                 *)
HandleNetwork(s, e) ==
  IF ~s.procs[e.pid].running THEN s
  ELSE LET before == s.procs[e.pid]
           reached == [running |-> TRUE, connected |-> TRUE,
                       loaded_libs |-> before.loaded_libs, reports |-> before.reports]
       IN [procs |-> [s.procs EXCEPT ![e.pid] = reached], cached |-> s.cached]

HandleEvent(s, e) ==
  IF e.kind = "exec" THEN HandleExec(s, e)
  ELSE IF e.kind = "mmap" THEN HandleFile(s, e) ELSE HandleNetwork(s, e)

(* A loop of process_events: the events of one kind, in order.               *)
AfterKind(s, batch, kind) ==
  LET after[n \in 0 .. Len(batch)] ==
        IF n = 0 THEN s
        ELSE IF batch[n].kind = kind THEN HandleEvent(after[n - 1], batch[n])
        ELSE after[n - 1]
  IN after[Len(batch)]

(* Faulty: files before execs.                                               *)
FilesFirst(s, batch) ==
  AfterKind(AfterKind(AfterKind(s, batch, "mmap"), batch, "exec"), batch, "net")

ExecsFirst(s, batch) ==
  AfterKind(AfterKind(AfterKind(s, batch, "exec"), batch, "mmap"), batch, "net")

(* The history: what really happened in a batch.                             *)
ExecsOf(batch, p) == {i \in DOMAIN batch : batch[i].kind = "exec" /\ batch[i].pid = p}
MapsOf(batch, p) == {i \in DOMAIN batch : batch[i].kind = "mmap" /\ batch[i].pid = p}

MappedAfter(batch, p) ==
  {batch[i].lib : i \in {k \in MapsOf(batch, p) : \A j \in ExecsOf(batch, p) : j < k}}
    \union (IF ExecsOf(batch, p) = {} THEN mapped[p] ELSE {})

LibraryBeforeExec(batch, p) == \E i \in MapsOf(batch, p), j \in ExecsOf(batch, p) : i < j

ProcessBatch(batch) ==
  LET s == ExecsFirst([procs |-> processes, cached |-> lib_vulns], batch) IN
    /\ \A p \in Tracked, v \in Vulns : s.procs[p].reports[v] <= MaxReports
    /\ processes' = s.procs /\ lib_vulns' = s.cached
    /\ mapped' = [p \in Tracked |-> MappedAfter(batch, p)]
    /\ mixed' = {p \in Tracked : \/ LibraryBeforeExec(batch, p)
                                 \/ p \in mixed /\ ExecsOf(batch, p) = {}}
    /\ UNCHANGED package_vulns

(* An exit the mapper is told of; no caller does.                            *)
RemoveProcess(p) ==
  /\ processes' = [processes EXCEPT ![p] = NoProcess]
  /\ UNCHANGED <<package_vulns, lib_vulns, mapped, mixed>>

EvidenceNext ==
  \/ SetVulnerabilities
  \/ \E batch \in Batches : ProcessBatch(batch)
  \/ \E p \in Tracked : RemoveProcess(p)

EvidenceSpec == EvidenceInit /\ [][EvidenceNext]_evidenceVars

(* The report of process_events.                                             *)
Risks == {r \in Tracked \X Vulns : processes[r[1]].reports[r[2]] > 0}
-----------------------------------------------------------------------------
(* What a process is charged with is what it runs: its libraries are those   *)
(* mapped since its last exec, unless a batch held a library and a later     *)
(* exec of the pid; each vulnerability reported is one of a library listed;  *)
(* and the cache agrees with the scan it stands for.                         *)
(* (runtime_mapper.rs process_events, handle_exec, handle_file)              *)
ChargesFollowTheImage ==
  /\ \A p \in Tracked :
       processes[p].running /\ p \notin mixed => processes[p].loaded_libs = mapped[p]
  /\ \A r \in Risks : \E l \in processes[r[1]].loaded_libs : <<r[2], l>> \in Affects
  /\ \A l \in DOMAIN lib_vulns : lib_vulns[l] = {v \in package_vulns : <<v, l>> \in Affects}
=============================================================================
