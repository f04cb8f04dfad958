----------------------------- MODULE FindingPath -----------------------------
(***************************************************************************)
(* From a scan to an exported finding (main.rs run_analysis_pipeline and   *)
(* scan_image) next to the task that refreshes the threat intelligence     *)
(* (intel.rs). The pipeline holds the read guard of the intel for the      *)
(* whole scan; the refresher writes the KEV catalog and the EPSS scores    *)
(* under the write lock, one after the other. tokio's lock is fair: a      *)
(* writer in the queue goes before the next reader. Findings are then      *)
(* exported one by one, endpoint by endpoint, with retries (webhook.rs).   *)
(***************************************************************************)
EXTENDS RiskScoring, SequencesExt

CONSTANTS
  Cves,
  CvssOf,       (* [Cves -> CvssValues]                                      *)
  Endpoints,    (* number of webhook endpoints; main adds one at most        *)
  MinRank,      (* min_priority of the endpoints; main's is High, 3          *)
  MaxRetries    (* max_retries; main's is 3                                  *)

ASSUME FindingAssumption ==
  /\ IsFiniteSet(Cves) /\ CvssOf \in [Cves -> CvssValues] /\ 0 \in EpssValues
  /\ Endpoints \in Nat /\ MinRank \in 0 .. 4 /\ MaxRetries \in Nat \ {0}

VARIABLES
  kev, epss,    (* IntelState; an epss of 0 stands for no entry as well      *)
  refresher,    (* "idle", "fetchKev", "writeKev", "fetchEpss", "writeEpss"  *)
  fetched,      (* the answer the refresher waits to write                   *)
  pipeline,     (* "idle", "scanning", "handling"                            *)
  work,         (* findings of the workload still to be handled              *)
  endpoint,     (* the endpoint in turn for the first of them                *)
  export,       (* of that finding to that endpoint, see NoExport            *)
  judged,       (* history: the intel when the scan of the round began       *)
  settled       (* history: the export that ended just now, or NoExport      *)

intelVars == <<kev, epss, refresher, fetched>>
roundVars == <<pipeline, work, endpoint, export, judged, settled>>
findingVars == <<intelVars, roundVars>>

(* tries: attempts. taken: history, how often the endpoint took it. silent:  *)
(* history, attempts it took without an answer. last: the reply.             *)
NoExport == [tries |-> 0, taken |-> 0, silent |-> 0, last |-> "none"]

NoIntel == [kev |-> {}, epss |-> [c \in Cves |-> 0]]

FindingInit ==
  /\ kev = {} /\ epss = [c \in Cves |-> 0]
  /\ refresher = "idle" /\ fetched = {}
  /\ pipeline = "idle" /\ work = <<>> /\ endpoint = 1 /\ export = NoExport
  /\ judged = NoIntel /\ settled = NoExport
-----------------------------------------------------------------------------
(* The refresher. An answer that cannot be fetched leaves what was there.    *)
RefreshTick ==
  /\ refresher = "idle" /\ refresher' = "fetchKev"
  /\ UNCHANGED <<kev, epss, fetched, roundVars>>

FetchKev ==
  /\ refresher = "fetchKev"
  /\ \/ \E S \in SUBSET Cves : fetched' = S /\ refresher' = "writeKev"
     \/ refresher' = "fetchEpss" /\ UNCHANGED fetched
  /\ UNCHANGED <<kev, epss, roundVars>>

(* Faulty: the catalog is written without the lock.                          *)
WriteKevUnlocked ==
  /\ refresher = "writeKev"
  /\ kev' = fetched /\ fetched' = {} /\ refresher' = "fetchEpss"
  /\ UNCHANGED <<epss, roundVars>>

(* The catalog replaces the one before.                                      *)
WriteKev ==
  /\ refresher = "writeKev" /\ pipeline # "scanning"
  /\ kev' = fetched /\ fetched' = {} /\ refresher' = "fetchEpss"
  /\ UNCHANGED <<epss, roundVars>>

(* The answer is a page of scores: some CVEs with their scores.              *)
FetchEpss ==
  /\ refresher = "fetchEpss"
  /\ \/ \E c \in Cves, e \in EpssValues : fetched' = {<<c, e>>} /\ refresher' = "writeEpss"
     \/ refresher' = "idle" /\ UNCHANGED fetched
  /\ UNCHANGED <<kev, epss, roundVars>>

(* The scores are merged into those before.                                  *)
WriteEpss ==
  /\ refresher = "writeEpss" /\ pipeline # "scanning"
  /\ epss' = [c \in Cves |-> IF \E p \in fetched : p[1] = c
                             THEN (CHOOSE p \in fetched : p[1] = c)[2] ELSE epss[c]]
  /\ fetched' = {} /\ refresher' = "idle"
  /\ UNCHANGED <<kev, roundVars>>
-----------------------------------------------------------------------------
(* Faulty: a reader is let in before the writer in the queue.                *)
BeginScanAhead ==
  /\ pipeline = "idle"
  /\ pipeline' = "scanning" /\ judged' = [kev |-> kev, epss |-> epss]
  /\ UNCHANGED <<intelVars, work, endpoint, export, settled>>

(* scan_image takes the read guard, then starts Trivy.                       *)
BeginScan ==
  /\ pipeline = "idle" /\ refresher \notin {"writeKev", "writeEpss"}
  /\ pipeline' = "scanning" /\ judged' = [kev |-> kev, epss |-> epss]
  /\ UNCHANGED <<intelVars, work, endpoint, export, settled>>

SignalOf(c, runtime, weight) ==
  [cvss |-> CvssOf[c], epss |-> epss[c], kev |-> c \in kev,
   runtime |-> runtime, weight |-> weight]

FindingOf(c, s) == [cve |-> c, kev |-> s.kev, epss |-> s.epss, rank |-> Evaluate(s)]

Judge(found) ==
  /\ pipeline' = IF found = {} THEN "idle" ELSE "handling"
  /\ work' = SetToSeq(found)
  /\ judged' = IF found = {} THEN NoIntel ELSE judged
  /\ UNCHANGED <<intelVars, endpoint, export, settled>>

RuntimeOf(c, loaded) == IF c \in loaded THEN "Reachable" ELSE "Dormant"

(* Trivy's report: each vulnerability is reachable if a path of the workload *)
(* matches its package, and only then do the signals add weight              *)
(* (runtime_correlation.rs). The guard goes at the return.                   *)
Report ==
  /\ pipeline = "scanning"
  /\ \E reported \in SUBSET Cves, w \in Weights : \E loaded \in SUBSET reported :
       Judge({f \in {FindingOf(c, SignalOf(c, RuntimeOf(c, loaded),
                                           IF c \in loaded THEN w ELSE 0)) : c \in reported} :
                f.rank > 0})

(* classify_runtime_paths: the components of the image's SBOM, reachable by  *)
(* a path of theirs that the workload opened or loaded (sbom.rs).            *)
Classified(components, observed) ==
  [c \in components |-> IF c \in observed THEN "Reachable" ELSE "Dormant"]

(* Instead of a report: each component of the SBOM with the weight of the    *)
(* whole workload.                                                           *)
JudgeSbom ==
  \E known \in SUBSET Cves, w \in Weights : \E observed \in SUBSET known :
    LET runtime == Classified(known, observed)
    IN  Judge({f \in {FindingOf(c, SignalOf(c, runtime[c], w)) : c \in known} : f.rank > 0})

(* scan_image of vuln_detector.rs fails: Trivy is not there, runs out of     *)
(* time or prints what is not JSON. Its exit status does not matter.         *)
ScanFails == pipeline = "scanning" /\ JudgeSbom

Accepts(f) == f.rank >= MinRank   (* should_export *)

(* Faulty: the first attempt counts as a retry.                              *)
LastAttemptEarly(x) == x.last \in {"ok", "refused"} \/ x.tries + 1 >= MaxRetries

(* export_finding returns at a success, breaks at a 4xx and otherwise tries  *)
(* until the attempts are used up.                                           *)
LastAttempt(x) == x.last \in {"ok", "refused"} \/ x.tries >= MaxRetries

(* One request. "lost" never arrived, "silent" arrived and was not answered  *)
(* in time; "failed" is a 5xx, which took nothing.                           *)
Attempt(reply) ==
  LET x == [tries  |-> export.tries + 1,
            taken  |-> export.taken + (IF reply \in {"ok", "silent"} THEN 1 ELSE 0),
            silent |-> export.silent + (IF reply = "silent" THEN 1 ELSE 0),
            last   |-> reply]
  IN
    /\ pipeline = "handling" /\ endpoint <= Endpoints /\ Accepts(Head(work))
    /\ IF LastAttempt(x)
       THEN export' = NoExport /\ endpoint' = endpoint + 1 /\ settled' = x
       ELSE export' = x /\ settled' = NoExport /\ UNCHANGED endpoint
    /\ UNCHANGED <<intelVars, pipeline, work, judged>>

SkipEndpoint ==
  /\ pipeline = "handling" /\ endpoint <= Endpoints /\ ~Accepts(Head(work))
  /\ endpoint' = endpoint + 1 /\ settled' = NoExport
  /\ UNCHANGED <<intelVars, pipeline, work, export, judged>>

(* A critical finding is handed to the remediator; that it is waited for is  *)
(* the time until this step, and its answer (at once, from the mock of the   *)
(* default build) is only logged. After the last one the attack paths are    *)
(* attached and the round goes on to the next workload.                      *)
FinishFinding ==
  /\ pipeline = "handling" /\ endpoint > Endpoints
  /\ work' = Tail(work) /\ endpoint' = 1 /\ settled' = NoExport
  /\ pipeline' = IF Tail(work) = <<>> THEN "idle" ELSE "handling"
  /\ judged' = IF Tail(work) = <<>> THEN NoIntel ELSE judged
  /\ UNCHANGED <<intelVars, export>>

Refresh == FetchKev \/ WriteKev \/ FetchEpss \/ WriteEpss

Export == \E reply \in {"ok", "refused", "failed", "lost", "silent"} : Attempt(reply)

Handle == Export \/ SkipEndpoint \/ FinishFinding

FindingNext ==
  (RefreshTick \/ Refresh \/ BeginScan \/ Report \/ ScanFails \/ Handle) /\ UNCHANGED signal
-----------------------------------------------------------------------------
(* The findings of a workload are judged by one state of the intel, the one  *)
(* at the start of its scan, however long the scan takes and whatever the    *)
(* refresher has fetched meanwhile. (main.rs scan_image, intel.rs refresh)   *)
JudgedByOneIntelState ==
  \A f \in ToSet(work) :
    f.kev = (f.cve \in judged.kev) /\ f.epss = judged.epss[f.cve]

(* An export x that ended: what was taken twice was let go unanswered    *)
(* before, and what was never taken was refused or tried often enough.       *)
(* (webhook.rs export_finding)                                               *)
Accounted(x) ==
  x # NoExport =>
    /\ x.taken <= x.silent + 1
    /\ x.taken = 0 => x.last = "refused" \/ x.tries = MaxRetries
    /\ x.tries <= MaxRetries

(* No scan, however slow, keeps the intel from being renewed, and no refresh *)
(* or endpoint keeps a round from ending.                                    *)
RefreshesAndRoundsEnd ==
  /\ (refresher # "idle") ~> (refresher = "idle")
  /\ (pipeline # "idle") ~> (pipeline = "idle")
=============================================================================
