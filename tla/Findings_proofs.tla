--------------------------- MODULE Findings_proofs ---------------------------
(***************************************************************************)
(* The way of a finding. A signal that only worsens is never ranked lower, *)
(* for every minimum of the configuration and every set of values. Then    *)
(* the round, the refresher of the intel and the batch exporter, in any    *)
(* interleaving and for every set of CVEs, number of endpoints, minimum    *)
(* rank, retries, batch size and timeout: one state of the intel judges a  *)
(* workload, and no finding is lost or repeated without a trace. Then, for *)
(* any number of callers, any life of an entry and any limit of the        *)
(* history, the cached scores catch up with the signal; for every set of   *)
(* policy files an evaluation asks one list; a workload is misnamed only   *)
(* on a node with more than one container; and what was logged stays       *)
(* readable. Last, what rests on folds over sequences, of any length: the  *)
(* detectors are quiet about what is steady, the execution proof tells the *)
(* calls that were made, a process is charged with what its image mapped,  *)
(* and the ring of findings and the evidence of a workload lose only to    *)
(* their limits.                                                           *)
(***************************************************************************)
EXTENDS BatchExport, ScoreCache, PolicyEngine, NameCaches, AuditTrail, Detectors, ExecutionProof,
        ProcessEvidence, RuntimeState, InductionFacts, TLAPS, FiniteSetTheorems, SequenceTheorems

(* The score: a sum of parts each of which is monotone, and so is its clamp; *)
(* the rank follows from it and from KEV.                                    *)
LEMMA SignalParts ==
  ASSUME NEW s \in Signals
  PROVE  /\ s.cvss \in Int /\ s.epss \in Int /\ s.weight \in Int
         /\ s.kev \in BOOLEAN /\ s.runtime \in Dispositions
  BY ScoringAssumption DEF Signals

LEMMA ExposureTyped ==
  ASSUME NEW r \in Dispositions
  PROVE  Exposure(r) \in {50, 75, 200}
  BY DEF Exposure, Dispositions

(* Only what is reachable has the exposure of what is reachable.             *)
LEMMA ReachableOnTop ==
  ASSUME NEW r \in Dispositions, NEW q \in Dispositions,
         r = "Reachable", Exposure(r) <= Exposure(q)
  PROVE  q = "Reachable"
  BY DEF Exposure, Dispositions

LEMMA BoostMonotone ==
  ASSUME NEW m \in Int, NEW n \in Int, m <= n
  PROVE  Boost(m) \in Int /\ Boost(n) \in Int /\ Boost(m) <= Boost(n)
  BY DEF Boost, Least

-----------------------------------------------------------------------------
(* What the sum of calculate_exf_score is made of.                           *)
Kev(s) == IF s.kev THEN 150 ELSE 0
Raw(s) == 5 * Clamp(s.cvss, 0, 100) + 3 * Clamp(s.epss, 0, 100)
            + Kev(s) + Exposure(s.runtime) + Boost(s.weight)

LEMMA RawTyped ==
  ASSUME NEW s \in Signals
  PROVE  Raw(s) \in Int /\ Score(s) = Clamp(Raw(s), 0, 1000)
<1>1. Clamp(s.cvss, 0, 100) \in Int /\ Clamp(s.epss, 0, 100) \in Int
  BY SignalParts DEF Clamp
<1>2. Exposure(s.runtime) \in Int
  BY SignalParts, ExposureTyped
<1>3. Boost(s.weight) \in Int
  BY SignalParts, BoostMonotone
<1>4. Kev(s) \in Int
  BY DEF Kev
<1>5. Raw(s) \in Int
  BY <1>1, <1>2, <1>3, <1>4 DEF Raw
<1>6. Score(s) = Clamp(Raw(s), 0, 1000)
  BY Zenon DEF Score, Raw, Kev
<1> QED BY <1>5, <1>6

(* The score of the code is one of 0 to 10 points, in hundredths.            *)
THEOREM ScoreInRange ==
  ASSUME NEW s \in Signals
  PROVE  Score(s) \in 0 .. 1000
<1>1. Raw(s) \in Int /\ Score(s) = Clamp(Raw(s), 0, 1000)
  BY RawTyped
<1> QED BY <1>1 DEF Clamp

LEMMA ScoreMonotone ==
  ASSUME NEW s \in Signals, NEW t \in Signals, Worsens(s, t)
  PROVE  Score(s) <= Score(t)
<1>1. /\ Clamp(s.cvss, 0, 100) \in Int /\ Clamp(t.cvss, 0, 100) \in Int
      /\ Clamp(s.cvss, 0, 100) <= Clamp(t.cvss, 0, 100)
  BY SignalParts DEF Worsens, Clamp
<1>2. /\ Clamp(s.epss, 0, 100) \in Int /\ Clamp(t.epss, 0, 100) \in Int
      /\ Clamp(s.epss, 0, 100) <= Clamp(t.epss, 0, 100)
  BY SignalParts DEF Worsens, Clamp
<1>3. /\ Exposure(s.runtime) \in Int /\ Exposure(t.runtime) \in Int
      /\ Exposure(s.runtime) <= Exposure(t.runtime)
  BY SignalParts, ExposureTyped DEF Worsens
<1>4. /\ Boost(s.weight) \in Int /\ Boost(t.weight) \in Int
      /\ Boost(s.weight) <= Boost(t.weight)
  BY SignalParts, BoostMonotone DEF Worsens
<1>5. Kev(s) \in Int /\ Kev(t) \in Int /\ Kev(s) <= Kev(t)
  <2>1. s.kev => t.kev
    BY DEF Worsens
  <2>2. CASE s.kev
    BY <2>1, <2>2 DEF Kev
  <2>3. CASE ~s.kev
    BY <2>3 DEF Kev
  <2> QED BY <2>2, <2>3
<1>6. Raw(s) <= Raw(t)
  BY <1>1, <1>2, <1>3, <1>4, <1>5 DEF Raw
<1> QED BY <1>6, RawTyped DEF Clamp

(* The early returns of evaluate let no worse signal drop out.               *)
LEMMA ConsideredMonotone ==
  ASSUME NEW s \in Signals, NEW t \in Signals, Worsens(s, t), Considered(s)
  PROVE  Considered(t)
<1>1. CASE s.kev
  BY <1>1 DEF Worsens, Considered
<1>2. CASE ~s.kev
  <2>1. s.cvss >= MinimumCvss /\ s.epss >= MinimumEpss /\ s.runtime = "Reachable"
    BY <1>2, Zenon DEF Considered
  <2>2. s.cvss <= t.cvss /\ s.epss <= t.epss /\ Exposure(s.runtime) <= Exposure(t.runtime)
    BY Zenon DEF Worsens
  <2>3. t.cvss >= MinimumCvss /\ t.epss >= MinimumEpss
    BY <2>1, <2>2, SignalParts, ScoringAssumption
  <2>4. t.runtime = "Reachable"
    BY <2>1, <2>2, SignalParts, ReachableOnTop
  <2> QED BY <2>3, <2>4, Zenon DEF Considered
<1> QED BY <1>1, <1>2

(* The priority as a function of the score and of KEV alone.                 *)
Ranked(score, exploited) ==
  IF score >= 900 THEN 4
  ELSE IF exploited \/ score >= 800 THEN 3
  ELSE IF score >= 600 THEN 2
  ELSE IF score >= 400 THEN 1 ELSE 0

LEMMA PriorityIsRanked ==
  ASSUME NEW s \in Signals
  PROVE  PriorityOf(s) = Ranked(Score(s), s.kev)
<1> DEFINE score == Score(s)
<1>1. score \in Int
  BY ScoreInRange
<1> HIDE DEF score
<1>2. CASE s.kev
  BY <1>1, <1>2 DEF PriorityOf, Ranked, score
<1>3. CASE ~s.kev
  BY <1>1, <1>3 DEF PriorityOf, Ranked, score
<1> QED BY <1>2, <1>3 DEF score

LEMMA RankedMonotone ==
  ASSUME NEW m \in Int, NEW n \in Int, m <= n,
         NEW k \in BOOLEAN, NEW l \in BOOLEAN, k => l
  PROVE  /\ Ranked(m, k) \in 0 .. 4 /\ Ranked(n, l) \in 0 .. 4
         /\ Ranked(m, k) <= Ranked(n, l)
<1>1. CASE k
  BY <1>1 DEF Ranked
<1>2. CASE ~k /\ l
  BY <1>2 DEF Ranked
<1>3. CASE ~k /\ ~l
  BY <1>3 DEF Ranked
<1> QED BY <1>1, <1>2, <1>3

LEMMA EvaluateMonotone ==
  ASSUME NEW s \in Signals, NEW t \in Signals, Worsens(s, t)
  PROVE  Evaluate(s) <= Evaluate(t)
<1>1. Score(s) \in Int /\ Score(t) \in Int /\ Score(s) <= Score(t)
  BY SMTT(60), ScoreInRange, ScoreMonotone
<1>2. s.kev \in BOOLEAN /\ t.kev \in BOOLEAN /\ (s.kev => t.kev)
  BY SignalParts DEF Worsens
<1>3. /\ Ranked(Score(s), s.kev) \in 0 .. 4 /\ Ranked(Score(t), t.kev) \in 0 .. 4
      /\ Ranked(Score(s), s.kev) <= Ranked(Score(t), t.kev)
  BY <1>1, <1>2, RankedMonotone
<1>4. /\ PriorityOf(s) \in 0 .. 4 /\ PriorityOf(t) \in 0 .. 4
      /\ PriorityOf(s) <= PriorityOf(t)
  BY <1>3, PriorityIsRanked
<1>5. CASE Considered(s)
  BY <1>4, <1>5, ConsideredMonotone DEF Evaluate
<1>6. CASE ~Considered(s)
  BY <1>4, <1>6 DEF Evaluate
<1> QED BY <1>5, <1>6
-----------------------------------------------------------------------------
ScoringSpec == ScoringInit /\ [][ScoringNext]_signal

LEMMA SignalTyped == ScoringSpec => [](signal \in Signals)
<1>1. ScoringInit => signal \in Signals
  BY DEF ScoringInit
<1>2. signal \in Signals /\ [ScoringNext]_signal => (signal \in Signals)'
  BY DEF ScoringNext, KevListed, KevWithdrawn, EpssMoves, CvssMoves, SeenAtRuntime, Signals
<1> QED BY <1>1, <1>2, PTL DEF ScoringSpec

(* However a signal moves between rounds, through the thresholds, the caps   *)
(* and the KEV rules of evaluate: what only gets worse is not ranked lower   *)
(* and stays a finding.                                                      *)
THEOREM WorseNeverRanksLower == ScoringSpec => WorseIsNeverRankedLower
<1>1. /\ signal \in Signals /\ (signal \in Signals)'
      => [Worsens(signal, signal') => Evaluate(signal) <= Evaluate(signal')]_signal
  BY EvaluateMonotone
<1> QED BY <1>1, SignalTyped, PTL DEF ScoringSpec, WorseIsNeverRankedLower
-----------------------------------------------------------------------------
(* The round, the refresher and the exporter.                                *)
allVars == <<signal, findingVars, batchVars>>

ExportNext ==
  \/ FindingNext /\ UNCHANGED batchVars
  \/ BatchNext /\ UNCHANGED <<signal, findingVars>>

ExportSpec == ScoringInit /\ FindingInit /\ BatchInit /\ [][ExportNext]_allVars

Replies == {"none", "ok", "refused", "failed", "lost", "silent"}
Finding == [cve : Cves, kev : BOOLEAN, epss : EpssValues, rank : 0 .. 4]
Transfer == [tries : Nat, taken : Nat, silent : Nat, last : Replies]
-----------------------------------------------------------------------------
(* Sequences and finite sets                                               *)

LEMMA TailKeeps ==
  ASSUME NEW S, NEW s \in Seq(S), s # <<>>
  PROVE  /\ Tail(s) \in Seq(S)
         /\ \A i \in DOMAIN Tail(s) : i + 1 \in DOMAIN s /\ Tail(s)[i] = s[i + 1]
  OBVIOUS

LEMMA FoundFinite ==
  ASSUME NEW reported \in SUBSET Cves, NEW g, g = [c \in reported |-> g[c]]
  PROVE  IsFiniteSet({f \in {g[c] : c \in reported} : f.rank > 0})
<1> DEFINE T == {g[c] : c \in reported}
<1>1. IsFiniteSet(reported)
  BY FindingAssumption, FS_Subset
<1>2. g \in Surjection(reported, T)
  BY DEF Surjection
<1>3. IsFiniteSet(T)
  BY <1>1, <1>2, FS_Surjection
<1> QED BY <1>3, FS_Subset

LEMMA SomeOrder ==
  ASSUME NEW S, IsFiniteSet(S)
  PROVE  /\ SetToSeq(S) \in Seq(S)
         /\ S # {} => SetToSeq(S) # <<>>
         /\ S = {} => SetToSeq(S) = <<>>
<1> DEFINE n == Cardinality(S)
<1>1. n \in Nat /\ ExistsBijection(1 .. n, S)
  BY FS_CardinalityType
<1>2. \E f \in [1 .. n -> S] : IsInjective(f)
  BY <1>1 DEF ExistsBijection, Bijection, Injection, IsInjective
<1>3. SetToSeq(S) \in [1 .. n -> S]
  BY <1>2 DEF SetToSeq
<1>4. S # {} <=> n # 0
  BY FS_EmptySet
<1> HIDE DEF n
<1> QED BY <1>1, <1>3, <1>4
-----------------------------------------------------------------------------
(* The round and the refresher                                             *)

(* Of the variables of a round; while a scan runs, the intel is the one it   *)
(* began with, and nothing is left of the workload before.                   *)
RoundTypeOK ==
  /\ epss \in [Cves -> EpssValues]
  /\ pipeline \in {"idle", "scanning", "handling"}
  /\ work \in Seq(Finding)
  /\ pipeline = "handling" <=> work # <<>>

FetchedTyped == refresher = "writeEpss" => fetched \subseteq Cves \X EpssValues

ScanReadsOneState == pipeline = "scanning" => judged = [kev |-> kev, epss |-> epss]

RoundInv == RoundTypeOK /\ FetchedTyped /\ ScanReadsOneState /\ JudgedByOneIntelState

LEMMA RoundInit == ASSUME FindingInit PROVE RoundInv
<1>1. epss \in [Cves -> EpssValues]
  BY FindingAssumption DEF FindingInit
<1>2. work = <<>> /\ pipeline = "idle"
  BY DEF FindingInit
<1>3. RoundTypeOK
  BY <1>1, <1>2 DEF RoundTypeOK
<1>4. ScanReadsOneState
  BY <1>2 DEF ScanReadsOneState
<1>5. JudgedByOneIntelState
  BY <1>2 DEF JudgedByOneIntelState, ToSet
<1>6. FetchedTyped
  BY DEF FindingInit, FetchedTyped
<1> QED BY <1>3, <1>4, <1>5, <1>6 DEF RoundInv

(* A round that stays where it is keeps its findings, whatever happens       *)
(* elsewhere; a write of the intel has to wait for the end of the scan.      *)
LEMMA RoundStays ==
  ASSUME RoundInv, UNCHANGED <<pipeline, work, judged>>,
         epss' \in [Cves -> EpssValues], FetchedTyped',
         pipeline = "scanning" => UNCHANGED <<kev, epss>>
  PROVE  RoundInv'
<1>1. RoundTypeOK'
  BY DEF RoundInv, RoundTypeOK
<1>2. ScanReadsOneState'
  BY DEF RoundInv, ScanReadsOneState
<1>3. JudgedByOneIntelState'
  BY DEF RoundInv, JudgedByOneIntelState
<1> QED BY <1>1, <1>2, <1>3 DEF RoundInv

LEMMA RefreshTickRound == ASSUME RoundInv, RefreshTick PROVE RoundInv'
<1>1. FetchedTyped'
  BY DEF RefreshTick, FetchedTyped
<1> QED BY <1>1, RoundStays DEF RefreshTick, roundVars, RoundInv, RoundTypeOK

LEMMA FetchKevRound == ASSUME RoundInv, FetchKev PROVE RoundInv'
<1>1. FetchedTyped'
  BY DEF FetchKev, FetchedTyped
<1> QED BY <1>1, RoundStays DEF FetchKev, roundVars, RoundInv, RoundTypeOK

LEMMA WriteKevRound == ASSUME RoundInv, WriteKev PROVE RoundInv'
<1>1. FetchedTyped'
  BY DEF WriteKev, FetchedTyped
<1> QED BY <1>1, RoundStays DEF WriteKev, roundVars, RoundInv, RoundTypeOK

LEMMA FetchEpssRound == ASSUME RoundInv, FetchEpss PROVE RoundInv'
<1>1. FetchedTyped'
  <2>1. CASE \E c \in Cves, e \in EpssValues : fetched' = {<<c, e>>}
    BY <2>1 DEF FetchedTyped
  <2>2. CASE refresher' = "idle"
    BY <2>2 DEF FetchedTyped
  <2> QED BY <2>1, <2>2 DEF FetchEpss
<1> QED BY <1>1, RoundStays DEF FetchEpss, roundVars, RoundInv, RoundTypeOK

LEMMA WriteEpssRound == ASSUME RoundInv, WriteEpss PROVE RoundInv'
<1>1. fetched \subseteq Cves \X EpssValues /\ epss \in [Cves -> EpssValues]
  BY DEF WriteEpss, RoundInv, RoundTypeOK, FetchedTyped
<1>2. ASSUME NEW c \in Cves, \E p \in fetched : p[1] = c
      PROVE  (CHOOSE p \in fetched : p[1] = c)[2] \in EpssValues
  BY <1>1, <1>2
<1>3. epss' \in [Cves -> EpssValues]
  BY <1>1, <1>2 DEF WriteEpss
<1>4. FetchedTyped'
  BY DEF WriteEpss, FetchedTyped
<1>5. pipeline # "scanning" /\ UNCHANGED <<pipeline, work, judged>>
  BY DEF WriteEpss, roundVars
<1> QED BY <1>3, <1>4, <1>5, RoundStays

LEMMA BeginScanRound == ASSUME RoundInv, BeginScan PROVE RoundInv'
<1>1. RoundTypeOK /\ FetchedTyped
  BY DEF RoundInv
<1>2. /\ pipeline = "idle" /\ pipeline' = "scanning" /\ judged' = [kev |-> kev, epss |-> epss]
      /\ kev' = kev /\ epss' = epss /\ refresher' = refresher /\ fetched' = fetched
      /\ work' = work
  BY DEF BeginScan, intelVars
<1>3. work = <<>>
  BY <1>1, <1>2 DEF RoundTypeOK
<1>4. RoundTypeOK'
  BY <1>1, <1>2, <1>3 DEF RoundTypeOK
<1>5. FetchedTyped'
  BY <1>1, <1>2 DEF FetchedTyped
<1>6. ScanReadsOneState'
  BY <1>2 DEF ScanReadsOneState
<1>7. JudgedByOneIntelState'
  BY <1>2, <1>3 DEF JudgedByOneIntelState, ToSet
<1> QED BY <1>4, <1>5, <1>6, <1>7 DEF RoundInv

(* What a report or an SBOM becomes: one finding per CVE, made of what the   *)
(* intel says of it while the guard is held.                                 *)
LEMMA JudgeRound ==
  ASSUME RoundInv, pipeline = "scanning",
         NEW reported \in SUBSET Cves, NEW g \in [reported -> Finding],
         \A c \in reported : g[c].kev = (g[c].cve \in kev) /\ g[c].epss = epss[g[c].cve],
         Judge({f \in {g[c] : c \in reported} : f.rank > 0})
  PROVE  RoundInv'
<1> DEFINE found == {f \in {g[c] : c \in reported} : f.rank > 0}
<1>1. RoundTypeOK /\ FetchedTyped /\ judged = [kev |-> kev, epss |-> epss]
  BY DEF RoundInv, ScanReadsOneState
<1>2. found \subseteq Finding
  OBVIOUS
<1>3. \A f \in found : f.kev = (f.cve \in judged.kev) /\ f.epss = judged.epss[f.cve]
  BY <1>1
<1>4. IsFiniteSet(found)
  BY FoundFinite
<1>5. /\ pipeline' = (IF found = {} THEN "idle" ELSE "handling")
      /\ work' = SetToSeq(found)
      /\ judged' = (IF found = {} THEN NoIntel ELSE judged)
      /\ kev' = kev /\ epss' = epss /\ refresher' = refresher /\ fetched' = fetched
  BY DEF Judge, intelVars
<1> HIDE DEF found
<1>6. work' \in Seq(found) /\ (found # {} => work' # <<>>) /\ (found = {} => work' = <<>>)
  BY <1>4, <1>5, SomeOrder
<1>7. RoundTypeOK'
  <2>1. work' \in Seq(Finding)
    BY <1>2, <1>6
  <2>2. pipeline' = "handling" <=> work' # <<>>
    BY <1>5, <1>6
  <2> QED BY <1>1, <1>5, <2>1, <2>2 DEF RoundTypeOK
<1>8. FetchedTyped'
  BY <1>1, <1>5 DEF FetchedTyped
<1>9. ScanReadsOneState'
  BY <1>5 DEF ScanReadsOneState
<1>10. JudgedByOneIntelState'
  <2>1. ASSUME NEW f \in ToSet(work') PROVE f \in found /\ judged' = judged
    BY <1>5, <1>6, <2>1 DEF ToSet
  <2> QED BY <1>3, <2>1 DEF JudgedByOneIntelState
<1> QED BY <1>7, <1>8, <1>9, <1>10 DEF RoundInv

LEMMA EvaluateTyped == ASSUME NEW x PROVE Evaluate(x) \in 0 .. 4
  BY DEF Evaluate, PriorityOf

LEMMA FindingTyped ==
  ASSUME RoundInv, NEW c \in Cves, NEW r, NEW w
  PROVE  /\ FindingOf(c, SignalOf(c, r, w)) \in Finding
         /\ FindingOf(c, SignalOf(c, r, w)).cve = c
         /\ FindingOf(c, SignalOf(c, r, w)).kev = (c \in kev)
         /\ FindingOf(c, SignalOf(c, r, w)).epss = epss[c]
<1> DEFINE x == SignalOf(c, r, w)
<1>1. x.kev = (c \in kev) /\ x.epss = epss[c] /\ epss[c] \in EpssValues
  BY DEF SignalOf, RoundInv, RoundTypeOK
<1>2. Evaluate(x) \in 0 .. 4
  BY EvaluateTyped
<1> HIDE DEF x
<1>3. FindingOf(c, x) = [cve |-> c, kev |-> x.kev, epss |-> x.epss, rank |-> Evaluate(x)]
  BY DEF FindingOf
<1> QED BY <1>1, <1>2, <1>3 DEF Finding, x

LEMMA ReportRound == ASSUME RoundInv, Report PROVE RoundInv'
<1>1. pipeline = "scanning"
  BY DEF Report
<1>2. PICK reported \in SUBSET Cves, w \in Weights : \E loaded \in SUBSET reported :
        Judge({f \in {FindingOf(c, SignalOf(c, RuntimeOf(c, loaded),
                        IF c \in loaded THEN w ELSE 0)) : c \in reported} : f.rank > 0})
  BY DEF Report
<1>3. PICK loaded \in SUBSET reported :
        Judge({f \in {FindingOf(c, SignalOf(c, RuntimeOf(c, loaded),
                        IF c \in loaded THEN w ELSE 0)) : c \in reported} : f.rank > 0})
  BY <1>2
<1> DEFINE F(c) == FindingOf(c, SignalOf(c, RuntimeOf(c, loaded), IF c \in loaded THEN w ELSE 0))
<1> DEFINE g == [c \in reported |-> F(c)]
<1>4. \A c \in reported : /\ F(c) \in Finding /\ F(c).cve = c /\ F(c).kev = (c \in kev)
                          /\ F(c).epss = epss[c]
  BY FindingTyped
<1>5. Judge({f \in {F(c) : c \in reported} : f.rank > 0})
  BY <1>3
<1> HIDE DEF F
<1>6. {g[c] : c \in reported} = {F(c) : c \in reported}
  OBVIOUS
<1>7. g \in [reported -> Finding]
  BY <1>4
<1>8. \A c \in reported : g[c].kev = (g[c].cve \in kev) /\ g[c].epss = epss[g[c].cve]
  BY <1>4
<1> HIDE DEF g
<1> QED BY <1>1, <1>5, <1>6, <1>7, <1>8, JudgeRound

LEMMA ScanFailsRound == ASSUME RoundInv, ScanFails PROVE RoundInv'
<1>1. pipeline = "scanning" /\ JudgeSbom
  BY DEF ScanFails
<1>2. PICK known \in SUBSET Cves, w \in Weights : \E observed \in SUBSET known :
        LET runtime == Classified(known, observed)
        IN  Judge({f \in {FindingOf(c, SignalOf(c, runtime[c], w)) : c \in known} : f.rank > 0})
  BY <1>1 DEF JudgeSbom
<1>3. PICK observed \in SUBSET known :
        Judge({f \in {FindingOf(c, SignalOf(c, Classified(known, observed)[c], w)) : c \in known} :
                 f.rank > 0})
  BY <1>2
<1> DEFINE F(c) == FindingOf(c, SignalOf(c, Classified(known, observed)[c], w))
<1> DEFINE g == [c \in known |-> F(c)]
<1>4. \A c \in known : /\ F(c) \in Finding /\ F(c).cve = c /\ F(c).kev = (c \in kev)
                       /\ F(c).epss = epss[c]
  BY FindingTyped
<1>5. Judge({f \in {F(c) : c \in known} : f.rank > 0})
  BY <1>3
<1> HIDE DEF F
<1>6. {g[c] : c \in known} = {F(c) : c \in known}
  OBVIOUS
<1>7. g \in [known -> Finding]
  BY <1>4
<1>8. \A c \in known : g[c].kev = (g[c].cve \in kev) /\ g[c].epss = epss[g[c].cve]
  BY <1>4
<1> HIDE DEF g
<1> QED BY <1>1, <1>5, <1>6, <1>7, <1>8, JudgeRound

LEMMA HandlingStays ==
  ASSUME RoundInv, UNCHANGED <<intelVars, pipeline, work, judged>>
  PROVE  RoundInv'
<1>1. UNCHANGED <<kev, epss, refresher, fetched, pipeline, work, judged>>
  BY DEF intelVars
<1>2. FetchedTyped'
  BY <1>1 DEF RoundInv, FetchedTyped
<1>3. epss' \in [Cves -> EpssValues]
  BY <1>1 DEF RoundInv, RoundTypeOK
<1> QED BY <1>1, <1>2, <1>3, RoundStays

LEMMA AttemptRound == ASSUME RoundInv, NEW reply, Attempt(reply) PROVE RoundInv'
  BY HandlingStays DEF Attempt

LEMMA SkipEndpointRound == ASSUME RoundInv, SkipEndpoint PROVE RoundInv'
  BY HandlingStays DEF SkipEndpoint

LEMMA FinishFindingRound == ASSUME RoundInv, FinishFinding PROVE RoundInv'
<1>1. RoundTypeOK /\ FetchedTyped /\ JudgedByOneIntelState
  BY DEF RoundInv
<1>2. /\ pipeline = "handling" /\ work' = Tail(work)
      /\ pipeline' = (IF Tail(work) = <<>> THEN "idle" ELSE "handling")
      /\ judged' = (IF Tail(work) = <<>> THEN NoIntel ELSE judged)
      /\ kev' = kev /\ epss' = epss /\ refresher' = refresher /\ fetched' = fetched
  BY DEF FinishFinding, intelVars
<1>3. work \in Seq(Finding) /\ work # <<>>
  BY <1>1, <1>2 DEF RoundTypeOK
<1>4. /\ work' \in Seq(Finding)
      /\ \A i \in DOMAIN work' : i + 1 \in DOMAIN work /\ work'[i] = work[i + 1]
  BY <1>2, <1>3, TailKeeps
<1>5. RoundTypeOK'
  BY <1>1, <1>2, <1>4 DEF RoundTypeOK
<1>6. FetchedTyped'
  BY <1>1, <1>2 DEF FetchedTyped
<1>7. ScanReadsOneState'
  BY <1>2 DEF ScanReadsOneState
<1>8. JudgedByOneIntelState'
  <2>1. ASSUME NEW f \in ToSet(work') PROVE f \in ToSet(work)
    BY <1>4, <2>1 DEF ToSet
  <2>2. ASSUME NEW f \in ToSet(work') PROVE judged' = judged
    <3>1. work' # <<>>
      BY <1>4, <2>2 DEF ToSet
    <3> QED BY <1>2, <3>1
  <2> QED BY <1>1, <2>1, <2>2 DEF JudgedByOneIntelState
<1> QED BY <1>5, <1>6, <1>7, <1>8 DEF RoundInv

LEMMA RoundNext == RoundInv /\ [ExportNext]_allVars => RoundInv'
<1> SUFFICES ASSUME RoundInv, [ExportNext]_allVars PROVE RoundInv'
  OBVIOUS
<1>1. CASE FindingNext
  BY <1>1, RefreshTickRound, FetchKevRound, WriteKevRound, FetchEpssRound, WriteEpssRound,
     BeginScanRound, ReportRound, ScanFailsRound, AttemptRound, SkipEndpointRound,
     FinishFindingRound DEF FindingNext, Refresh, Handle, Export
<1>2. CASE UNCHANGED findingVars
  BY <1>2, HandlingStays DEF findingVars, roundVars
<1> QED BY <1>1, <1>2 DEF ExportNext, allVars

(* No finding mixes the intel before and after a refresh: the verdict on     *)
(* every finding of a workload is that of the state its scan began with.     *)
THEOREM OneIntelStatePerScan == ExportSpec => []JudgedByOneIntelState
<1>1. FindingInit => RoundInv
  BY RoundInit
<1>2. RoundInv => JudgedByOneIntelState
  BY DEF RoundInv
<1> QED BY <1>1, <1>2, RoundNext, PTL DEF ExportSpec
-----------------------------------------------------------------------------
(* Exports                                                                 *)

(* An export that goes on has not been answered with a success or a 4xx.     *)
Underway(x) ==
  /\ x \in Transfer
  /\ x.taken <= x.silent /\ x.tries < MaxRetries

Attempted(x, reply) ==
  [tries  |-> x.tries + 1,
   taken  |-> x.taken + (IF reply \in {"ok", "silent"} THEN 1 ELSE 0),
   silent |-> x.silent + (IF reply = "silent" THEN 1 ELSE 0),
   last   |-> reply]

LEMMA NoExportUnderway == Underway(NoExport) /\ Accounted(NoExport)
  BY FindingAssumption DEF Underway, NoExport, Transfer, Replies, Accounted

(* One attempt more either leaves the export underway or accounts for it.    *)
LEMMA AttemptAccounted ==
  ASSUME NEW x, Underway(x), NEW reply \in Replies \ {"none"}
  PROVE  LET y == Attempted(x, reply)
         IN  IF LastAttempt(y) THEN Accounted(y) ELSE Underway(y)
<1> DEFINE y == Attempted(x, reply)
<1>1. /\ x.tries \in Nat /\ x.taken \in Nat /\ x.silent \in Nat
      /\ x.taken <= x.silent /\ x.tries < MaxRetries /\ MaxRetries \in Nat
  BY FindingAssumption DEF Underway, Transfer
<1>2. /\ y.tries = x.tries + 1 /\ y.last = reply
      /\ reply \in {"ok", "silent"} => y.taken = x.taken + 1
      /\ reply \notin {"ok", "silent"} => y.taken = x.taken
      /\ reply = "silent" => y.silent = x.silent + 1
      /\ reply # "silent" => y.silent = x.silent
  BY <1>1 DEF Attempted
<1>3. y \in Transfer
  <2>1. (IF reply \in {"ok", "silent"} THEN 1 ELSE 0) \in Nat
    OBVIOUS
  <2>2. (IF reply = "silent" THEN 1 ELSE 0) \in Nat
    OBVIOUS
  <2> QED BY <1>1, <2>1, <2>2 DEF Attempted, Transfer
<1>4. y.tries \in Nat /\ y.taken \in Nat /\ y.silent \in Nat
  BY <1>3 DEF Transfer
<1> HIDE DEF y
<1>5. CASE LastAttempt(y)
  <2>1. y.taken <= y.silent + 1 /\ y.tries <= MaxRetries
    BY <1>1, <1>2, <1>4
  <2>2. y.taken = 0 => y.last = "refused" \/ y.tries = MaxRetries
    BY <1>1, <1>2, <1>4, <1>5 DEF LastAttempt
  <2> QED BY <1>5, <2>1, <2>2 DEF Accounted, y
<1>6. CASE ~LastAttempt(y)
  <2>1. y.last # "ok" /\ ~(y.tries >= MaxRetries)
    BY <1>6 DEF LastAttempt
  <2>2. y.taken <= y.silent /\ y.tries < MaxRetries
    BY <1>1, <1>2, <1>4, <2>1
  <2> QED BY <1>3, <1>6, <2>2 DEF Underway, y
<1> QED BY <1>5, <1>6 DEF y

SingleInv == Underway(export) /\ Accounted(settled)

LEMMA SingleNext ==
  ASSUME SingleInv, [ExportNext]_allVars
  PROVE  SingleInv'
<1>1. CASE UNCHANGED <<export, settled>>
  BY <1>1 DEF SingleInv, Underway, Accounted
<1>2. ASSUME NEW reply \in Replies \ {"none"}, Attempt(reply) PROVE SingleInv'
  <2> DEFINE y == Attempted(export, reply)
  <2>1. IF LastAttempt(y) THEN export' = NoExport /\ settled' = y
                          ELSE export' = y /\ settled' = NoExport
    BY <1>2 DEF Attempt, Attempted
  <2>2. IF LastAttempt(y) THEN Accounted(y) ELSE Underway(y)
    BY <1>2, AttemptAccounted DEF SingleInv
  <2> HIDE DEF y
  <2>3. CASE LastAttempt(y)
    BY <2>1, <2>2, <2>3, NoExportUnderway DEF SingleInv, Underway, Accounted
  <2>4. CASE ~LastAttempt(y)
    BY <2>1, <2>2, <2>4, NoExportUnderway DEF SingleInv, Underway, Accounted
  <2> QED BY <2>3, <2>4
<1>3. CASE export' = export /\ settled' = NoExport
  BY <1>3, NoExportUnderway DEF SingleInv, Underway, Accounted
<1>4. CASE FindingNext
  <2>1. CASE RefreshTick BY <1>1, <2>1 DEF RefreshTick, roundVars
  <2>2. CASE FetchKev BY <1>1, <2>2 DEF FetchKev, roundVars
  <2>3. CASE WriteKev BY <1>1, <2>3 DEF WriteKev, roundVars
  <2>4. CASE FetchEpss BY <1>1, <2>4 DEF FetchEpss, roundVars
  <2>5. CASE WriteEpss BY <1>1, <2>5 DEF WriteEpss, roundVars
  <2>6. CASE BeginScan BY <1>1, <2>6 DEF BeginScan
  <2>7. CASE Report BY <1>1, <2>7 DEF Report, Judge
  <2>8. CASE ScanFails BY <1>1, <2>8 DEF ScanFails, JudgeSbom, Judge
  <2>9. CASE Export BY <1>2, <2>9 DEF Export, Replies
  <2>10. CASE SkipEndpoint BY <1>3, <2>10 DEF SkipEndpoint
  <2>11. CASE FinishFinding BY <1>3, <2>11 DEF FinishFinding
  <2> QED BY <1>4, <2>1, <2>2, <2>3, <2>4, <2>5, <2>6, <2>7, <2>8, <2>9, <2>10, <2>11
          DEF FindingNext, Refresh, Handle
<1>5. CASE UNCHANGED findingVars
  BY <1>1, <1>5 DEF findingVars, roundVars
<1> QED BY <1>4, <1>5 DEF ExportNext, allVars

BatchInv ==
  /\ batch \in Seq(Nat) /\ flushing \in Seq(Nat) /\ ended \in Seq(Nat) /\ pushed \in Nat
  /\ Underway(flush) /\ Accounted(outcome)
  /\ BatchesKeepTheirFindings

(* The findings of the exporter, in the order in which they leave it.        *)
Kept == ended \o flushing \o batch
Numbers(n) == [i \in 1 .. n |-> i]

LEMMA BatchInitial == ASSUME BatchInit PROVE BatchInv
<1>1. /\ batch = <<>> /\ flushing = <<>> /\ ended = <<>> /\ pushed = 0
      /\ flush = NoExport /\ outcome = NoExport
  BY DEF BatchInit
<1>2. BatchesKeepTheirFindings
  <2>1. [i \in 1 .. 0 |-> i] = <<>>
    OBVIOUS
  <2>2. <<>> \in Seq(Nat)
    OBVIOUS
  <2>3. (<<>> \o <<>>) \o <<>> = <<>>
    BY <2>2, ConcatEmptySeq
  <2> QED BY <1>1, <2>1, <2>3 DEF BatchesKeepTheirFindings
<1> QED BY <1>1, <1>2, NoExportUnderway DEF BatchInv

LEMMA PushBatch == ASSUME BatchInv, Push PROVE BatchInv'
<1>1. /\ batch \in Seq(Nat) /\ flushing = <<>> /\ ended \in Seq(Nat) /\ pushed \in Nat
      /\ Kept = Numbers(pushed)
  BY DEF BatchInv, BatchesKeepTheirFindings, Push, Kept, Numbers
<1>2. /\ batch' = Append(batch, pushed + 1) /\ pushed' = pushed + 1
      /\ flushing' = flushing /\ ended' = ended /\ flush' = flush /\ outcome' = outcome
  BY DEF Push
<1>3. Kept = ended \o batch
  BY <1>1, ConcatEmptySeq DEF Kept
<1>4. Kept' = ended \o Append(batch, pushed + 1)
  BY <1>1, <1>2, ConcatEmptySeq DEF Kept
<1>5. Kept' = Append(Kept, pushed + 1)
  <2>1. <<pushed + 1>> \in Seq(Nat) /\ pushed + 1 \in Nat
    BY <1>1
  <2>2. Append(batch, pushed + 1) = batch \o <<pushed + 1>>
    BY <1>1, <2>1, AppendIsConcat
  <2>3. ended \o batch \in Seq(Nat)
    BY <1>1, ConcatProperties
  <2>4. Append(ended \o batch, pushed + 1) = (ended \o batch) \o <<pushed + 1>>
    BY <2>1, <2>3, AppendIsConcat
  <2>5. (ended \o batch) \o <<pushed + 1>> = ended \o (batch \o <<pushed + 1>>)
    BY SMTT(60), <1>1, <2>1, ConcatAssociative
  <2> QED BY <1>3, <1>4, <2>2, <2>4, <2>5
<1>6. Append(Numbers(pushed), pushed + 1) = Numbers(pushed + 1)
  BY <1>1 DEF Numbers
<1>7. Kept' = Numbers(pushed')
  BY <1>1, <1>2, <1>5, <1>6
<1>8. BatchesKeepTheirFindings'
  BY <1>7 DEF Kept, Numbers, BatchesKeepTheirFindings
<1>9. /\ batch' \in Seq(Nat) /\ flushing' \in Seq(Nat) /\ ended' \in Seq(Nat)
      /\ pushed' \in Nat
  BY <1>1, <1>2 DEF BatchInv
<1>10. Underway(flush)' /\ Accounted(outcome)'
  BY <1>2 DEF BatchInv, Underway, Accounted
<1> QED BY <1>8, <1>9, <1>10 DEF BatchInv

LEMMA StartFlushBatch == ASSUME BatchInv, StartFlush PROVE BatchInv'
<1>1. /\ batch \in Seq(Nat) /\ flushing = <<>> /\ ended \in Seq(Nat)
      /\ Kept = Numbers(pushed)
  BY DEF BatchInv, BatchesKeepTheirFindings, StartFlush, Kept, Numbers
<1>2. /\ flushing' = batch /\ batch' = <<>> /\ ended' = ended /\ pushed' = pushed
      /\ flush' = flush /\ outcome' = outcome
  BY DEF StartFlush
<1>3. ended \o batch \in Seq(Nat)
  BY <1>1, ConcatProperties
<1>4. Kept' = Kept
  BY <1>1, <1>2, <1>3, ConcatEmptySeq DEF Kept
<1>5. BatchesKeepTheirFindings'
  BY <1>1, <1>2, <1>4 DEF Kept, Numbers, BatchesKeepTheirFindings
<1>6. /\ batch' \in Seq(Nat) /\ flushing' \in Seq(Nat) /\ ended' \in Seq(Nat)
      /\ pushed' \in Nat
  BY <1>1, <1>2 DEF BatchInv
<1>7. Underway(flush)' /\ Accounted(outcome)'
  BY <1>2 DEF BatchInv, Underway, Accounted
<1> QED BY <1>5, <1>6, <1>7 DEF BatchInv

LEMMA SendBatchBatch ==
  ASSUME BatchInv, NEW reply \in Replies \ {"none"}, SendBatch(reply)
  PROVE  BatchInv'
<1> DEFINE y == Attempted(flush, reply)
<1>1. /\ batch \in Seq(Nat) /\ flushing \in Seq(Nat) /\ ended \in Seq(Nat) /\ pushed \in Nat
      /\ Underway(flush) /\ Accounted(outcome) /\ Kept = Numbers(pushed)
  BY DEF BatchInv, BatchesKeepTheirFindings, Kept, Numbers
<1>2. batch' = batch /\ pushed' = pushed
  BY DEF SendBatch
<1>3. IF LastAttempt(y)
      THEN flush' = NoExport /\ outcome' = y /\ ended' = ended \o flushing /\ flushing' = <<>>
      ELSE flush' = y /\ flushing' = flushing /\ ended' = ended /\ outcome' = outcome
  BY DEF SendBatch, Attempted
<1>4. IF LastAttempt(y) THEN Accounted(y) ELSE Underway(y)
  BY <1>1, AttemptAccounted
<1> HIDE DEF y
<1>5. ended \o flushing \in Seq(Nat)
  BY <1>1, ConcatProperties
<1>6. Kept' = Kept
  <2>1. CASE LastAttempt(y)
    BY <1>2, <1>3, <1>5, <2>1, ConcatEmptySeq DEF Kept
  <2>2. CASE ~LastAttempt(y)
    BY <1>2, <1>3, <2>2 DEF Kept
  <2> QED BY <2>1, <2>2
<1>7. BatchesKeepTheirFindings'
  BY <1>1, <1>2, <1>6 DEF Kept, Numbers, BatchesKeepTheirFindings
<1>8. /\ batch' \in Seq(Nat) /\ flushing' \in Seq(Nat) /\ ended' \in Seq(Nat)
      /\ pushed' \in Nat
  <2>1. CASE LastAttempt(y)
    <3>1. ended' = ended \o flushing /\ flushing' = <<>>
      BY <1>3, <2>1
    <3>2. <<>> \in Seq(Nat)
      OBVIOUS
    <3> QED BY <1>1, <1>2, <1>5, <3>1, <3>2
  <2>2. CASE ~LastAttempt(y)
    BY <1>1, <1>2, <1>3, <2>2
  <2> QED BY <2>1, <2>2
<1>9. Underway(flush)' /\ Accounted(outcome)'
  <2>1. CASE LastAttempt(y)
    BY <1>3, <1>4, <2>1, NoExportUnderway DEF Underway, Accounted
  <2>2. CASE ~LastAttempt(y)
    BY <1>1, <1>3, <1>4, <2>2 DEF Underway, Accounted
  <2> QED BY <2>1, <2>2
<1> QED BY <1>7, <1>8, <1>9 DEF BatchInv

LEMMA BatchStays ==
  ASSUME BatchInv, UNCHANGED <<batch, flushing, flush, pushed, ended, outcome>>
  PROVE  BatchInv'
  BY DEF BatchInv, Underway, Accounted, BatchesKeepTheirFindings

LEMMA BatchNextInv == ASSUME BatchInv, [ExportNext]_allVars PROVE BatchInv'
<1>1. CASE BatchNext
  <2>1. CASE Push BY <2>1, PushBatch
  <2>2. CASE StartFlush BY <2>2, StartFlushBatch
  <2>3. CASE BatchTick BY <2>3, BatchStays DEF BatchTick
  <2>4. CASE \E reply \in {"ok", "refused", "failed", "lost", "silent"} : SendBatch(reply)
    BY <2>4, SendBatchBatch DEF Replies
  <2> QED BY <1>1, <2>1, <2>2, <2>3, <2>4 DEF BatchNext
<1>2. CASE UNCHANGED batchVars
  BY <1>2, BatchStays DEF batchVars
<1> QED BY <1>1, <1>2 DEF ExportNext, allVars

(* However often an endpoint fails, refuses or takes a finding without an    *)
(* answer: what it got twice it had let go unanswered, what it never got it  *)
(* refused or was tried as often as allowed, and each finding given to the   *)
(* batch exporter is in exactly one of its places, in order.                 *)
THEOREM NothingExportedUnseen == ExportSpec => []ExportsAccounted
<1> DEFINE Inv == SingleInv /\ BatchInv
<1>1. FindingInit /\ BatchInit => Inv
  <2>1. FindingInit => SingleInv
    BY NoExportUnderway DEF FindingInit, SingleInv
  <2> QED BY <2>1, BatchInitial
<1>2. Inv /\ [ExportNext]_allVars => Inv'
  BY SingleNext, BatchNextInv
<1>3. Inv => ExportsAccounted
  BY DEF SingleInv, BatchInv, ExportsAccounted
<1> QED BY <1>1, <1>2, <1>3, PTL DEF ExportSpec

-----------------------------------------------------------------------------
(* The cached scores. One that is not the current one has been in the cache  *)
(* for at least as long as nothing has changed, so it expires before things  *)
(* count as calm.                                                            *)
CacheSpec == CacheInit /\ [][CacheNext]_cacheVars

CacheTypeOK ==
  /\ current \in ScoreValues
  /\ pending \in [Readers -> ScoreValues \union {-1}]
  /\ entry \in [score : ScoreValues \union {-1}, age : 0 .. TTL]
  /\ snapshots \in Seq(ScoreValues) /\ Len(snapshots) <= MaxHistory
  /\ calm \in 0 .. TTL

StaleIsOld == entry.score \notin {-1, current} => calm <= entry.age

ServedIsLast == entry.score # -1 => snapshots # <<>> /\ Last(snapshots) = entry.score

CacheInv == CacheTypeOK /\ StaleIsOld /\ ServedIsLast

LEMMA CappedFacts ==
  ASSUME NEW m \in Nat, NEW n \in Nat
  PROVE  /\ Capped(n) \in 0 .. TTL
         /\ m <= n => Capped(m) <= Capped(n)
  BY CacheAssumption DEF Capped

LEMMA CacheInitial == ASSUME CacheInit PROVE CacheInv
<1>1. entry = [score |-> -1, age |-> 0] /\ calm = TTL /\ snapshots = <<>>
  BY DEF CacheInit, NoEntry
<1>2. CacheTypeOK
  BY <1>1, CacheAssumption DEF CacheInit, CacheTypeOK
<1> QED BY <1>1, <1>2 DEF CacheInv, StaleIsOld, ServedIsLast

LEMMA MissInv == ASSUME CacheInv, NEW r \in Readers, Miss(r) PROVE CacheInv'
<1>1. /\ pending' = [pending EXCEPT ![r] = current]
      /\ current' = current /\ entry' = entry /\ snapshots' = snapshots /\ calm' = calm
  BY DEF Miss
<1>2. CacheTypeOK'
  BY <1>1 DEF CacheInv, CacheTypeOK
<1> QED BY <1>1, <1>2 DEF CacheInv, StaleIsOld, ServedIsLast

(* A late insert of another score starts the entry and the calm together.    *)
LEMMA InsertInv == ASSUME CacheInv, NEW r \in Readers, Insert(r) PROVE CacheInv'
<1> DEFINE kept == IF Len(snapshots) >= MaxHistory THEN Tail(snapshots) ELSE snapshots
<1>1. CacheTypeOK
  BY DEF CacheInv
<1>2. /\ pending[r] # -1 /\ entry' = [score |-> pending[r], age |-> 0]
      /\ snapshots' = Append(kept, pending[r]) /\ pending' = [pending EXCEPT ![r] = -1]
      /\ calm' = (IF pending[r] = current THEN calm ELSE 0) /\ current' = current
  BY DEF Insert
<1>3. pending[r] \in ScoreValues
  BY <1>1, <1>2 DEF CacheTypeOK
<1>4. kept \in Seq(ScoreValues) /\ Len(kept) < MaxHistory
  <2>1. snapshots \in Seq(ScoreValues) /\ Len(snapshots) <= MaxHistory
    BY <1>1 DEF CacheTypeOK
  <2>2. CASE Len(snapshots) >= MaxHistory
    <3>1. snapshots # <<>> /\ Len(snapshots) = MaxHistory
      BY <2>1, <2>2, CacheAssumption
    <3>2. Tail(snapshots) \in Seq(ScoreValues) /\ Len(Tail(snapshots)) = Len(snapshots) - 1
      BY <2>1, <3>1
    <3> QED BY <2>1, <2>2, <3>1, <3>2, CacheAssumption
  <2>3. CASE ~(Len(snapshots) >= MaxHistory)
    BY <2>1, <2>3, CacheAssumption
  <2> QED BY <2>2, <2>3
<1> HIDE DEF kept
<1>5. /\ snapshots' \in Seq(ScoreValues) /\ Len(snapshots') = Len(kept) + 1
      /\ snapshots' # <<>> /\ snapshots'[Len(snapshots')] = pending[r]
  BY <1>2, <1>3, <1>4
<1>6. Len(snapshots') <= MaxHistory
  BY <1>4, <1>5, CacheAssumption
<1>7. CacheTypeOK'
  <2>1. entry' \in [score : ScoreValues \union {-1}, age : 0 .. TTL]
    BY <1>2, <1>3, CacheAssumption
  <2>2. pending' \in [Readers -> ScoreValues \union {-1}]
    BY <1>1, <1>2 DEF CacheTypeOK
  <2>3. calm' \in 0 .. TTL /\ current' \in ScoreValues
    BY <1>1, <1>2, CacheAssumption DEF CacheTypeOK
  <2> QED BY <1>5, <1>6, <2>1, <2>2, <2>3 DEF CacheTypeOK
<1>8. StaleIsOld'
  BY <1>2 DEF StaleIsOld
<1>9. ServedIsLast'
  BY <1>2, <1>5 DEF ServedIsLast, Last
<1> QED BY <1>7, <1>8, <1>9 DEF CacheInv

LEMMA ClearExpiredInv == ASSUME CacheInv, ClearExpired PROVE CacheInv'
<1>1. /\ current' = current /\ pending' = pending /\ snapshots' = snapshots /\ calm' = calm
      /\ entry' = entry \/ entry' = NoEntry
  BY DEF ClearExpired
<1>2. NoEntry \in [score : ScoreValues \union {-1}, age : 0 .. TTL] /\ NoEntry.score = -1
  BY CacheAssumption DEF NoEntry
<1>3. CacheTypeOK'
  BY <1>1, <1>2 DEF CacheInv, CacheTypeOK
<1> QED BY <1>1, <1>2, <1>3 DEF CacheInv, StaleIsOld, ServedIsLast

LEMMA SignalChangesInv == ASSUME CacheInv, SignalChanges PROVE CacheInv'
<1>1. /\ current' \in ScoreValues /\ calm' = 0
      /\ pending' = pending /\ entry' = entry /\ snapshots' = snapshots
  BY DEF SignalChanges
<1>2. CacheTypeOK'
  BY <1>1, CacheAssumption DEF CacheInv, CacheTypeOK
<1>3. entry.age \in Nat
  BY CacheAssumption DEF CacheInv, CacheTypeOK
<1>4. StaleIsOld'
  BY <1>1, <1>3 DEF StaleIsOld
<1> QED BY <1>1, <1>2, <1>4 DEF CacheInv, ServedIsLast

LEMMA TickInv == ASSUME CacheInv, CacheTick PROVE CacheInv'
<1>1. /\ CacheTypeOK /\ current' = current /\ pending' = pending /\ snapshots' = snapshots
      /\ calm' \in {0, Capped(calm + 1)}
  BY DEF CacheInv, CacheTick
<1>2. entry.age \in 0 .. TTL /\ calm \in 0 .. TTL
  BY <1>1 DEF CacheTypeOK
<1>3. Capped(calm + 1) \in 0 .. TTL /\ Capped(entry.age + 1) \in 0 .. TTL
      /\ (calm <= entry.age => Capped(calm + 1) <= Capped(entry.age + 1))
  BY <1>2, CacheAssumption DEF Capped
<1>4. CASE entry.score = -1
  <2>1. entry' = entry
    BY <1>4 DEF CacheTick
  <2>2. CacheTypeOK'
    BY <1>1, <1>3, <2>1, CacheAssumption DEF CacheTypeOK
  <2> QED BY <1>4, <2>1, <2>2 DEF CacheInv, StaleIsOld, ServedIsLast
<1>5. CASE entry.score # -1
  <2>1. entry' = [entry EXCEPT !.age = Capped(entry.age + 1)]
    BY <1>5 DEF CacheTick
  <2>2. entry'.score = entry.score /\ entry'.age = Capped(entry.age + 1)
        /\ entry' \in [score : ScoreValues \union {-1}, age : 0 .. TTL]
    BY <1>1, <1>3, <2>1 DEF CacheTypeOK
  <2>3. CacheTypeOK'
    BY <1>1, <1>3, <2>2, CacheAssumption DEF CacheTypeOK
  <2>4. StaleIsOld'
    BY <1>1, <1>3, <2>2 DEF CacheInv, StaleIsOld
  <2>5. ServedIsLast'
    BY <1>1, <2>2 DEF CacheInv, ServedIsLast
  <2> QED BY <2>3, <2>4, <2>5 DEF CacheInv
<1> QED BY <1>4, <1>5

LEMMA CacheNextInv == ASSUME CacheInv, [CacheNext]_cacheVars PROVE CacheInv'
<1>1. CASE UNCHANGED cacheVars
  BY <1>1 DEF cacheVars, CacheInv, CacheTypeOK, StaleIsOld, ServedIsLast
<1>2. ASSUME NEW r \in Readers, Hit(r) \/ Miss(r) \/ Insert(r) PROVE CacheInv'
  BY <1>1, <1>2, MissInv, InsertInv DEF Hit
<1>3. CASE ClearExpired BY <1>3, ClearExpiredInv
<1>4. CASE SignalChanges BY <1>4, SignalChangesInv
<1>5. CASE CacheTick BY <1>5, TickInv
<1> QED BY <1>1, <1>2, <1>3, <1>4, <1>5 DEF CacheNext

(* Whoever is served from the cache after a calm as long as the life of an   *)
(* entry gets the score of its own signal, whatever inserts came late, and   *)
(* the history ends with it.                                                 *)
THEOREM CachedScoresCatchUp == CacheSpec => []ScoresCatchUp
<1>1. CacheInit => CacheInv
  BY CacheInitial
<1>2. CacheInv /\ [CacheNext]_cacheVars => CacheInv'
  BY CacheNextInv
<1>3. CacheInv => ScoresCatchUp
  <2> SUFFICES ASSUME CacheInv, Fresh(entry)
               PROVE  (calm = TTL => entry.score = current) /\ Last(snapshots) = entry.score
    BY DEF ScoresCatchUp
  <2>1. entry.score # -1 /\ entry.age < TTL /\ entry.age \in 0 .. TTL /\ calm \in 0 .. TTL
    BY DEF Fresh, CacheInv, CacheTypeOK
  <2>2. calm = TTL => entry.score = current
    BY <2>1, CacheAssumption DEF CacheInv, StaleIsOld
  <2> QED BY <2>1, <2>2 DEF CacheInv, ServedIsLast
<1> QED BY <1>1, <1>2, <1>3, PTL DEF CacheSpec

-----------------------------------------------------------------------------
(* The policies: while an evaluation runs, the list is the one it began      *)
(* with, and what it has to ask is the rest of that list, not yet empty.     *)
PolicyInv ==
  /\ policies \in Seq(PolicyFiles)
  /\ evaluation.running \in BOOLEAN
  /\ PoliciesAsReported

LEMMA LoadedIsASequence ==
  ASSUME NEW s \in SetToSeqs(Loadable)
  PROVE  s \in Seq(PolicyFiles)
<1> DEFINE n == Cardinality(Loadable)
<1>1. Loadable \subseteq PolicyFiles
  BY DEF Loadable
<1>2. n \in Nat
  BY <1>1, PolicyAssumption, FS_Subset, FS_CardinalityType
<1>3. s \in [1 .. n -> Loadable]
  BY Zenon DEF SetToSeqs
<1> HIDE DEF n
<1>4. s \in [1 .. n -> PolicyFiles]
  BY <1>1, <1>3
<1> QED BY <1>2, <1>4

LEMMA ReloadPolicies == ASSUME PolicyInv, Reload PROVE PolicyInv'
<1>1. ~evaluation'.running /\ evaluation'.running \in BOOLEAN
  BY DEF Reload, PolicyInv
<1>2. policies' \in Seq(PolicyFiles)
  <2>1. \/ policies' = policies
        \/ policies' = <<>>
        \/ policies' \in SetToSeqs(Loadable)
    BY Zenon DEF Reload
  <2>2. <<>> \in Seq(PolicyFiles)
    OBVIOUS
  <2>3. policies' \in SetToSeqs(Loadable) => policies' \in Seq(PolicyFiles)
    BY LoadedIsASequence, Zenon
  <2> QED BY <2>1, <2>2, <2>3, Zenon DEF PolicyInv
<1>3. skipped' \/ reloaded' = Len(policies')
  BY DEF Reload
<1> QED BY <1>1, <1>2, <1>3 DEF PolicyInv, PoliciesAsReported

LEMMA BeginPolicies == ASSUME PolicyInv, BeginEvaluation PROVE PolicyInv'
<1>1. /\ policies' = policies /\ skipped' = skipped /\ reloaded' = reloaded
      /\ asked' = policies
      /\ evaluation' = [running |-> policies # <<>>, left |-> policies]
  BY DEF BeginEvaluation
<1>2. ASSUME policies # <<>>
      PROVE  \E n \in DOMAIN policies : policies = SubSeq(policies, n, Len(policies))
  <2>1. 1 \in DOMAIN policies
    BY <1>2 DEF PolicyInv
  <2>2. SubSeq(policies, 1, Len(policies)) = policies
    BY SubSeqFull DEF PolicyInv
  <2> QED BY <2>1, <2>2
<1>3. evaluation'.running \in BOOLEAN /\ evaluation'.left = policies
      /\ (evaluation'.running => policies # <<>>)
  BY <1>1
<1> QED BY <1>1, <1>2, <1>3 DEF PolicyInv, PoliciesAsReported

LEMMA AskPolicies == ASSUME PolicyInv, AskPolicy PROVE PolicyInv'
<1>1. /\ evaluation.running /\ asked' = asked /\ policies' = policies
      /\ skipped' = skipped /\ reloaded' = reloaded
  BY DEF AskPolicy
<1>2. \/ evaluation' = [running |-> FALSE, left |-> <<>>]
      \/ /\ Tail(evaluation.left) # <<>>
         /\ evaluation' = [running |-> TRUE, left |-> Tail(evaluation.left)]
  BY DEF AskPolicy
<1>3. CASE evaluation' = [running |-> FALSE, left |-> <<>>]
  BY <1>1, <1>3 DEF PolicyInv, PoliciesAsReported
<1>4. CASE /\ Tail(evaluation.left) # <<>>
           /\ evaluation' = [running |-> TRUE, left |-> Tail(evaluation.left)]
  <2>1. PICK n \in DOMAIN policies : evaluation.left = SubSeq(policies, n, Len(policies))
    BY <1>1 DEF PolicyInv, PoliciesAsReported
  <2>2. n \in 1 .. Len(policies) /\ Len(policies) \in Nat
    BY DEF PolicyInv
  <2>3. Tail(evaluation.left) = SubSeq(policies, n + 1, Len(policies))
    BY SMTT(60), <2>1, <2>2, HeadTailOfSubSeq DEF PolicyInv
  <2>4. n + 1 <= Len(policies)
    BY <1>4, <2>2, <2>3, SubSeqEmpty
  <2>5. n + 1 \in DOMAIN policies
    BY <2>2, <2>4 DEF PolicyInv
  <2> QED BY <1>1, <1>4, <2>3, <2>5 DEF PolicyInv, PoliciesAsReported
<1> QED BY <1>2, <1>3, <1>4

LEMMA PolicyNextInv == ASSUME PolicyInv, [PolicyNext]_policyVars PROVE PolicyInv'
<1>1. CASE UNCHANGED <<policies, evaluation, asked, skipped, reloaded>>
  BY <1>1 DEF PolicyInv, PoliciesAsReported
<1>2. CASE EditFile BY <1>1, <1>2 DEF EditFile
<1>3. CASE MoveDirectory BY <1>1, <1>3 DEF MoveDirectory
<1>4. CASE Reload BY <1>4, ReloadPolicies
<1>5. CASE BeginEvaluation BY <1>5, BeginPolicies
<1>6. CASE AskPolicy BY <1>6, AskPolicies
<1>7. CASE UNCHANGED policyVars BY <1>1, <1>7 DEF policyVars
<1> QED BY <1>2, <1>3, <1>4, <1>5, <1>6, <1>7 DEF PolicyNext

(* However long OPA takes over a policy and whoever edits the directory      *)
(* meanwhile, an evaluation asks the list it began with, in its order, and   *)
(* the count a reload answered is that of the policies in force.             *)
THEOREM PoliciesDecideAsReported == PolicySpec => []PoliciesAsReported
<1>1. PolicyInit => PolicyInv
  BY DEF PolicyInit, PolicyInv, PoliciesAsReported
<1>2. PolicyInv /\ [PolicyNext]_policyVars => PolicyInv'
  BY PolicyNextInv
<1>3. PolicyInv => PoliciesAsReported
  BY DEF PolicyInv
<1> QED BY <1>1, <1>2, <1>3, PTL DEF PolicySpec

-----------------------------------------------------------------------------
(* A finite set of numbers has a least element.                              *)
LEMMA MinIsLeast ==
  ASSUME NEW T, IsFiniteSet(T), T \subseteq Int, T # {}
  PROVE  Min(T) \in T /\ \A y \in T : Min(T) <= y
<1>1. \E m \in T : \A y \in T : m <= y
  BY LeastOf
<1> QED BY <1>1, Zenon DEF Min

-----------------------------------------------------------------------------
(* The names: of a cgroup that is cached or answered, and whose process is of *)
(* another container, one of the two histories knows.                        *)
NamesTyped ==
  /\ DOMAIN proc \subseteq Pids
  /\ \A p \in DOMAIN proc : proc[p].container \in Containers \union {0}
  /\ IsFiniteSet(DOMAIN cache) /\ DOMAIN cache \subseteq Cgroups
  /\ Cardinality(DOMAIN cache) <= MaxEntries
  /\ \A g \in DOMAIN cache : cache[g] \in Containers
  /\ search.step # "idle" => search.cgroup \in Cgroups \ DOMAIN cache
  /\ search.step = "found" => search.found \in Containers

(* Stated by process: the container that has a cgroup is that of one of its  *)
(* processes.                                                                *)
OthersAreKnown ==
  \A g \in Cgroups, p \in DOMAIN proc :
    /\ proc[p].cgroup = g /\ proc[p].container # 0
    /\ ~(Answers(g) \subseteq {proc[p].container})
    => g \in crowded \union reused

NamesInv == NamesTyped /\ OthersAreKnown

(* Two containers that run are more than one.                                *)
LEMMA TwoAreCrowded ==
  ASSUME NamesTyped, NEW c \in Running, NEW d \in Running, c # d
  PROVE  Cardinality(Running) > 1
<1>1. IsFiniteSet(Running)
  <2>1. IsFiniteSet(DOMAIN proc)
    BY NamesAssumption, FS_Subset DEF NamesTyped
  <2> DEFINE All == {proc[p].container : p \in DOMAIN proc}
             container == [p \in DOMAIN proc |-> proc[p].container]
  <2>2. container \in Surjection(DOMAIN proc, All)
    BY DEF Surjection
  <2> HIDE DEF container
  <2>3. IsFiniteSet(All)
    BY <2>1, <2>2, FS_Surjection, Zenon
  <2>4. Running \subseteq All
    BY DEF Running
  <2> QED BY <2>3, <2>4, FS_Subset
<1>2. /\ IsFiniteSet(Running \ {c}) /\ Cardinality(Running \ {c}) = Cardinality(Running) - 1
      /\ Cardinality(Running) \in Nat /\ Cardinality(Running \ {c}) \in Nat
  BY <1>1, FS_RemoveElement, FS_CardinalityType
<1>3. Running \ {c} # {}
  OBVIOUS
<1>4. Cardinality(Running \ {c}) # 0
  BY <1>2, <1>3, FS_EmptySet
<1> QED BY <1>2, <1>4

(* The cache after the eviction: room for one more, and nothing changed.     *)
LEMMA EvictedHasRoom ==
  ASSUME NamesTyped
  PROVE  /\ IsFiniteSet(DOMAIN Evicted(cache)) /\ DOMAIN Evicted(cache) \subseteq DOMAIN cache
         /\ Cardinality(DOMAIN Evicted(cache)) \in Nat
         /\ Cardinality(DOMAIN Evicted(cache)) < MaxEntries
         /\ \A g \in DOMAIN Evicted(cache) : Evicted(cache)[g] = cache[g]
<1>1. /\ IsFiniteSet(DOMAIN cache) /\ Cardinality(DOMAIN cache) \in Nat
      /\ Cardinality(DOMAIN cache) <= MaxEntries /\ MaxEntries \in Nat \ {0}
  BY FS_CardinalityType, NamesAssumption DEF NamesTyped
<1>2. CASE Cardinality(DOMAIN cache) >= MaxEntries
  <2>1. DOMAIN cache # {}
    BY <1>1, <1>2, FS_EmptySet
  <2>2. ASSUME NEW g \in DOMAIN cache PROVE g \in Int
    <3>1. g \in Nat
      BY NamesAssumption DEF NamesTyped
    <3> QED BY <3>1
  <2>3. Min(DOMAIN cache) \in DOMAIN cache
    BY <1>1, <2>1, <2>2, MinIsLeast
  <2>4. /\ IsFiniteSet(DOMAIN cache \ {Min(DOMAIN cache)})
        /\ Cardinality(DOMAIN cache \ {Min(DOMAIN cache)}) = Cardinality(DOMAIN cache) - 1
    BY <1>1, <2>3, FS_RemoveElement
  <2>5. Evicted(cache) = [g \in DOMAIN cache \ {Min(DOMAIN cache)} |-> cache[g]]
    BY <1>2 DEF Evicted
  <2>6. Cardinality(DOMAIN cache \ {Min(DOMAIN cache)}) \in Nat
    BY <2>4, FS_CardinalityType
  <2> QED BY <1>1, <2>4, <2>5, <2>6
<1>3. CASE ~(Cardinality(DOMAIN cache) >= MaxEntries)
  BY <1>1, <1>3 DEF Evicted
<1> QED BY <1>2, <1>3

LEMMA StartNames == ASSUME NamesInv, StartProcess PROVE NamesInv'
<1>1. PICK p \in Pids \ DOMAIN proc, g \in Cgroups, c \in Containers \union {0} :
        /\ proc' = With(proc, p, [cgroup |-> g, container |-> c])
        /\ reused' = IF Answers(g) \subseteq {c} THEN reused ELSE reused \union {g}
  BY DEF StartProcess
<1>2. cache' = cache /\ crowded' = crowded /\ search' = search
  BY DEF StartProcess
<1>3. /\ DOMAIN proc' = DOMAIN proc \union {p}
      /\ proc'[p].cgroup = g /\ proc'[p].container = c
      /\ \A q \in DOMAIN proc : proc'[q] = proc[q]
  BY <1>1 DEF With
<1>4. NamesTyped'
  BY <1>1, <1>2, <1>3 DEF NamesInv, NamesTyped
<1>5. ASSUME NEW h \in Cgroups, NEW q \in DOMAIN proc',
             proc'[q].cgroup = h, proc'[q].container # 0,
             ~(Answers(h)' \subseteq {proc'[q].container})
      PROVE  h \in crowded' \union reused'
  <2>1. Answers(h)' = Answers(h)
    BY <1>2 DEF Answers
  <2>2. CASE q = p
    BY <1>1, <1>3, <1>5, <2>1, <2>2
  <2>3. CASE q # p
    <3>1. q \in DOMAIN proc /\ proc'[q] = proc[q]
      BY <1>3, <2>3
    <3>2. h \in crowded \union reused
      BY <1>5, <2>1, <3>1 DEF NamesInv, OthersAreKnown
    <3> QED BY <1>1, <1>2, <3>1, <3>2
  <2> QED BY <2>2, <2>3
<1>6. OthersAreKnown'
  BY <1>5 DEF OthersAreKnown
<1> QED BY <1>4, <1>6 DEF NamesInv

LEMMA ExitNames == ASSUME NamesInv, ExitProcess PROVE NamesInv'
<1>1. PICK p \in DOMAIN proc : proc' = [q \in DOMAIN proc \ {p} |-> proc[q]]
  BY DEF ExitProcess
<1>2. UNCHANGED <<cache, search, crowded, reused>>
  BY DEF ExitProcess
<1> QED BY <1>1, <1>2 DEF NamesInv, NamesTyped, OthersAreKnown, Answers

(* A walk that begins, or ends without an answer, tells nothing.             *)
LEMMA WalkNames ==
  ASSUME NamesInv, \/ \E g \in Cgroups : Resolve(g)
                   \/ NotFound
  PROVE  NamesInv'
<1>1. /\ UNCHANGED <<proc, cache, crowded, reused>>
      /\ search.step # "found" /\ search'.step # "found"
      /\ search'.step # "idle" => search'.cgroup \in Cgroups \ DOMAIN cache
  BY DEF Resolve, NotFound, NoSearch
<1>2. NamesTyped'
  BY <1>1 DEF NamesInv, NamesTyped
<1>3. ASSUME NEW g \in Cgroups PROVE Answers(g)' = Answers(g)
  BY <1>1 DEF Answers
<1>4. OthersAreKnown'
  BY <1>1, <1>3 DEF NamesInv, OthersAreKnown
<1> QED BY <1>2, <1>4 DEF NamesInv

(* An answer that is not the container of the cgroup is one of two that run. *)
LEMMA ReadNames == ASSUME NamesInv, ReadCgroupFile PROVE NamesInv'
<1> DEFINE g == search.cgroup
           first == Min(Ahead)
<1>1. /\ search.step = "walk" /\ Ahead # {} /\ UNCHANGED <<proc, cache>>
      /\ search' = IF first \in NamedProcesses(g)
                     THEN [cgroup |-> g, from |-> 0, found |-> proc[first].container, step |-> "found"]
                     ELSE [cgroup |-> g, from |-> first + 1, found |-> 0, step |-> "walk"]
      /\ crowded' = IF first \in NamedProcesses(g) /\ Cardinality(Running) > 1
                      THEN crowded \union {g} ELSE crowded \ {g}
      /\ reused' = reused \ {g}
  BY DEF ReadCgroupFile
<1> HIDE DEF first
<1>2. g \in Cgroups \ DOMAIN cache
  BY <1>1 DEF NamesInv, NamesTyped
<1>3. first \in NamedProcesses(g) =>
        first \in DOMAIN proc /\ proc[first].container \in Containers \intersect Running
  BY DEF NamedProcesses, Running, NamesInv, NamesTyped
<1>4. search'.cgroup = g /\ search'.step \in {"walk", "found"}
  BY <1>1
<1>5. search'.step = "found" =>
        first \in NamedProcesses(g) /\ search'.found = proc[first].container
  BY <1>1
<1> HIDE DEF g
<1>6. NamesTyped'
  BY <1>1, <1>2, <1>3, <1>4, <1>5 DEF NamesInv, NamesTyped
<1>7. ASSUME NEW h \in Cgroups, NEW p \in DOMAIN proc,
             proc[p].cgroup = h, proc[p].container # 0,
             ~(Answers(h)' \subseteq {proc[p].container})
      PROVE  h \in crowded' \union reused'
  <2>1. CASE h = g
    <3>1. PICK x : x \in Answers(h)' /\ x # proc[p].container
      BY <1>7
    <3>2. h \notin DOMAIN cache'
      BY <1>1, <1>2, <2>1
    <3>3. search'.step = "found" /\ x = search'.found
      BY <3>1, <3>2 DEF Answers
    <3>4. proc[p].container \in Running /\ proc[first].container \in Running
      BY <1>3, <1>5, <1>7, <3>3 DEF Running
    <3>5. Cardinality(Running) > 1
      BY <1>5, <3>1, <3>3, <3>4, TwoAreCrowded DEF NamesInv
    <3> QED BY <1>1, <1>5, <2>1, <3>3, <3>5
  <2>2. CASE h # g
    <3>1. Answers(h)' \subseteq Answers(h)
      BY <1>1, <1>4, <2>2 DEF Answers
    <3>2. h \in crowded \union reused
      BY <1>7, <3>1 DEF NamesInv, OthersAreKnown
    <3> QED BY <1>1, <2>2, <3>2
  <2> QED BY <2>1, <2>2
<1>8. OthersAreKnown'
  BY <1>1, <1>7 DEF OthersAreKnown
<1> QED BY <1>6, <1>8 DEF NamesInv

(* The answer that is kept was there before it was.                          *)
LEMMA KeepNames == ASSUME NamesInv, KeepContainer PROVE NamesInv'
<1> DEFINE kept == Evicted(cache)
           g == search.cgroup
<1>1. /\ search.step = "found" /\ search'.step = "idle" /\ proc' = proc
      /\ cache' = With(kept, g, search.found)
      /\ crowded' = crowded \ (DOMAIN cache \ DOMAIN kept)
      /\ reused' = reused \ (DOMAIN cache \ DOMAIN kept)
  BY DEF KeepContainer, NoSearch
<1>2. g \in Cgroups \ DOMAIN cache /\ search.found \in Containers
  BY <1>1 DEF NamesInv, NamesTyped
<1>3. /\ IsFiniteSet(DOMAIN kept) /\ DOMAIN kept \subseteq DOMAIN cache
      /\ Cardinality(DOMAIN kept) \in Nat /\ Cardinality(DOMAIN kept) < MaxEntries
      /\ \A h \in DOMAIN kept : kept[h] = cache[h]
  BY EvictedHasRoom DEF NamesInv
<1>4. \A x : x \in Answers(g) <=> x = search.found
  BY <1>1, <1>2 DEF Answers
<1> HIDE DEF kept, g
<1>5. /\ DOMAIN cache' = DOMAIN kept \union {g} /\ cache'[g] = search.found
      /\ \A h \in DOMAIN kept : cache'[h] = cache[h]
  BY <1>1, <1>2, <1>3 DEF With
<1>6. NamesTyped'
  <2>1. IsFiniteSet(DOMAIN kept \union {g})
        /\ Cardinality(DOMAIN kept \union {g}) = Cardinality(DOMAIN kept) + 1
    BY <1>2, <1>3, FS_AddElement
  <2>2. Cardinality(DOMAIN cache') <= MaxEntries /\ IsFiniteSet(DOMAIN cache')
    BY <1>3, <1>5, <2>1, NamesAssumption
  <2> QED BY <1>1, <1>2, <1>3, <1>5, <2>2 DEF NamesInv, NamesTyped
<1>7. ASSUME NEW h \in Cgroups
      PROVE  /\ Answers(h)' \subseteq Answers(h)
             /\ h \in DOMAIN cache \ DOMAIN kept => Answers(h)' = {}
  <2>1. \A x : x \in Answers(h)' <=> h \in DOMAIN cache' /\ x = cache'[h]
    BY <1>1 DEF Answers
  <2>2. \A x : h \in DOMAIN cache /\ x = cache[h] => x \in Answers(h)
    BY DEF Answers
  <2> QED BY <1>2, <1>3, <1>4, <1>5, <2>1, <2>2
<1>8. ASSUME NEW h \in Cgroups, NEW p \in DOMAIN proc,
             proc[p].cgroup = h, proc[p].container # 0,
             ~(Answers(h)' \subseteq {proc[p].container})
      PROVE  h \in crowded' \union reused'
  <2>1. h \notin DOMAIN cache \ DOMAIN kept /\ ~(Answers(h) \subseteq {proc[p].container})
    BY <1>7, <1>8
  <2>2. h \in crowded \union reused
    BY <1>8, <2>1 DEF NamesInv, OthersAreKnown
  <2> QED BY <1>1, <2>1, <2>2
<1>9. OthersAreKnown'
  BY <1>1, <1>8 DEF OthersAreKnown
<1> QED BY <1>6, <1>9 DEF NamesInv

(* A workload goes by the name of another one only if more than one ran when *)
(* its cgroup was answered, or its cgroup was used again; the cache keeps    *)
(* its limit.                                                                *)
THEOREM NamesGoWrongOnlyWhenCrowded == NamesSpec => []MisnamedOnlyWhenCrowded
<1>1. NamesInit => NamesInv
  <2> SUFFICES ASSUME NamesInit PROVE NamesInv
    OBVIOUS
  <2>1. DOMAIN cache = {} /\ search.step = "idle"
    BY DEF NamesInit, NoSearch
  <2>2. IsFiniteSet(DOMAIN cache) /\ Cardinality(DOMAIN cache) <= MaxEntries
    BY <2>1, FS_EmptySet, NamesAssumption
  <2>3. PICK c \in Containers, g \in Cgroups :
          proc = [p \in {CHOOSE q \in Pids : TRUE} |-> [cgroup |-> g, container |-> c]]
    BY DEF NamesInit
  <2>4. (CHOOSE q \in Pids : TRUE) \in Pids
    BY NamesAssumption
  <2>5. DOMAIN proc \subseteq Pids /\ \A p \in DOMAIN proc : proc[p].container = c
    BY <2>3, <2>4
  <2> QED BY <2>1, <2>2, <2>5 DEF NamesInv, NamesTyped, OthersAreKnown, Answers
<1>2. NamesInv /\ [NamesNext]_nameVars => NamesInv'
  <2> SUFFICES ASSUME NamesInv, [NamesNext]_nameVars PROVE NamesInv'
    OBVIOUS
  <2>1. CASE UNCHANGED <<proc, cache, search, crowded, reused>>
    BY <2>1 DEF NamesInv, NamesTyped, OthersAreKnown, Answers
  <2>2. CASE PodRefresh
    BY <2>1, <2>2 DEF PodRefresh
  <2>3. CASE UNCHANGED nameVars
    BY <2>1, <2>3 DEF nameVars
  <2> QED BY <2>2, <2>3, StartNames, ExitNames, WalkNames, ReadNames, KeepNames
      DEF NamesNext
<1>3. NamesInv => MisnamedOnlyWhenCrowded
  <2> SUFFICES ASSUME NamesInv PROVE MisnamedOnlyWhenCrowded
    OBVIOUS
  <2>1. Cardinality(DOMAIN cache) <= MaxEntries /\ \A g \in DOMAIN cache : cache[g] # 0
    BY NamesAssumption DEF NamesInv, NamesTyped
  <2>2. ASSUME NEW g \in Cgroups, NEW c \in Containers,
               c \in Owner(g), NameOf(g) \notin {0, c}
        PROVE  g \in crowded \union reused
    <3>1. g \in DOMAIN cache /\ cache[g] # c
      BY <2>2 DEF NameOf
    <3>2. PICK p \in DOMAIN proc : proc[p].cgroup = g /\ proc[p].container = c
      BY <2>2 DEF Owner
    <3>3. c # 0
      BY NamesAssumption
    <3>4. cache[g] \in Answers(g)
      BY <3>1 DEF Answers
    <3> QED BY <3>1, <3>2, <3>3, <3>4 DEF NamesInv, OthersAreKnown
  <2> QED BY <2>1, <2>2 DEF MisnamedOnlyWhenCrowded
<1> QED BY <1>1, <1>2, <1>3, PTL DEF NamesSpec

-----------------------------------------------------------------------------
(* The audit trail. From its first write on, an event stands behind an end   *)
(* of line and at the end of the file, unless a cause to spoil it is on      *)
(* record; a file that does not end in an end of line has a task that is to  *)
(* write it, or has lost it; and two tasks that hold a file have crossed.    *)
Places == [event : Int, day : Int, step : {"idle", "event", "end"}]

AuditTyped ==
  /\ today \in Dates /\ trail \in [Dates -> Seq(Int)]
  /\ logged \in Nat
  /\ writing \in [Loggers -> Places]
  /\ \A l \in Loggers : writing[l].step = "event" => writing[l].event # 0
  /\ \A p \in complete : p[2] \in Dates

(* The last thing in a file is the event, on a line that it began.           *)
BeginsLine(file, e) ==
  /\ Len(file) > 0 /\ file[Len(file)] = e
  /\ Len(file) > 1 => file[Len(file) - 1] = EndOfLine

Excused(e) == e \in crossed \union behind

Retained(d) == today - Retention <= d

Sealed == \A p \in complete : Retained(p[2]) /\ ~Excused(p[1]) => OwnLine(trail[p[2]], p[1])

LinesBegun ==
  \A l \in Loggers :
    writing[l].step = "end" /\ writing[l].event > 0 /\ writing[l].day \in Dates
      /\ ~Excused(writing[l].event)
      => BeginsLine(trail[writing[l].day], writing[l].event)

OnOpenLine(l, d) ==
  writing[l].step = "end" /\ writing[l].event # 0 /\ writing[l].day = d

LinesEnd ==
  \A d \in Dates :
    Len(trail[d]) > 0 /\ trail[d][Len(trail[d])] # EndOfLine
      => d \in ragged \/ \E l \in Loggers : OnOpenLine(l, d)

Holds(l, d) == writing[l].step # "idle" /\ writing[l].day = d

Crossing ==
  \A k, l \in Loggers, d \in Dates :
    k # l /\ Holds(k, d) /\ Holds(l, d) /\ writing[k].event > 0 => writing[k].event \in crossed

AuditInv == AuditTyped /\ Sealed /\ LinesBegun /\ LinesEnd /\ Crossing

LEMMA DaysAreNumbers == Dates \subseteq Int /\ 0 \in Dates /\ Retention \in Int
  BY AuditAssumption DEF Dates

LEMMA AppendFacts ==
  ASSUME NEW file \in Seq(Int), NEW x \in Int
  PROVE  /\ Append(file, x) \in Seq(Int)
         /\ Len(file) \in Nat /\ Len(Append(file, x)) = Len(file) + 1
         /\ \A j \in 1 .. Len(file) : Append(file, x)[j] = file[j]
         /\ Append(file, x)[Len(file) + 1] = x
  OBVIOUS

(* A line of its own stays one, whatever is appended.                        *)
LEMMA LineStays ==
  ASSUME NEW file \in Seq(Int), NEW e, OwnLine(file, e), NEW x \in Int
  PROVE  OwnLine(Append(file, x), e)
<1>1. PICK i \in 1 .. Len(file) - 1 :
        /\ file[i] = e
        /\ i > 1 => file[i - 1] = EndOfLine
        /\ file[i + 1] = EndOfLine
  BY DEF OwnLine
<1> DEFINE longer == Append(file, x)
<1>2. /\ Len(file) \in Nat /\ Len(longer) = Len(file) + 1
      /\ \A j \in 1 .. Len(file) : longer[j] = file[j]
  BY AppendFacts
<1> HIDE DEF longer
<1>3. /\ i \in 1 .. Len(longer) - 1 /\ longer[i] = e
      /\ i > 1 => longer[i - 1] = EndOfLine
      /\ longer[i + 1] = EndOfLine
  BY SMTT(60), <1>1, <1>2
<1>4. OwnLine(longer, e)
  BY <1>3 DEF OwnLine
<1> QED BY <1>4 DEF longer

(* What begins a line is fresh, and its end of line makes it one of its own. *)
LEMMA LineBegins ==
  ASSUME NEW file \in Seq(Int), NEW e \in Int, Len(file) > 0 => file[Len(file)] = EndOfLine
  PROVE  BeginsLine(Append(file, e), e)
<1> DEFINE longer == Append(file, e)
<1>1. /\ Len(file) \in Nat /\ Len(longer) = Len(file) + 1
      /\ \A j \in 1 .. Len(file) : longer[j] = file[j]
      /\ longer[Len(file) + 1] = e
  BY AppendFacts
<1> HIDE DEF longer
<1>2. BeginsLine(longer, e)
  BY <1>1 DEF BeginsLine
<1> QED BY <1>2 DEF longer

LEMMA LineEnds ==
  ASSUME NEW file \in Seq(Int), NEW e \in Int, BeginsLine(file, e)
  PROVE  OwnLine(Append(file, EndOfLine), e)
<1> DEFINE longer == Append(file, EndOfLine)
<1>1. EndOfLine \in Int
  BY DEF EndOfLine
<1>2. /\ Len(file) \in Nat /\ Len(longer) = Len(file) + 1
      /\ \A j \in 1 .. Len(file) : longer[j] = file[j]
      /\ longer[Len(file) + 1] = EndOfLine
  BY <1>1, AppendFacts
<1> HIDE DEF longer
<1>3. /\ Len(file) \in 1 .. Len(longer) - 1 /\ longer[Len(file)] = e
      /\ Len(file) > 1 => longer[Len(file) - 1] = EndOfLine
      /\ longer[Len(file) + 1] = EndOfLine
  BY <1>2 DEF BeginsLine
<1>4. OwnLine(longer, e)
  BY <1>3 DEF OwnLine
<1> QED BY <1>4 DEF longer

LEMMA LaterKeepsLess ==
  ASSUME NEW a \in Int, NEW b \in Int, NEW r \in Int, NEW d \in Int, a <= b, b - r <= d
  PROVE  a - r <= d
  OBVIOUS

(* What is appended to the file of a day is appended to no other.            *)
LEMMA AppendedFacts ==
  ASSUME AuditTyped, NEW day, NEW x \in Int, trail' = Appended(day, x)
  PROVE  /\ trail' \in [Dates -> Seq(Int)]
         /\ \A d \in Dates : d # day => trail'[d] = trail[d]
         /\ day \in Dates => trail'[day] = Append(trail[day], x)
         /\ \A d \in Dates : trail'[d] = trail[d] \/ trail'[d] = Append(trail[d], x)
<1>1. \A d \in Dates : trail[d] \in Seq(Int) /\ Append(trail[d], x) \in Seq(Int)
  BY AppendFacts DEF AuditTyped
<1>2. trail' = [d \in Dates |-> IF d = day THEN Append(trail[d], x) ELSE trail[d]]
  BY DEF Appended
<1> QED BY <1>1, <1>2

(* Sealed events stay so when files only grow and excuses are only added.    *)
LEMMA SealedStays ==
  ASSUME AuditTyped, Sealed, today' = today, NEW x \in Int,
         \A d \in Dates : trail'[d] = trail[d] \/ trail'[d] = Append(trail[d], x),
         crossed \subseteq crossed', behind \subseteq behind', complete' = complete
  PROVE  Sealed'
<1> SUFFICES ASSUME NEW p \in complete, Retained(p[2]), ~Excused(p[1])'
             PROVE  OwnLine(trail'[p[2]], p[1])
  BY DEF Sealed, Retained
<1>1. p[2] \in Dates /\ trail[p[2]] \in Seq(Int)
  BY DEF AuditTyped
<1>2. ~Excused(p[1])
  BY DEF Excused
<1>3. OwnLine(trail[p[2]], p[1])
  BY <1>2 DEF Sealed
<1>4. OwnLine(Append(trail[p[2]], x), p[1])
  BY <1>1, <1>3, LineStays
<1> QED BY <1>1, <1>3, <1>4

(* Where a task is, and where the others still are, once it has moved.       *)
LEMMA OneMoves ==
  ASSUME AuditTyped, NEW l \in Loggers, NEW w \in Places, writing' = [writing EXCEPT ![l] = w]
  PROVE  /\ writing' \in [Loggers -> Places] /\ writing'[l] = w
         /\ \A k \in Loggers : k # l => writing'[k] = writing[k]
  BY DEF AuditTyped

LEMMA LogEventAudit == ASSUME AuditInv, NEW l \in Loggers, LogEvent(l) PROVE AuditInv'
<1> DEFINE w == [event |-> logged + 1, day |-> today, step |-> "event"]
<1>1. /\ writing[l].step = "idle" /\ writing' = [writing EXCEPT ![l] = w]
      /\ UNCHANGED <<today, trail, complete, ragged, behind>> /\ logged' = logged + 1
      /\ crossed' = IF Holding(today) = {} THEN crossed
                    ELSE crossed \union {logged + 1}
                           \union {writing[o].event : o \in Holding(today)}
  BY DEF LogEvent
<1>2. w \in Places /\ logged' \in Nat
  BY <1>1, DaysAreNumbers DEF AuditInv, AuditTyped, Places
<1>3. /\ writing' \in [Loggers -> Places] /\ writing'[l] = w
      /\ \A k \in Loggers : k # l => writing'[k] = writing[k]
  BY <1>1, <1>2, OneMoves DEF AuditInv
<1>4. crossed \subseteq crossed'
  BY <1>1
<1>5. AuditTyped'
  BY <1>1, <1>2, <1>3 DEF AuditInv, AuditTyped
<1>6. Sealed'
  BY <1>1, <1>4 DEF AuditInv, Sealed, Excused, Retained
<1>7. LinesBegun'
  BY <1>1, <1>3, <1>4 DEF AuditInv, LinesBegun, Excused
<1>8. LinesEnd'
  <2>1. ASSUME NEW k \in Loggers, NEW d, OnOpenLine(k, d) PROVE OnOpenLine(k, d)'
    BY <1>1, <1>3, <2>1 DEF OnOpenLine
  <2> QED BY <1>1, <2>1 DEF AuditInv, LinesEnd
<1>9. Crossing'
  <2> SUFFICES ASSUME NEW k \in Loggers, NEW j \in Loggers, NEW d \in Dates,
                      k # j, Holds(k, d)', Holds(j, d)', writing'[k].event > 0
               PROVE  writing'[k].event \in crossed'
    BY DEF Crossing
  <2>1. CASE k # l /\ j # l
    BY <1>3, <1>4, <2>1 DEF AuditInv, Crossing, Holds
  <2>2. CASE k = l
    <3>1. j \in Holding(today)
      BY <1>3, <2>2 DEF Holds, Holding
    <3> QED BY <1>1, <1>3, <2>2, <3>1
  <2>3. CASE j = l
    <3>1. k \in Holding(today) /\ writing'[k] = writing[k]
      BY <1>3, <2>3 DEF Holds, Holding
    <3>2. crossed' = crossed \union {logged + 1} \union {writing[o].event : o \in Holding(today)}
      BY <1>1, <3>1
    <3>3. writing[k].event \in {writing[o].event : o \in Holding(today)}
      BY <3>1
    <3> QED BY <3>1, <3>2, <3>3
  <2> QED BY <2>1, <2>2, <2>3
<1> QED BY <1>5, <1>6, <1>7, <1>8, <1>9 DEF AuditInv

(* A task writes to its file, the event or what a failure leaves of it.      *)
LEMMA WritesAudit ==
  ASSUME AuditInv, NEW l \in Loggers, writing[l].step = "event",
         NEW x \in Int, x # 0, x > 0 => x = writing[l].event,
         writing' = [writing EXCEPT ![l] = [event |-> x, day |-> writing[l].day, step |-> "end"]],
         trail' = Appended(writing[l].day, x),
         ragged' = ragged \ {writing[l].day},
         behind \subseteq behind',
         x > 0 /\ writing[l].day \in ragged => x \in behind',
         UNCHANGED <<today, logged, complete, crossed>>
  PROVE  AuditInv'
<1> DEFINE d == writing[l].day
           w == [event |-> x, day |-> d, step |-> "end"]
<1>1. AuditTyped /\ Sealed /\ LinesBegun /\ LinesEnd /\ Crossing
  BY DEF AuditInv
<1>2. w \in Places
  BY <1>1 DEF AuditTyped, Places
<1>3. /\ writing' \in [Loggers -> Places] /\ writing'[l] = w
      /\ \A k \in Loggers : k # l => writing'[k] = writing[k]
  BY <1>1, <1>2, OneMoves
<1>4. /\ trail' \in [Dates -> Seq(Int)]
      /\ \A b \in Dates : b # d => trail'[b] = trail[b]
      /\ d \in Dates => trail'[d] = Append(trail[d], x)
      /\ \A b \in Dates : trail'[b] = trail[b] \/ trail'[b] = Append(trail[b], x)
  BY <1>1, AppendedFacts
<1>5. AuditTyped'
  BY <1>1, <1>3, <1>4 DEF AuditTyped
<1>6. Sealed'
  BY <1>1, <1>4, SealedStays
<1> HIDE DEF d
<1>7. ASSUME NEW k \in Loggers, k # l, writing[k].step = "end", writing[k].event > 0,
             writing[k].day = d, d \in Dates
      PROVE  Excused(writing[k].event)
  <2>1. Holds(k, d) /\ Holds(l, d)
    BY <1>7 DEF Holds, d
  <2> QED BY <1>1, <1>7, <2>1 DEF Crossing, Excused
<1>8. LinesBegun'
  <2> SUFFICES ASSUME NEW k \in Loggers, writing'[k].step = "end", writing'[k].event > 0,
                      writing'[k].day \in Dates, ~Excused(writing[k].event)'
               PROVE  BeginsLine(trail'[writing'[k].day], writing'[k].event)
    BY DEF LinesBegun
  <2>1. CASE k = l
    <3>1. x > 0 /\ d \in Dates /\ x \notin crossed /\ x \notin behind'
      BY <1>3, <2>1 DEF Excused
    <3>2. d \notin ragged
      BY <3>1 DEF d
    <3>3. ~\E j \in Loggers : OnOpenLine(j, d)
      <4> SUFFICES ASSUME NEW j \in Loggers, OnOpenLine(j, d) PROVE FALSE
        OBVIOUS
      <4>1. j # l /\ Holds(j, d) /\ Holds(l, d)
        BY DEF OnOpenLine, Holds, d
      <4> QED BY <1>1, <3>1, <4>1 DEF Crossing
    <3>4. trail[d] \in Seq(Int) /\ (Len(trail[d]) > 0 => trail[d][Len(trail[d])] = EndOfLine)
      BY <1>1, <3>1, <3>2, <3>3 DEF AuditTyped, LinesEnd
    <3>5. BeginsLine(Append(trail[d], x), x)
      BY <3>4, LineBegins
    <3> QED BY <1>3, <1>4, <2>1, <3>1, <3>5
  <2>2. CASE k # l
    <3>1. writing'[k] = writing[k] /\ ~Excused(writing[k].event)
      BY <1>3, <2>2 DEF Excused
    <3>2. writing[k].day # d
      BY <1>7, <2>2, <3>1
    <3> QED BY <1>1, <1>4, <3>1, <3>2 DEF LinesBegun
  <2> QED BY <2>1, <2>2
<1>9. LinesEnd'
  <2> SUFFICES ASSUME NEW b \in Dates, Len(trail'[b]) > 0, trail'[b][Len(trail'[b])] # EndOfLine
               PROVE  b \in ragged' \/ \E k \in Loggers : OnOpenLine(k, b)'
    BY DEF LinesEnd
  <2>1. CASE b = d
    BY <1>3, <2>1 DEF OnOpenLine
  <2>2. CASE b # d
    <3>1. b \in ragged \/ \E k \in Loggers : OnOpenLine(k, b)
      BY <1>1, <1>4, <2>2 DEF LinesEnd
    <3>2. ASSUME NEW k \in Loggers, OnOpenLine(k, b) PROVE OnOpenLine(k, b)'
      BY <1>3, <2>2, <3>2 DEF OnOpenLine, d
    <3> QED BY <2>2, <3>1, <3>2 DEF d
  <2> QED BY <2>1, <2>2
<1>10. Crossing'
  <2> SUFFICES ASSUME NEW k \in Loggers, NEW j \in Loggers, NEW b \in Dates,
                      k # j, Holds(k, b)', Holds(j, b)', writing'[k].event > 0
               PROVE  writing'[k].event \in crossed'
    BY DEF Crossing
  <2>1. Holds(k, b) /\ Holds(j, b)
    BY <1>3 DEF Holds, d
  <2>2. writing'[k].event = writing[k].event
    BY <1>3
  <2> QED BY <1>1, <2>1, <2>2 DEF Crossing
<1> QED BY <1>5, <1>6, <1>8, <1>9, <1>10 DEF AuditInv

LEMMA WriteEventAudit == ASSUME AuditInv, NEW l \in Loggers, WriteEvent(l) PROVE AuditInv'
<1> DEFINE x == writing[l].event
<1>1. x \in Int /\ x # 0 /\ writing[l].step = "event"
  BY DEF WriteEvent, AuditInv, AuditTyped, Places
<1>2. /\ writing' = [writing EXCEPT ![l] = [event |-> x, day |-> writing[l].day, step |-> "end"]]
      /\ trail' = Appended(writing[l].day, x)
      /\ ragged' = ragged \ {writing[l].day}
      /\ behind \subseteq behind'
      /\ writing[l].day \in ragged => x \in behind'
      /\ UNCHANGED <<today, logged, complete, crossed>>
  BY DEF WriteEvent
<1> HIDE DEF x
<1>3. x > 0 => x = writing[l].event
  BY DEF x
<1> QED BY <1>1, <1>2, <1>3, WritesAudit

LEMMA WriteFailsAudit == ASSUME AuditInv, NEW l \in Loggers, WriteFails(l) PROVE AuditInv'
<1>1. /\ writing[l].step = "event" /\ UNCHANGED <<today, logged, complete, crossed, behind>>
      /\ \E left \in {0, Fragment} :
           /\ trail' = IF left = 0 THEN trail ELSE Appended(writing[l].day, left)
           /\ ragged' = IF left = 0 THEN ragged ELSE ragged \ {writing[l].day}
           /\ writing' = [writing EXCEPT ![l] = [event |-> left, day |-> writing[l].day, step |-> "end"]]
  BY DEF WriteFails
<1>2. CASE /\ trail' = Appended(writing[l].day, Fragment)
           /\ ragged' = ragged \ {writing[l].day}
           /\ writing' = [writing EXCEPT ![l] = [event |-> Fragment, day |-> writing[l].day, step |-> "end"]]
  <2>1. Fragment \in Int /\ Fragment # 0 /\ ~(Fragment > 0)
    BY DEF Fragment
  <2>2. behind \subseteq behind'
    BY <1>1
  <2> QED BY <1>1, <1>2, <2>1, <2>2, WritesAudit
<1>3. CASE /\ trail' = trail /\ ragged' = ragged
           /\ writing' = [writing EXCEPT ![l] = [event |-> 0, day |-> writing[l].day, step |-> "end"]]
  <2> DEFINE w == [event |-> 0, day |-> writing[l].day, step |-> "end"]
  <2>1. w \in Places
    BY DEF AuditInv, AuditTyped, Places
  <2>2. /\ writing' \in [Loggers -> Places] /\ writing'[l] = w
        /\ \A k \in Loggers : k # l => writing'[k] = writing[k]
    BY <1>3, <2>1, OneMoves DEF AuditInv
  <2>3. AuditTyped'
    BY <1>1, <1>3, <2>2 DEF AuditInv, AuditTyped
  <2>4. Sealed'
    BY <1>1, <1>3 DEF AuditInv, Sealed, Excused, Retained
  <2>5. LinesBegun'
    BY <1>1, <1>3, <2>2 DEF AuditInv, LinesBegun, Excused
  <2>6. LinesEnd'
    <3>1. ASSUME NEW k \in Loggers, NEW d, OnOpenLine(k, d) PROVE OnOpenLine(k, d)'
      BY <1>1, <2>2, <3>1 DEF OnOpenLine
    <3> QED BY <1>3, <3>1 DEF AuditInv, LinesEnd
  <2>7. Crossing'
    <3> SUFFICES ASSUME NEW k \in Loggers, NEW j \in Loggers, NEW b \in Dates,
                        k # j, Holds(k, b)', Holds(j, b)', writing'[k].event > 0
                 PROVE  writing'[k].event \in crossed'
      BY DEF Crossing
    <3>1. Holds(k, b) /\ Holds(j, b) /\ writing'[k].event = writing[k].event
      BY <1>1, <2>2 DEF Holds
    <3> QED BY <1>1, <3>1 DEF AuditInv, Crossing
  <2> QED BY <2>3, <2>4, <2>5, <2>6, <2>7 DEF AuditInv
<1> QED BY <1>1, <1>2, <1>3

LEMMA IdlePlace == Idle \in Places /\ Idle.step = "idle"
  BY DEF Idle, Places

LEMMA WriteEndAudit == ASSUME AuditInv, NEW l \in Loggers, WriteEnd(l) PROVE AuditInv'
<1> DEFINE d == writing[l].day
           e == writing[l].event
<1>1. AuditTyped /\ Sealed /\ LinesBegun /\ LinesEnd /\ Crossing
  BY DEF AuditInv
<1>2. /\ writing[l].step = "end" /\ trail' = Appended(d, EndOfLine)
      /\ ragged' = ragged \ {d} /\ writing' = [writing EXCEPT ![l] = Idle]
      /\ complete' = IF e > 0 /\ d \in Dates THEN complete \union {<<e, d>>} ELSE complete
      /\ UNCHANGED <<today, logged, crossed, behind>>
  BY DEF WriteEnd
<1>3. /\ writing' \in [Loggers -> Places] /\ writing'[l] = Idle
      /\ \A k \in Loggers : k # l => writing'[k] = writing[k]
  BY <1>1, <1>2, IdlePlace, OneMoves
<1>4. EndOfLine \in Int
  BY DEF EndOfLine
<1>5. /\ trail' \in [Dates -> Seq(Int)]
      /\ \A b \in Dates : b # d => trail'[b] = trail[b]
      /\ d \in Dates => trail'[d] = Append(trail[d], EndOfLine)
      /\ \A b \in Dates : trail'[b] = trail[b] \/ trail'[b] = Append(trail[b], EndOfLine)
  BY <1>1, <1>2, <1>4, AppendedFacts
<1>6. AuditTyped'
  BY <1>1, <1>2, <1>3, <1>5, IdlePlace DEF AuditTyped
<1>7. Sealed'
  <2> SUFFICES ASSUME NEW p \in complete', Retained(p[2])', ~Excused(p[1])'
               PROVE  OwnLine(trail'[p[2]], p[1])
    BY DEF Sealed
  <2>1. CASE p \in complete
    <3>1. Retained(p[2]) /\ ~Excused(p[1]) /\ p[2] \in Dates /\ trail[p[2]] \in Seq(Int)
      BY <1>1, <1>2, <2>1 DEF Retained, Excused, AuditTyped
    <3>2. OwnLine(trail[p[2]], p[1])
      BY <1>1, <2>1, <3>1 DEF Sealed
    <3>3. OwnLine(Append(trail[p[2]], EndOfLine), p[1])
      BY <1>4, <3>1, <3>2, LineStays
    <3> QED BY <1>5, <3>1, <3>2, <3>3
  <2>2. CASE e > 0 /\ d \in Dates /\ p = <<e, d>>
    <3>1. ~Excused(e) /\ p[1] = e /\ p[2] = d
      BY <1>2, <2>2 DEF Excused
    <3>2. BeginsLine(trail[d], e)
      BY <1>1, <1>2, <2>2, <3>1 DEF LinesBegun
    <3>3. e \in Int /\ trail[d] \in Seq(Int)
      BY <1>1, <2>2 DEF AuditTyped, Places
    <3>4. OwnLine(Append(trail[d], EndOfLine), e)
      <4> HIDE DEF d, e
      <4> QED BY <3>2, <3>3, LineEnds
    <3> QED BY <1>5, <2>2, <3>1, <3>4
  <2> QED BY <1>2, <2>1, <2>2
<1>8. LinesBegun'
  <2> SUFFICES ASSUME NEW k \in Loggers, writing'[k].step = "end", writing'[k].event > 0,
                      writing'[k].day \in Dates, ~Excused(writing[k].event)'
               PROVE  BeginsLine(trail'[writing'[k].day], writing'[k].event)
    BY DEF LinesBegun
  <2>1. k # l /\ writing'[k] = writing[k] /\ ~Excused(writing[k].event)
    BY <1>2, <1>3, IdlePlace DEF Excused
  <2>2. writing[k].day # d
    <3> SUFFICES ASSUME writing[k].day = d PROVE FALSE
      OBVIOUS
    <3>1. Holds(k, d) /\ Holds(l, d) /\ d \in Dates
      BY <1>2, <2>1 DEF Holds
    <3> QED BY <1>1, <2>1, <3>1 DEF Crossing, Excused
  <2> QED BY <1>1, <1>5, <2>1, <2>2 DEF LinesBegun
<1>9. LinesEnd'
  <2> SUFFICES ASSUME NEW b \in Dates, Len(trail'[b]) > 0, trail'[b][Len(trail'[b])] # EndOfLine
               PROVE  b \in ragged' \/ \E k \in Loggers : OnOpenLine(k, b)'
    BY DEF LinesEnd
  <2>1. b # d
    <3> SUFFICES ASSUME b = d PROVE FALSE
      OBVIOUS
    <3>1. trail'[b] = Append(trail[b], EndOfLine) /\ trail[b] \in Seq(Int)
      BY <1>1, <1>5 DEF AuditTyped
    <3>2. /\ Len(trail'[b]) = Len(trail[b]) + 1
          /\ Append(trail[b], EndOfLine)[Len(trail[b]) + 1] = EndOfLine
      BY <1>4, <3>1, AppendFacts
    <3> QED BY <3>1, <3>2
  <2>2. b \in ragged \/ \E k \in Loggers : OnOpenLine(k, b)
    BY <1>1, <1>5, <2>1 DEF LinesEnd
  <2>3. ASSUME NEW k \in Loggers, OnOpenLine(k, b) PROVE OnOpenLine(k, b)'
    BY <1>3, <2>1, <2>3 DEF OnOpenLine
  <2> QED BY <1>2, <2>1, <2>2, <2>3
<1>10. Crossing'
  <2> SUFFICES ASSUME NEW k \in Loggers, NEW j \in Loggers, NEW b \in Dates,
                      k # j, Holds(k, b)', Holds(j, b)', writing'[k].event > 0
               PROVE  writing'[k].event \in crossed'
    BY DEF Crossing
  <2>1. k # l /\ j # l /\ Holds(k, b) /\ Holds(j, b)
    BY <1>3, IdlePlace DEF Holds
  <2> QED BY <1>1, <1>2, <1>3, <2>1 DEF Crossing
<1> QED BY <1>6, <1>7, <1>8, <1>9, <1>10 DEF AuditInv

(* Tasks that stop where they are, one of them or all: those whose line was  *)
(* open leave it ragged.                                                     *)
LEMMA StopsAudit ==
  ASSUME AuditInv, NEW S \in SUBSET Loggers,
         writing' \in [Loggers -> Places],
         \A k \in S : writing'[k] = Idle,
         \A k \in Loggers \ S : writing'[k] = writing[k],
         ragged' = ragged \union Unended(S),
         UNCHANGED <<today, trail, logged, complete, crossed, behind>>
  PROVE  AuditInv'
<1>1. AuditTyped'
  BY IdlePlace DEF AuditInv, AuditTyped
<1>2. Sealed'
  BY DEF AuditInv, Sealed, Excused, Retained
<1>3. ASSUME NEW k \in Loggers, writing'[k].step # "idle"
      PROVE  k \notin S /\ writing'[k] = writing[k]
  BY <1>3, IdlePlace
<1>4. LinesBegun'
  BY <1>3 DEF AuditInv, LinesBegun, Excused
<1>5. LinesEnd'
  <2> SUFFICES ASSUME NEW b \in Dates, Len(trail[b]) > 0, trail[b][Len(trail[b])] # EndOfLine
               PROVE  b \in ragged' \/ \E k \in Loggers : OnOpenLine(k, b)'
    BY DEF LinesEnd
  <2>1. b \in ragged \/ \E k \in Loggers : OnOpenLine(k, b)
    BY DEF AuditInv, LinesEnd
  <2>2. ASSUME NEW k \in Loggers, OnOpenLine(k, b)
        PROVE  b \in ragged' \/ OnOpenLine(k, b)'
    <3>1. CASE k \in S
      BY <2>2, <3>1 DEF OnOpenLine, Unended
    <3>2. CASE k \notin S
      BY <2>2, <3>2 DEF OnOpenLine
    <3> QED BY <3>1, <3>2
  <2> QED BY <2>1, <2>2
<1>6. Crossing'
  <2>1. ASSUME NEW k \in Loggers, NEW b, Holds(k, b)' PROVE Holds(k, b) /\ writing'[k] = writing[k]
    BY <1>3, <2>1 DEF Holds
  <2> QED BY <2>1 DEF AuditInv, Crossing
<1> QED BY <1>1, <1>2, <1>4, <1>5, <1>6 DEF AuditInv

LEMMA EndFailsAudit == ASSUME AuditInv, NEW l \in Loggers, EndFails(l) PROVE AuditInv'
<1>1. /\ writing' = [writing EXCEPT ![l] = Idle] /\ ragged' = ragged \union Unended({l})
      /\ UNCHANGED <<today, trail, logged, complete, crossed, behind>>
  BY DEF EndFails
<1>2. /\ writing' \in [Loggers -> Places] /\ writing'[l] = Idle
      /\ \A k \in Loggers : k # l => writing'[k] = writing[k]
  BY <1>1, IdlePlace, OneMoves DEF AuditInv
<1>3. {l} \in SUBSET Loggers /\ \A k \in {l} : writing'[k] = Idle
  BY <1>2
<1>4. \A k \in Loggers \ {l} : writing'[k] = writing[k]
  BY <1>2
<1> QED BY <1>1, <1>2, <1>3, <1>4, StopsAudit

LEMMA CrashAuditKeeps == ASSUME AuditInv, CrashAudit PROVE AuditInv'
<1>1. /\ writing' = [k \in Loggers |-> Idle] /\ ragged' = ragged \union Unended(Loggers)
      /\ UNCHANGED <<today, trail, logged, complete, crossed, behind>>
  BY DEF CrashAudit
<1>2. writing' \in [Loggers -> Places] /\ \A k \in Loggers : writing'[k] = Idle
  BY <1>1, IdlePlace
<1>3. \A k \in Loggers \ Loggers : writing'[k] = writing[k]
  OBVIOUS
<1> QED BY <1>1, <1>2, <1>3, StopsAudit

LEMMA CleanupAudit == ASSUME AuditInv, Cleanup PROVE AuditInv'
<1>1. AuditTyped /\ Sealed /\ LinesBegun /\ LinesEnd /\ Crossing
  BY DEF AuditInv
<1>2. /\ trail' = [d \in Dates |-> IF Outdated(d) THEN <<>> ELSE trail[d]]
      /\ UNCHANGED <<today, logged, complete, ragged, crossed, behind>>
  BY DEF Cleanup
<1>3. ASSUME NEW l \in Loggers
      PROVE  /\ writing'[l] \in Places
             /\ writing'[l].step = writing[l].step /\ writing'[l].event = writing[l].event
             /\ \/ writing'[l].day = writing[l].day
                   /\ (writing[l].step # "idle" => ~Outdated(writing[l].day))
                \/ writing'[l].day = Nowhere
  <2>1. writing[l] \in Places /\ Nowhere \in Int
    BY <1>1 DEF AuditTyped, Nowhere
  <2>2. writing'[l] = IF writing[l].step # "idle" /\ Outdated(writing[l].day)
                      THEN [event |-> writing[l].event, day |-> Nowhere, step |-> writing[l].step]
                      ELSE writing[l]
    BY DEF Cleanup
  <2> QED BY <2>1, <2>2 DEF Places
<1>4. Nowhere \notin Dates
  BY AuditAssumption DEF Nowhere, Dates
<1>5. AuditTyped'
  <2>1. writing' \in [Loggers -> Places]
    <3>1. writing' = [l \in Loggers |-> writing'[l]]
      BY DEF Cleanup
    <3> QED BY <1>3, <3>1
  <2>2. trail' \in [Dates -> Seq(Int)]
    BY <1>1, <1>2 DEF AuditTyped
  <2>3. \A l \in Loggers : writing'[l].step = "event" => writing'[l].event # 0
    BY <1>1, <1>3 DEF AuditTyped
  <2> QED BY <1>1, <1>2, <2>1, <2>2, <2>3 DEF AuditTyped
<1>6. ASSUME NEW d \in Dates, ~Outdated(d) PROVE trail'[d] = trail[d]
  BY <1>2, <1>6
<1>7. ASSUME NEW d \in Dates, Outdated(d) PROVE trail'[d] = <<>>
  BY <1>2, <1>7
<1>8. Sealed'
  <2> SUFFICES ASSUME NEW p \in complete, Retained(p[2]), ~Excused(p[1])
               PROVE  OwnLine(trail'[p[2]], p[1])
    BY <1>2 DEF Sealed, Retained, Excused
  <2>1. p[2] \in Dates /\ ~Outdated(p[2])
    <3>1. p[2] \in Dates /\ today \in Dates
      BY <1>1 DEF AuditTyped
    <3>2. p[2] \in Int /\ today \in Int /\ Retention \in Int
      BY <3>1, DaysAreNumbers
    <3> QED BY <3>1, <3>2 DEF Retained, Outdated
  <2> QED BY <1>1, <1>6, <2>1 DEF Sealed
<1>9. LinesBegun'
  <2> SUFFICES ASSUME NEW k \in Loggers, writing'[k].step = "end", writing'[k].event > 0,
                      writing'[k].day \in Dates, ~Excused(writing[k].event)'
               PROVE  BeginsLine(trail'[writing'[k].day], writing'[k].event)
    BY DEF LinesBegun
  <2>1. /\ writing'[k].day = writing[k].day /\ ~Outdated(writing[k].day)
        /\ writing[k].step = "end" /\ writing'[k].event = writing[k].event
    BY <1>3, <1>4
  <2>2. ~Excused(writing[k].event)
    BY <1>2, <2>1 DEF Excused
  <2> QED BY <1>1, <1>6, <2>1, <2>2 DEF LinesBegun
<1>10. LinesEnd'
  <2> SUFFICES ASSUME NEW b \in Dates, Len(trail'[b]) > 0, trail'[b][Len(trail'[b])] # EndOfLine
               PROVE  b \in ragged' \/ \E k \in Loggers : OnOpenLine(k, b)'
    BY DEF LinesEnd
  <2>1. ~Outdated(b) /\ trail'[b] = trail[b]
    BY <1>6, <1>7
  <2>2. b \in ragged \/ \E k \in Loggers : OnOpenLine(k, b)
    BY <1>1, <2>1 DEF LinesEnd
  <2>3. ASSUME NEW k \in Loggers, OnOpenLine(k, b) PROVE OnOpenLine(k, b)'
    <3>1. writing[k].step # "idle" /\ ~Outdated(writing[k].day)
      BY <2>1, <2>3 DEF OnOpenLine
    <3>2. writing'[k] = writing[k]
      BY <3>1 DEF Cleanup
    <3> QED BY <2>3, <3>2 DEF OnOpenLine
  <2> QED BY <1>2, <2>2, <2>3
<1>11. Crossing'
  <2>1. ASSUME NEW k \in Loggers, NEW b \in Dates, Holds(k, b)'
        PROVE  Holds(k, b) /\ writing'[k].event = writing[k].event
    BY <1>3, <1>4, <2>1 DEF Holds
  <2> QED BY <1>1, <1>2, <2>1 DEF Crossing
<1> QED BY <1>5, <1>8, <1>9, <1>10, <1>11 DEF AuditInv

LEMMA NextDayAudit == ASSUME AuditInv, NextDay PROVE AuditInv'
<1>1. /\ UNCHANGED <<trail, writing, logged, complete, ragged, crossed, behind>>
      /\ today < LastDay /\ today' = today + 1
  BY DEF NextDay
<1>2. today \in Dates /\ today' \in Dates /\ today \in Int /\ today' \in Int
  BY <1>1, AuditAssumption DEF AuditInv, AuditTyped, Dates
<1>3. AuditTyped' /\ LinesBegun' /\ LinesEnd' /\ Crossing'
  <2>1. AuditTyped'
    BY <1>1, <1>2 DEF AuditInv, AuditTyped
  <2>2. LinesBegun'
    BY <1>1 DEF AuditInv, LinesBegun, Excused
  <2>3. LinesEnd'
    BY <1>1 DEF AuditInv, LinesEnd, OnOpenLine
  <2>4. Crossing'
    BY <1>1 DEF AuditInv, Crossing, Holds
  <2> QED BY <2>1, <2>2, <2>3, <2>4
<1>4. ASSUME NEW d \in Dates, Retained(d)' PROVE Retained(d)
  <2>1. d \in Int /\ Retention \in Int /\ today <= today'
    BY <1>1, <1>2, DaysAreNumbers
  <2> QED BY <1>2, <1>4, <2>1, LaterKeepsLess DEF Retained
<1>5. Sealed'
  BY <1>1, <1>4 DEF AuditInv, AuditTyped, Sealed, Excused
<1> QED BY <1>3, <1>5 DEF AuditInv

(* Whatever tasks log, fail or crash meanwhile: an event whose two writes    *)
(* succeeded stays readable for as long as it is kept, unless another task   *)
(* had the file open with it or it came first behind a line without an end.  *)
THEOREM LoggedStaysReadable == AuditSpec => []LoggedEventsReadable
<1>1. AuditInit => AuditInv
  <2> SUFFICES ASSUME AuditInit PROVE AuditInv
    OBVIOUS
  <2>1. AuditTyped
    BY IdlePlace, DaysAreNumbers DEF AuditInit, AuditTyped
  <2>2. Sealed /\ LinesBegun /\ LinesEnd /\ Crossing
    BY IdlePlace DEF AuditInit, Sealed, LinesBegun, LinesEnd, Crossing, Holds
  <2> QED BY <2>1, <2>2 DEF AuditInv
<1>2. AuditInv /\ UNCHANGED auditVars => AuditInv'
  <2> SUFFICES ASSUME AuditInv, UNCHANGED auditVars PROVE AuditInv'
    OBVIOUS
  <2>1. \A k \in {} : writing'[k] = Idle
    OBVIOUS
  <2>2. /\ writing' = writing /\ ragged' = ragged /\ writing' \in [Loggers -> Places]
        /\ UNCHANGED <<today, trail, logged, complete, crossed, behind>>
    BY DEF auditVars, AuditInv, AuditTyped
  <2>3. ragged' = ragged \union Unended({}) /\ {} \in SUBSET Loggers
    BY <2>2 DEF Unended
  <2>4. \A k \in Loggers \ {} : writing'[k] = writing[k]
    BY <2>2
  <2> QED BY <2>1, <2>2, <2>3, <2>4, StopsAudit
<1>3. AuditInv /\ [AuditNext]_auditVars => AuditInv'
  BY <1>2, LogEventAudit, WriteEventAudit, WriteFailsAudit, WriteEndAudit, EndFailsAudit,
     CrashAuditKeeps, CleanupAudit, NextDayAudit DEF AuditNext
<1>4. AuditInv => LoggedEventsReadable
  BY DEF AuditInv, Sealed, Excused, Retained, LoggedEventsReadable
<1> QED BY <1>1, <1>3, <1>4, PTL DEF AuditSpec
-----------------------
(* The statistics: values that stay the same have no spread, and the two     *)
(* windows of the trend then have the same total.                            *)
LEMMA SteadyIsConstant ==
  ASSUME NEW s \in Seq(Nat), Len(s) >= 1, Steady(s)
  PROVE  s[1] \in Nat /\ \A i \in 1 .. Len(s) : s[i] = s[1]
<1> DEFINE n == Len(s)
           R == Range(s)
<1>1. n \in Nat /\ s \in [1 .. n -> Nat] /\ DOMAIN s = 1 .. n /\ 1 \in 1 .. n
  OBVIOUS
<1>2. s \in [1 .. n -> R] /\ \A y \in R : \E i \in 1 .. n : s[i] = y
  BY <1>1 DEF Range
<1>3. \A i \in 1 .. n : s[i] \in R
  BY <1>1 DEF Range
<1> HIDE DEF R
<1>4. IsFiniteSet(R)
  <2>1. s \in Surjection(1 .. n, R)
    BY <1>2 DEF Surjection
  <2>2. IsFiniteSet(1 .. n)
    BY <1>1, FS_Interval
  <2> QED BY <2>1, <2>2, FS_Surjection
<1>5. Cardinality(R) \in Nat /\ Cardinality(R) <= 1
  BY <1>4, FS_CardinalityType DEF Steady, R
<1>6. Cardinality(R) # 0
  BY <1>1, <1>3, <1>4, FS_EmptySet
<1>7. PICK x : R = {x}
  <2>1. Cardinality(R) = 1
    BY <1>5, <1>6
  <2> QED BY <1>4, <2>1, FS_Singleton, Zenon
<1> QED BY <1>1, <1>3, <1>7

LEMMA ConstantTotals ==
  ASSUME NEW s \in Seq(Nat), NEW c \in Nat, \A i \in 1 .. Len(s) : s[i] = c
  PROVE  Total(s) = Len(s) * c /\ Squares(s) = Len(s) * (c * c)
<1> DEFINE n == Len(s)
           sq == [i \in DOMAIN s |-> s[i] * s[i]]
           d == c * c
<1>1. n \in Nat /\ DOMAIN s = 1 .. n /\ d \in Int
  OBVIOUS
<1>2. DOMAIN sq = 1 .. n /\ \A i \in 1 .. n : sq[i] = d
  BY <1>1
<1>a. c \in Int /\ \A i \in 1 .. n : s[i] = c
  OBVIOUS
<1> HIDE DEF sq, d
<1>3. SumFunctionOnSet(s, 1 .. n) = n * c
  <2> HIDE DEF n
  <2> QED BY <1>1, <1>a, SumConstant
<1>4. SumFunctionOnSet(sq, 1 .. n) = n * d
  <2> HIDE DEF n
  <2> QED BY <1>1, <1>2, SumConstant
<1>5. Total(s) = SumFunctionOnSet(s, 1 .. n) /\ Squares(s) = SumFunctionOnSet(sq, 1 .. n)
  BY <1>1, <1>2 DEF Total, Squares, SumFunction, sq
<1> QED BY <1>3, <1>4, <1>5 DEF d

LEMMA NoSpread == ASSUME NEW n \in Nat, NEW c \in Nat PROVE n * (n * (c * c)) - (n * c) * (n * c) = 0
  OBVIOUS

LatestOf(s, l, k, n) ==
  /\ l \in Seq(Nat) /\ Len(l) = n
  /\ \A i \in 1 .. n : l[i] = s[(Len(s) - k - n) + i]

LEMMA LatestAre ==
  ASSUME NEW s \in Seq(Nat), NEW k \in Nat, NEW n \in Nat \ {0}, Len(s) >= k + n
  PROVE  LatestOf(s, Latest(s, k, n), k, n)
<1> DEFINE high == Len(s) - k
           low == (high - n) + 1
<1>1. /\ Len(s) \in Nat /\ high \in Nat /\ low \in Nat /\ 1 <= low /\ low <= high
      /\ high <= Len(s) /\ high - low + 1 = n
  OBVIOUS
<1>2. Latest(s, k, n) = SubSeq(s, low, high)
  <2>1. (IF high > n THEN high - n + 1 ELSE 1) = low
    BY <1>1
  <2>2. ~ (high < 1)
    BY <1>1
  <2> QED BY <2>1, <2>2 DEF Latest
<1> HIDE DEF high, low
<1>3. SubSeq(s, low, high) \in Seq(Nat) /\ Len(SubSeq(s, low, high)) = n
  BY <1>1
<1>4. \A i \in 1 .. n : SubSeq(s, low, high)[i] = s[low + i - 1]
  BY <1>1
<1>5. \A i \in 1 .. n : low + i - 1 = (Len(s) - k - n) + i
  BY <1>1 DEF low, high
<1> QED BY <1>2, <1>3, <1>4, <1>5 DEF LatestOf

LEMMA QuietBaseline ==
  ASSUME samples \in Seq(Nat), Len(samples) >= 2, Steady(samples), NEW v \in Readings
  PROVE  ~Anomalous(v)
<1> DEFINE n == Len(samples)
           c == samples[1]
<1>1. n \in Nat /\ n >= 2
  OBVIOUS
<1>2. c \in Nat /\ \A i \in 1 .. n : samples[i] = c
  BY SteadyIsConstant
<1> HIDE DEF c
<1>3. Total(samples) = n * c /\ Squares(samples) = n * (c * c)
  BY <1>2, ConstantTotals
<1>4. Spread(samples) = 0
  BY <1>1, <1>2, <1>3, NoSpread DEF Spread
<1> QED BY <1>1, <1>4 DEF Anomalous, FarFromBaseline

LEMMA QuietTrend ==
  ASSUME points \in Seq(Nat), Len(points) >= 2 * Window, Steady(Latest(points, 0, 2 * Window))
  PROVE  ~EarlyWarning
<1> DEFINE n == Len(points)
           w == Window
           all == Latest(points, 0, 2 * w)
           new == Latest(points, 0, w)
           old == Latest(points, w, w)
           c == all[1]
<1>1. n \in Nat /\ w \in Nat \ {0} /\ 2 * w \in Nat \ {0} /\ n >= 2 * w /\ TrendThreshold \in Nat
  BY DetectorsAssumption
<1>2. LatestOf(points, all, 0, 2 * w) /\ LatestOf(points, new, 0, w) /\ LatestOf(points, old, w, w)
  <2>1. 0 \in Nat /\ n >= 0 + 2 * w /\ n >= 0 + w /\ n >= w + w
    BY <1>1
  <2> QED BY <1>1, <2>1, LatestAre
<1>3. Steady(all)
  OBVIOUS
<1> HIDE DEF all, new, old, n
<1>4. /\ all \in Seq(Nat) /\ Len(all) = 2 * w /\ \A i \in 1 .. 2 * w : all[i] = points[(n - 0 - 2 * w) + i]
      /\ new \in Seq(Nat) /\ Len(new) = w /\ \A i \in 1 .. w : new[i] = points[(n - 0 - w) + i]
      /\ old \in Seq(Nat) /\ Len(old) = w /\ \A i \in 1 .. w : old[i] = points[(n - w - w) + i]
  BY <1>2 DEF n, LatestOf
<1>5. c \in Nat /\ \A i \in 1 .. 2 * w : all[i] = c
  <2>1. Len(all) >= 1
    BY <1>1, <1>4
  <2>2. all[1] \in Nat /\ \A i \in 1 .. Len(all) : all[i] = all[1]
    BY <1>3, <1>4, <2>1, SteadyIsConstant
  <2> QED BY <1>4, <2>2
<1> HIDE DEF c, w
<1>6. \A i \in 1 .. w : new[i] = c
  <2> SUFFICES ASSUME NEW i \in 1 .. w PROVE new[i] = c
    OBVIOUS
  <2>1. w + i \in 1 .. 2 * w /\ (n - 0 - 2 * w) + (w + i) = (n - 0 - w) + i
    BY <1>1
  <2>2. new[i] = points[(n - 0 - w) + i]
    BY <1>4
  <2>3. all[w + i] = points[(n - 0 - 2 * w) + (w + i)] /\ all[w + i] = c
    BY <1>4, <1>5, <2>1
  <2> QED BY <2>1, <2>2, <2>3
<1>7. \A i \in 1 .. w : old[i] = c
  <2> SUFFICES ASSUME NEW i \in 1 .. w PROVE old[i] = c
    OBVIOUS
  <2>1. i \in 1 .. 2 * w /\ (n - 0 - 2 * w) + i = (n - w - w) + i
    BY <1>1
  <2>2. old[i] = points[(n - w - w) + i]
    BY <1>4
  <2>3. all[i] = points[(n - 0 - 2 * w) + i] /\ all[i] = c
    BY <1>4, <1>5, <2>1
  <2> QED BY <2>1, <2>2, <2>3
<1>8. Total(new) = w * c /\ Total(old) = w * c
  BY ZenonT(60), <1>4, <1>5, <1>6, <1>7, ConstantTotals
<1>9. Total(new) - Total(old) = 0
  <2>1. w * c \in Int
    BY <1>1, <1>5
  <2> QED BY <1>8, <2>1
<1>10. ~ (10 * (Total(new) - Total(old)) > TrendThreshold * w)
  <2>1. TrendThreshold * w \in Nat
    BY <1>1
  <2> QED BY <1>9, <2>1
<1>11. Trend(points) # "Rising"
  BY <1>10 DEF Trend, new, old, w
<1> QED BY <1>11 DEF EarlyWarning

(* However long a workload was observed and whatever came before: readings   *)
(* that do not change are no anomaly, and scores that do not change for two  *)
(* windows give no warning.                                                  *)
THEOREM SteadyStaysQuiet == DetectorsSpec => []SteadyWorkloadsAreQuiet
<1> DEFINE Typed == samples \in Seq(Nat) /\ points \in Seq(Nat)
<1>1. DetectorsInit => Typed
  BY DEF DetectorsInit
<1>2. Typed /\ [BaselineNext \/ TrendNext]_<<baselineVars, trendVars>> => Typed'
  <2> SUFFICES ASSUME Typed, [BaselineNext \/ TrendNext]_<<baselineVars, trendVars>> PROVE Typed'
    OBVIOUS
  <2>1. ASSUME NEW v \in Readings, Observe(v) PROVE Typed'
    <3>1. v \in Nat
      BY DetectorsAssumption
    <3> QED BY <2>1, <3>1 DEF Observe
  <2>2. ASSUME NEW v \in Readings, RecordScore(v) PROVE Typed'
    <3>1. v \in Nat /\ Append(points, v) \in Seq(Nat)
      BY DetectorsAssumption
    <3>2. ASSUME Len(points) >= MaxPoints PROVE Append(Tail(points), v) \in Seq(Nat)
      <4>1. points # <<>>
        BY <3>2, DetectorsAssumption
      <4>2. Tail(points) \in Seq(Nat)
        BY <4>1
      <4> QED BY <3>1, <4>2
    <3> QED BY <2>2, <3>1, <3>2 DEF RecordScore
  <2>3. CASE ResetBaseline
    BY <2>3 DEF ResetBaseline
  <2>4. CASE ClearHistory
    BY <2>4 DEF ClearHistory
  <2>5. CASE UNCHANGED <<baselineVars, trendVars>>
    BY <2>5 DEF baselineVars, trendVars
  <2> QED BY <2>1, <2>2, <2>3, <2>4, <2>5 DEF BaselineNext, TrendNext
<1>3. Typed => SteadyWorkloadsAreQuiet
  BY QuietBaseline, QuietTrend DEF SteadyWorkloadsAreQuiet
<1> QED BY <1>1, <1>2, <1>3, PTL DEF DetectorsSpec
-----------------------------------------------------------------------------
(* The execution proof: the pieces of evidence of a CVE are as many as the   *)
(* events that spoke for it, and of the same processes.                      *)
Calls ==
  [type : {"register"}, package : Packages, cve : ProofCves]
    \cup [type : {"net"}, actor : Actors, port : {389, 443}, address : {"ten", "outside"}]
    \cup [type : {"file"}, actor : Actors, package : Packages, kind : FileKinds]
    \cup [type : {"exec"}, actor : Actors, named : BOOLEAN]

Registered(p, c) ==
  \E j \in DOMAIN witnessed : witnessed[j] = [type |-> "register", package |-> p, cve |-> c]

(* The test of Speaks, on the state at the call.                             *)
SpeaksNow(call, c) ==
  \/ call.type = "net" /\ c = Log4Shell /\ Jndi(call)
  \/ call.type = "file" /\ <<call.package, c>> \in packageCves
  \/ call.type = "exec" /\ c = Log4Shell /\ call.named

Pieces == [actor : Actors, level : Levels]

ProofTyped ==
  /\ witnessed \in Seq(Calls)
  /\ DOMAIN proof = ProofCves /\ \A c \in ProofCves : proof[c] \in Seq(Pieces)

AsHappened(c) ==
  /\ IsFiniteSet(For(c))
  /\ Len(proof[c]) = Cardinality(For(c))
  /\ {proof[c][k].actor : k \in DOMAIN proof[c]} = {witnessed[i].actor : i \in For(c)}
  /\ (\E k \in DOMAIN proof[c] : proof[c][k].level = High)
       <=> \E i \in For(c) : witnessed[i].type = "net"

ProofInv ==
  /\ ProofTyped
  /\ \A p \in Packages, c \in ProofCves : <<p, c>> \in packageCves <=> Registered(p, c)
  /\ \A c \in ProofCves : AsHappened(c)

LEMMA ForGrows ==
  ASSUME ProofInv, NEW call \in Calls, witnessed' = Append(witnessed, call), NEW c \in ProofCves
  PROVE  /\ For(c)' = For(c) \cup (IF SpeaksNow(call, c) THEN {Len(witnessed) + 1} ELSE {})
         /\ Len(witnessed) + 1 \notin For(c) /\ Len(witnessed) \in Nat
         /\ witnessed'[Len(witnessed) + 1] = call
         /\ \A i \in For(c) : witnessed'[i] = witnessed[i]
<1>0. PICK n \in Nat : n = Len(witnessed)
  BY DEF ProofInv, ProofTyped
<1>1. /\ DOMAIN witnessed = 1 .. n /\ DOMAIN witnessed' = 1 .. n + 1
      /\ witnessed'[n + 1] = call /\ \A i \in 1 .. n : witnessed'[i] = witnessed[i]
  BY <1>0 DEF ProofInv, ProofTyped
<1>2. ASSUME NEW i \in 1 .. n PROVE Speaks(i, c)' <=> Speaks(i, c)
  <2>1. witnessed'[i] = witnessed[i] /\ \A j \in 1 .. i - 1 : witnessed'[j] = witnessed[j]
    BY <1>1
  <2>2. (\E j \in 1 .. i - 1 :
            witnessed'[j] = [type |-> "register", package |-> witnessed'[i].package, cve |-> c])
        <=> \E j \in 1 .. i - 1 :
            witnessed[j] = [type |-> "register", package |-> witnessed[i].package, cve |-> c]
    BY <2>1
  <2>3. (witnessed'[i].type = "net" /\ c = Log4Shell /\ Jndi(witnessed'[i]))
        <=> (witnessed[i].type = "net" /\ c = Log4Shell /\ Jndi(witnessed[i]))
    BY <2>1, Zenon
  <2>4. (witnessed'[i].type = "exec" /\ c = Log4Shell /\ witnessed'[i].named)
        <=> (witnessed[i].type = "exec" /\ c = Log4Shell /\ witnessed[i].named)
    BY <2>1, Zenon
  <2>5. witnessed'[i].type = witnessed[i].type
    BY <2>1
  <2> QED BY <2>2, <2>3, <2>4, <2>5, Zenon DEF Speaks
<1>3. Speaks(n + 1, c)' <=> SpeaksNow(call, c)
  <2>1. CASE call.type = "file"
    <3>1. call.package \in Packages
      BY <2>1 DEF Calls
    <3>2. SpeaksNow(call, c) <=> Registered(call.package, c)
      BY <2>1, <3>1 DEF SpeaksNow, ProofInv
    <3>3. \A j \in 1 .. n : witnessed'[j] = witnessed[j]
      BY <1>1
    <3>4. (n + 1) - 1 = n
      BY <1>1
    <3>5. Speaks(n + 1, c)' <=> \E j \in 1 .. n :
             witnessed'[j] = [type |-> "register", package |-> call.package, cve |-> c]
      BY <1>1, <2>1, <3>4 DEF Speaks
    <3> QED BY <1>1, <3>2, <3>3, <3>5 DEF Registered
  <2>2. CASE call.type \in {"net", "exec", "register"}
    BY <1>1, <2>2 DEF Speaks, SpeaksNow, Jndi, External
  <2>3. call.type \in {"file", "net", "exec", "register"}
    BY DEF Calls
  <2> QED BY <2>1, <2>2, <2>3
<1>4. For(c)' = {i \in 1 .. n + 1 : Speaks(i, c)'} /\ For(c) = {i \in 1 .. n : Speaks(i, c)}
  BY <1>1 DEF For
<1>5. 1 .. n + 1 = (1 .. n) \cup {n + 1} /\ n + 1 \notin 1 .. n
  BY <1>1
<1>6. For(c)' = For(c) \cup (IF SpeaksNow(call, c) THEN {n + 1} ELSE {})
  BY <1>2, <1>3, <1>4, <1>5
<1> QED BY <1>0, <1>1, <1>4, <1>5, <1>6

LEMMA ProofInitial == ProofInit => ProofInv
<1> SUFFICES ASSUME ProofInit PROVE ProofInv
  OBVIOUS
<1>1. witnessed = <<>> /\ packageCves = {} /\ DOMAIN witnessed = {}
  BY DEF ProofInit
<1>2. ProofTyped
  BY DEF ProofInit, ProofTyped
<1>3. ASSUME NEW c \in ProofCves PROVE AsHappened(c)
  <2>1. For(c) = {} /\ proof[c] = <<>> /\ DOMAIN proof[c] = {} /\ Len(proof[c]) = 0
    BY <1>1 DEF For, ProofInit
  <2> QED BY <2>1, FS_EmptySet DEF AsHappened
<1> QED BY <1>1, <1>2, <1>3 DEF ProofInv, Registered

(* A registration adds no evidence and speaks for nothing.                   *)
LEMMA RegisterProof ==
  ASSUME ProofInv, NEW p \in Packages, NEW d \in ProofCves, RegisterCve(p, d)
  PROVE  ProofInv'
<1> DEFINE call == [type |-> "register", package |-> p, cve |-> d]
<1>1. call \in Calls /\ call.type = "register"
  BY DEF Calls
<1>2. /\ witnessed' = Append(witnessed, call) /\ proof' = proof
      /\ packageCves' = packageCves \cup {<<p, d>>}
  BY DEF RegisterCve, Witness
<1>3. PICK n \in Nat : n = Len(witnessed) /\ witnessed \in Seq(Calls)
  BY DEF ProofInv, ProofTyped
<1>4. ASSUME NEW q \in Packages, NEW c \in ProofCves
      PROVE  <<q, c>> \in packageCves' <=> Registered(q, c)'
  <2>1. call = [type |-> "register", package |-> q, cve |-> c] <=> q = p /\ c = d
    OBVIOUS
  <2> HIDE DEF call
  <2>2. /\ DOMAIN witnessed' = (1 .. n) \cup {n + 1} /\ DOMAIN witnessed = 1 .. n
        /\ witnessed'[n + 1] = call /\ \A i \in 1 .. n : witnessed'[i] = witnessed[i]
    BY <1>1, <1>2, <1>3
  <2>3. Registered(q, c)' <=> Registered(q, c) \/ (q = p /\ c = d)
    BY <2>1, <2>2 DEF Registered
  <2> QED BY <1>2, <2>3 DEF ProofInv
<1> HIDE DEF call
<1>5. ProofTyped'
  <2>1. DOMAIN proof = ProofCves /\ \A c \in ProofCves : proof[c] \in Seq(Pieces)
    BY DEF ProofInv, ProofTyped
  <2>2. witnessed' \in Seq(Calls)
    BY <1>1, <1>2, <1>3
  <2> QED BY <1>2, <2>1, <2>2, Zenon DEF ProofTyped
<1>6. ASSUME NEW c \in ProofCves PROVE AsHappened(c)'
  <2>1. ~SpeaksNow(call, c)
    BY <1>1 DEF SpeaksNow
  <2>2. For(c)' = For(c) /\ \A i \in For(c) : witnessed'[i] = witnessed[i]
    BY <1>1, <1>2, <2>1, ForGrows
  <2>3. {witnessed[i].actor : i \in For(c)}' = {witnessed[i].actor : i \in For(c)}
    BY <2>2
  <2>4. (\E i \in For(c)' : witnessed'[i].type = "net")
          <=> \E i \in For(c) : witnessed[i].type = "net"
    BY <2>2
  <2>5. AsHappened(c)
    BY DEF ProofInv
  <2> QED BY <1>2, <2>2, <2>3, <2>4, <2>5, Zenon DEF AsHappened
<1> QED BY <1>4, <1>5, <1>6 DEF ProofInv

(* Any other call adds a piece for each CVE it speaks for.                   *)
LEMMA EventProof ==
  ASSUME ProofInv, NEW call \in Calls, call.type # "register", Witness(call),
         NEW level \in Levels, level = High <=> call.type = "net",
         AddEvidence({c \in ProofCves : SpeaksNow(call, c)}, call.actor, level)
  PROVE  ProofInv'
<1> DEFINE piece == [actor |-> call.actor, level |-> level]
<1>1. /\ witnessed' = Append(witnessed, call) /\ packageCves' = packageCves
      /\ proof' = [c \in ProofCves |-> IF SpeaksNow(call, c) THEN Append(proof[c], piece)
                                       ELSE proof[c]]
  BY DEF Witness, AddEvidence
<1>2. piece \in Pieces /\ piece.actor = call.actor /\ piece.level = level
  <2>1. call.actor \in Actors
    BY DEF Calls
  <2> QED BY <2>1 DEF Pieces
<1> HIDE DEF piece
<1>3. PICK n \in Nat : n = Len(witnessed) /\ witnessed \in Seq(Calls)
  BY DEF ProofInv, ProofTyped
<1>4. ProofTyped'
  <2>1. ASSUME NEW c \in ProofCves PROVE proof'[c] \in Seq(Pieces)
    <3>1. proof[c] \in Seq(Pieces)
      BY DEF ProofInv, ProofTyped
    <3>2. Append(proof[c], piece) \in Seq(Pieces)
      BY <1>2, <3>1
    <3> QED BY <1>1, <3>1, <3>2
  <2>2. DOMAIN proof' = ProofCves
    BY <1>1
  <2>3. witnessed' \in Seq(Calls)
    BY <1>1, <1>3
  <2> QED BY <2>1, <2>2, <2>3, Zenon DEF ProofTyped
<1>5. ASSUME NEW q \in Packages, NEW c \in ProofCves
      PROVE  <<q, c>> \in packageCves' <=> Registered(q, c)'
  <2>1. call # [type |-> "register", package |-> q, cve |-> c]
    OBVIOUS
  <2>2. /\ DOMAIN witnessed' = (1 .. n) \cup {n + 1} /\ DOMAIN witnessed = 1 .. n
        /\ witnessed'[n + 1] = call /\ \A i \in 1 .. n : witnessed'[i] = witnessed[i]
    BY <1>1, <1>3
  <2>3. Registered(q, c)' <=> Registered(q, c)
    BY <2>1, <2>2 DEF Registered
  <2> QED BY <1>1, <2>3 DEF ProofInv
<1>6. ASSUME NEW c \in ProofCves PROVE AsHappened(c)'
  <2>1. /\ For(c)' = For(c) \cup (IF SpeaksNow(call, c) THEN {n + 1} ELSE {})
        /\ n + 1 \notin For(c) /\ witnessed'[n + 1] = call
        /\ \A i \in For(c) : witnessed'[i] = witnessed[i]
    BY <1>1, <1>3, ForGrows
  <2>2. AsHappened(c)
    BY DEF ProofInv
  <2>3. CASE ~SpeaksNow(call, c)
    <3>1. For(c)' = For(c) /\ proof'[c] = proof[c]
      BY <1>1, <2>1, <2>3
    <3>2. {witnessed[i].actor : i \in For(c)}' = {witnessed[i].actor : i \in For(c)}
      BY <2>1, <3>1
    <3>3. (\E i \in For(c)' : witnessed'[i].type = "net")
            <=> \E i \in For(c) : witnessed[i].type = "net"
      BY <2>1, <3>1
    <3> QED BY <2>1, <2>2, <3>1, <3>2, <3>3, ZenonT(60) DEF AsHappened
  <2>4. CASE SpeaksNow(call, c)
    <3>0. proof[c] \in Seq(Pieces)
      BY DEF ProofInv, ProofTyped
    <3>1. PICK m \in Nat : m = Len(proof[c])
      BY <3>0
    <3>2. /\ proof'[c] = Append(proof[c], piece) /\ Len(proof'[c]) = m + 1
          /\ DOMAIN proof'[c] = (1 .. m) \cup {m + 1} /\ DOMAIN proof[c] = 1 .. m
          /\ proof'[c][m + 1] = piece /\ \A k \in 1 .. m : proof'[c][k] = proof[c][k]
      BY <1>1, <1>2, <2>4, <3>0, <3>1
    <3>3. For(c)' = For(c) \cup {n + 1}
      BY <2>1, <2>4
    <3>4. IsFiniteSet(For(c)') /\ Cardinality(For(c)') = Cardinality(For(c)) + 1
      <4>1. IsFiniteSet(For(c)) /\ n + 1 \notin For(c)
        BY <2>1, <2>2, Zenon DEF AsHappened
      <4> QED BY <3>3, <4>1, FS_AddElement
    <3>5. Len(proof'[c]) = Cardinality(For(c)')
      <4>1. Len(proof[c]) = Cardinality(For(c))
        BY <2>2, Zenon DEF AsHappened
      <4> QED BY <3>1, <3>2, <3>4, <4>1
    <3>6. {proof'[c][k].actor : k \in DOMAIN proof'[c]}
            = {proof[c][k].actor : k \in DOMAIN proof[c]} \cup {call.actor}
      BY <1>2, <3>2
    <3>7. {witnessed'[i].actor : i \in For(c)'}
            = {witnessed[i].actor : i \in For(c)} \cup {call.actor}
      BY <2>1, <3>3
    <3>8. (\E k \in DOMAIN proof'[c] : proof'[c][k].level = High)
            <=> (\E k \in DOMAIN proof[c] : proof[c][k].level = High) \/ call.type = "net"
      BY <1>2, <3>2
    <3>9. (\E i \in For(c)' : witnessed'[i].type = "net")
            <=> (\E i \in For(c) : witnessed[i].type = "net") \/ call.type = "net"
      BY <2>1, <3>3
    <3> QED BY <2>2, <3>4, <3>5, <3>6, <3>7, <3>8, <3>9 DEF AsHappened
  <2> QED BY <2>3, <2>4
<1> QED BY <1>4, <1>5, <1>6 DEF ProofInv

LEMMA ProofNextInv == ProofInv /\ [ProofNext]_proofVars => ProofInv'
<1> SUFFICES ASSUME ProofInv, [ProofNext]_proofVars PROVE ProofInv'
  OBVIOUS
<1>1. ASSUME NEW p \in Packages, NEW c \in ProofCves, RegisterCve(p, c) PROVE ProofInv'
  BY <1>1, RegisterProof
<1>2. ASSUME NEW e \in Calls, e.type = "net", ProcessNetworkEvent(e) PROVE ProofInv'
  <2>1. {c \in ProofCves : SpeaksNow(e, c)} = IF Jndi(e) THEN {Log4Shell} ELSE {}
    BY <1>2, ProofAssumption DEF SpeaksNow
  <2>2. Witness(e) /\ AddEvidence({c \in ProofCves : SpeaksNow(e, c)}, e.actor, High)
    BY <1>2, <2>1 DEF ProcessNetworkEvent
  <2> QED BY <1>2, <2>2, EventProof DEF Levels
<1>3. ASSUME NEW a \in Actors, NEW package \in Packages, NEW kind \in FileKinds,
             ProcessFileEvent([type |-> "file", actor |-> a, package |-> package, kind |-> kind])
      PROVE  ProofInv'
  <2> DEFINE e == [type |-> "file", actor |-> a, package |-> package, kind |-> kind]
             level == IF kind \in {"mmap", "exec"} THEN Medium ELSE Low
  <2>1. e \in Calls /\ e.type = "file" /\ e.actor = a /\ e.package = package /\ e.kind = kind
    BY DEF Calls
  <2>2. ProcessFileEvent(e)
    BY <1>3
  <2>3. level \in Levels /\ level # High
    BY DEF Levels, High, Medium, Low
  <2> HIDE DEF e
  <2>4. {c \in ProofCves : SpeaksNow(e, c)} = CvesForPath(e.package)
    BY <2>1 DEF SpeaksNow, CvesForPath
  <2>5. Witness(e) /\ AddEvidence({c \in ProofCves : SpeaksNow(e, c)}, e.actor, level)
    BY <2>1, <2>2, <2>4 DEF ProcessFileEvent
  <2> HIDE DEF level
  <2> QED BY <2>1, <2>3, <2>5, EventProof
<1>4. ASSUME NEW a \in Actors, NEW named \in BOOLEAN,
             ProcessExecEvent([type |-> "exec", actor |-> a, named |-> named])
      PROVE  ProofInv'
  <2> DEFINE e == [type |-> "exec", actor |-> a, named |-> named]
  <2>1. e \in Calls /\ e.type = "exec" /\ e.actor = a
    BY DEF Calls
  <2>2. ProcessExecEvent(e)
    BY <1>4
  <2> HIDE DEF e
  <2>3. {c \in ProofCves : SpeaksNow(e, c)} = IF e.named THEN {Log4Shell} ELSE {}
    BY <2>1, ProofAssumption DEF SpeaksNow
  <2>4. Witness(e) /\ AddEvidence({c \in ProofCves : SpeaksNow(e, c)}, e.actor, Medium)
    BY <2>2, <2>3 DEF ProcessExecEvent
  <2>5. Medium \in Levels /\ Medium # High
    BY DEF Levels, Medium, High
  <2> QED BY <2>1, <2>4, <2>5, EventProof
<1>5. CASE Query \/ UNCHANGED proofVars
  <2>1. UNCHANGED <<packageCves, proof, witnessed>>
    BY <1>5 DEF Query, proofVars
  <2>2. ASSUME NEW c \in ProofCves PROVE AsHappened(c)'
    <3>1. ASSUME NEW i \in DOMAIN witnessed PROVE Speaks(i, c)' <=> Speaks(i, c)
      BY <2>1 DEF Speaks
    <3>2. For(c)' = For(c)
      BY <2>1, <3>1 DEF For
    <3>3. AsHappened(c)
      BY DEF ProofInv
    <3> QED BY ZenonT(60), <2>1, <3>2, <3>3 DEF AsHappened
  <2>3. ProofTyped'
    BY <2>1, Zenon DEF ProofInv, ProofTyped
  <2>4. ASSUME NEW p \in Packages, NEW c \in ProofCves
        PROVE  <<p, c>> \in packageCves' <=> Registered(p, c)'
    BY <2>1 DEF ProofInv, Registered
  <2> QED BY <2>2, <2>3, <2>4 DEF ProofInv
<1>6. CASE ProofNext
  <2>1. CASE \E package \in Packages, c \in ProofCves : RegisterCve(package, c)
    BY <1>1, <2>1
  <2>2. CASE \E a \in Actors, port \in {389, 443}, address \in {"ten", "outside"} :
               ProcessNetworkEvent([type |-> "net", actor |-> a, port |-> port,
                                    address |-> address])
    <3>1. PICK a \in Actors, port \in {389, 443}, address \in {"ten", "outside"} :
            ProcessNetworkEvent([type |-> "net", actor |-> a, port |-> port,
                                 address |-> address])
      BY <2>2
    <3>2. /\ [type |-> "net", actor |-> a, port |-> port, address |-> address] \in Calls
          /\ [type |-> "net", actor |-> a, port |-> port, address |-> address].type = "net"
      BY DEF Calls
    <3> QED BY <1>2, <3>1, <3>2, Zenon
  <2>3. CASE \E a \in Actors, package \in Packages, kind \in FileKinds :
               ProcessFileEvent([type |-> "file", actor |-> a, package |-> package,
                                 kind |-> kind])
    BY <1>3, <2>3, Zenon
  <2>4. CASE \E a \in Actors, named \in BOOLEAN :
               ProcessExecEvent([type |-> "exec", actor |-> a, named |-> named])
    BY <1>4, <2>4, Zenon
  <2> QED BY <1>5, <1>6, <2>1, <2>2, <2>3, <2>4, Zenon DEF ProofNext
<1> QED BY <1>5, <1>6

(* The pieces of one level.                                                  *)
AtLevel(c, l) == {i \in DOMAIN proof[c] : proof[c][i].level = l}

LEMMA LevelCounted ==
  ASSUME NEW c \in ProofCves, proof[c] \in Seq(Pieces), NEW l
  PROVE  /\ OfLevel(c, l) = Cardinality(AtLevel(c, l)) /\ IsFiniteSet(AtLevel(c, l))
         /\ OfLevel(c, l) \in Nat
         /\ OfLevel(c, l) > 0 <=> \E k \in DOMAIN proof[c] : proof[c][k].level = l
<1>1. PICK n \in Nat : DOMAIN proof[c] = 1 .. n
  OBVIOUS
<1>2. AtLevel(c, l) \subseteq 1 .. n /\ OfLevel(c, l) = Cardinality(AtLevel(c, l))
  BY <1>1 DEF OfLevel, AtLevel
<1>3. IsFiniteSet(AtLevel(c, l))
  BY <1>2, CountOfFirst, FS_Subset
<1>4. (\E x : x \in AtLevel(c, l)) <=> \E k \in DOMAIN proof[c] : proof[c][k].level = l
  BY Zenon DEF AtLevel
<1>5. /\ Cardinality(AtLevel(c, l)) \in Nat
      /\ Cardinality(AtLevel(c, l)) > 0 <=> \E x : x \in AtLevel(c, l)
  BY <1>3, CountPositive
<1> QED BY <1>2, <1>3, <1>4, <1>5, Zenon

LEMMA LevelsAdd ==
  ASSUME NEW c \in ProofCves, proof[c] \in Seq(Pieces)
  PROVE  Len(proof[c]) = OfLevel(c, High) + OfLevel(c, Medium) + OfLevel(c, Low)
<1>1. PICK n \in Nat : n = Len(proof[c]) /\ DOMAIN proof[c] = 1 .. n
  OBVIOUS
<1>2. 1 .. n = (AtLevel(c, High) \cup AtLevel(c, Medium)) \cup AtLevel(c, Low)
  <2>1. \A i \in 1 .. n : proof[c][i] \in Pieces
    BY <1>1
  <2>2. \A i \in 1 .. n : proof[c][i].level \in {High, Medium, Low}
    BY <2>1 DEF Pieces, Levels
  <2> QED BY <1>1, <2>2 DEF AtLevel
<1>3. /\ AtLevel(c, High) \cap AtLevel(c, Medium) = {}
      /\ (AtLevel(c, High) \cup AtLevel(c, Medium)) \cap AtLevel(c, Low) = {}
  BY DEF AtLevel, High, Medium, Low
<1>4. \A l : OfLevel(c, l) = Cardinality(AtLevel(c, l)) /\ IsFiniteSet(AtLevel(c, l))
  BY LevelCounted
<1>5. /\ IsFiniteSet(AtLevel(c, High) \cup AtLevel(c, Medium))
      /\ Cardinality(AtLevel(c, High) \cup AtLevel(c, Medium))
           = OfLevel(c, High) + OfLevel(c, Medium)
  <2>1. /\ IsFiniteSet(AtLevel(c, High) \cup AtLevel(c, Medium))
        /\ Cardinality(AtLevel(c, High) \cup AtLevel(c, Medium))
             = Cardinality(AtLevel(c, High)) + Cardinality(AtLevel(c, Medium))
    BY <1>3, <1>4, DisjointCount
  <2> QED BY <1>4, <2>1, Zenon
<1>6. Cardinality(1 .. n)
        = Cardinality(AtLevel(c, High) \cup AtLevel(c, Medium)) + Cardinality(AtLevel(c, Low))
  BY <1>2, <1>3, <1>4, <1>5, DisjointCount
<1>7. Cardinality(1 .. n) = n
  BY CountOfFirst
<1> QED BY <1>1, <1>4, <1>5, <1>6, <1>7, Zenon

LEMMA ProofInvTells == ProofInv => ProofIsWhatHappened
<1> SUFFICES ASSUME ProofInv, NEW c \in ProofCves
             PROVE  LET s == Summary(c)
                    IN  /\ s.total = Cardinality(For(c))
                        /\ s.actors = {witnessed[i].actor : i \in For(c)}
                        /\ s.total = s.high + s.medium + s.low
                        /\ s.exploited <=> \E i \in For(c) : witnessed[i].type = "net"
                        /\ \A l \in Levels : /\ OfLevel(c, l) > 0 => HasExecutionProof(c, l)
                                            /\ HasExecutionProof(c, l) => s.total > 0
  BY Zenon DEF ProofIsWhatHappened
<1>1. proof[c] \in Seq(Pieces) /\ AsHappened(c)
  BY DEF ProofInv, ProofTyped
<1>2. PICK n \in Nat : n = Len(proof[c]) /\ DOMAIN proof[c] = 1 .. n
  BY <1>1
<1>3. \A k \in 1 .. n : proof[c][k] \in Pieces
  BY <1>1, <1>2
<1>4. \A k \in 1 .. n : proof[c][k].level \in {1, 2, 3}
  BY <1>3 DEF Pieces, Levels, High, Medium, Low
<1>5. Range(proof[c]) = {proof[c][k] : k \in 1 .. n}
  BY <1>2 DEF Range
<1>6. {e.actor : e \in Range(proof[c])} = {proof[c][k].actor : k \in DOMAIN proof[c]}
  BY <1>2, <1>5
<1>7. ASSUME NEW l \in Levels PROVE HasExecutionProof(c, l) => n > 0
  <2>1. HasExecutionProof(c, l) => \E k \in 1 .. n : TRUE
    BY <1>5 DEF HasExecutionProof
  <2> QED BY <1>2, <2>1
<1>8. ASSUME NEW l \in Levels, OfLevel(c, l) > 0 PROVE HasExecutionProof(c, l)
  <2>1. PICK k \in 1 .. n : proof[c][k].level = l
    BY <1>1, <1>2, <1>8, LevelCounted
  <2>2. proof[c][k].level >= l
    BY <1>4, <2>1
  <2> QED BY <1>5, <2>2 DEF HasExecutionProof
<1>9. OfLevel(c, High) > 0 <=> \E i \in For(c) : witnessed[i].type = "net"
  BY <1>1, LevelCounted DEF AsHappened
<1>10. Len(proof[c]) = OfLevel(c, High) + OfLevel(c, Medium) + OfLevel(c, Low)
  BY <1>1, LevelsAdd
<1>11. /\ Summary(c).total = Len(proof[c]) /\ Summary(c).high = OfLevel(c, High)
       /\ Summary(c).medium = OfLevel(c, Medium) /\ Summary(c).low = OfLevel(c, Low)
       /\ Summary(c).actors = {e.actor : e \in Range(proof[c])}
       /\ Summary(c).exploited <=> OfLevel(c, High) > 0
  BY DEF Summary
<1>12. /\ Len(proof[c]) = Cardinality(For(c))
       /\ {proof[c][k].actor : k \in DOMAIN proof[c]} = {witnessed[i].actor : i \in For(c)}
  BY <1>1 DEF AsHappened
<1> QED BY <1>2, <1>6, <1>7, <1>8, <1>9, <1>10, <1>11, <1>12, Zenon

(* The proof of a CVE is the events that spoke for it, a file only if the    *)
(* CVE was registered for its package before; with their processes, levels   *)
(* that add up, and exploited exactly from a connection on.                  *)
(* (execution_proof.rs)                                                      *)
THEOREM ProofsTellTheTruth == ProofSpec => []ProofIsWhatHappened
<1>1. ProofInit => ProofInv
  BY ProofInitial
<1>2. ProofInv /\ [ProofNext]_proofVars => ProofInv'
  BY ProofNextInv
<1>3. ProofInv => ProofIsWhatHappened
  BY ProofInvTells
<1> QED BY <1>1, <1>2, <1>3, PTL DEF ProofSpec
-----------------------------------------------------------------------------
(* The process evidence: a charge has a library of the process behind it,    *)
(* the cache holds what the scan would find, and each loop of a batch does   *)
(* to a process what its events say.                                         *)
FairProcess ==
  {q \in [running : BOOLEAN, loaded_libs : SUBSET Libraries, connected : BOOLEAN,
          reports : [Vulns -> Nat]] :
     \A v \in Vulns : q.reports[v] > 0 => \E l \in q.loaded_libs : <<v, l>> \in Affects}

Scan(l) == {v \in package_vulns : <<v, l>> \in Affects}

Caches == {[l \in S |-> Scan(l)] : S \in SUBSET Libraries}

Mappers == [procs : [Tracked -> FairProcess], cached : Caches]

LEMMA NothingCharged ==
  ASSUME NEW running \in BOOLEAN
  PROVE  /\ Empty(running) \in FairProcess /\ Empty(running).running = running
         /\ Empty(running).loaded_libs = {}
<1> DEFINE none == [v \in Vulns |-> 0]
           empty == [running |-> running, loaded_libs |-> {}, connected |-> FALSE, reports |-> none]
<1>1. none \in [Vulns -> Nat] /\ \A v \in Vulns : ~(none[v] > 0)
  OBVIOUS
<1>2. Empty(running) = empty
  BY DEF Empty
<1> HIDE DEF none
<1>3. /\ empty \in [running : BOOLEAN, loaded_libs : SUBSET Libraries, connected : BOOLEAN,
                    reports : [Vulns -> Nat]]
      /\ empty.reports = none /\ empty.running = running /\ empty.loaded_libs = {}
  BY <1>1
<1> HIDE DEF empty
<1> QED BY <1>1, <1>2, <1>3 DEF FairProcess

LEMMA ScanIsCached ==
  ASSUME NEW c \in Caches
  PROVE  /\ DOMAIN c \subseteq Libraries /\ \A l \in DOMAIN c : c[l] = Scan(l)
         /\ \A l \in Libraries : [k \in DOMAIN c \union {l} |-> IF k = l THEN Scan(l) ELSE c[k]]
                                   \in Caches
<1>1. PICK S \in SUBSET Libraries : c = [l \in S |-> Scan(l)]
  BY DEF Caches
<1>2. DOMAIN c = S /\ \A l \in S : c[l] = Scan(l)
  BY <1>1
<1>3. ASSUME NEW l \in Libraries
      PROVE  [k \in DOMAIN c \union {l} |-> IF k = l THEN Scan(l) ELSE c[k]]
               = [k \in S \union {l} |-> Scan(k)]
  BY <1>2
<1>4. ASSUME NEW l \in Libraries PROVE [k \in S \union {l} |-> Scan(k)] \in Caches
  <2>1. S \union {l} \in SUBSET Libraries
    OBVIOUS
  <2> QED BY <2>1 DEF Caches
<1> QED BY <1>2, <1>3, <1>4

(* What one event does.                                                      *)
Handled(s, e, t) ==
  /\ t \in Mappers
  /\ \A p \in Tracked \ {e.pid} : t.procs[p] = s.procs[p]
  /\ e.kind = "exec" =>
       t.procs[e.pid].running /\ t.procs[e.pid].loaded_libs = {}
  /\ e.kind # "exec" => t.procs[e.pid].running = s.procs[e.pid].running
  /\ e.kind = "mmap" =>
       t.procs[e.pid].loaded_libs
         = s.procs[e.pid].loaded_libs
             \union (IF s.procs[e.pid].running THEN {e.lib} ELSE {})
  /\ e.kind = "net" => t.procs[e.pid].loaded_libs = s.procs[e.pid].loaded_libs

LEMMA EventHandled ==
  ASSUME NEW s \in Mappers, NEW e \in Event
  PROVE  Handled(s, e, HandleEvent(s, e))
<1> DEFINE t == HandleEvent(s, e)
<1> SUFFICES Handled(s, e, t)
  OBVIOUS
<1>1. e.pid \in Tracked /\ e.kind \in {"exec", "mmap", "net"} /\ (e.kind = "mmap" => e.lib \in Libraries)
  BY DEF Event
<1>2. /\ s.procs \in [Tracked -> FairProcess] /\ s.cached \in Caches
      /\ s = [procs |-> s.procs, cached |-> s.cached]
  BY DEF Mappers
<1>3. s.procs[e.pid] \in FairProcess
  BY <1>1, <1>2
<1> DEFINE q == s.procs[e.pid]
<1>4. /\ q.running \in BOOLEAN /\ q.loaded_libs \in SUBSET Libraries /\ q.connected \in BOOLEAN
      /\ q.reports \in [Vulns -> Nat]
      /\ \A v \in Vulns : q.reports[v] > 0 => \E l \in q.loaded_libs : <<v, l>> \in Affects
      /\ q = [running |-> q.running, loaded_libs |-> q.loaded_libs, connected |-> q.connected,
              reports |-> q.reports]
  BY <1>3 DEF FairProcess
<1>5. ASSUME NEW r \in FairProcess, NEW c \in Caches,
             t = [procs |-> [s.procs EXCEPT ![e.pid] = r], cached |-> c]
      PROVE  /\ t \in Mappers /\ t.procs[e.pid] = r
             /\ \A p \in Tracked \ {e.pid} : t.procs[p] = s.procs[p]
  <2> HIDE DEF t
  <2>1. /\ [s.procs EXCEPT ![e.pid] = r] \in [Tracked -> FairProcess]
        /\ [s.procs EXCEPT ![e.pid] = r][e.pid] = r
        /\ \A p \in Tracked \ {e.pid} : [s.procs EXCEPT ![e.pid] = r][p] = s.procs[p]
    BY <1>1, <1>2
  <2> QED BY <1>5, <2>1 DEF Mappers
<1>6. CASE e.kind = "exec"
  <2> DEFINE r == Empty(TRUE)
  <2>1. r \in FairProcess /\ r.running = TRUE /\ r.loaded_libs = {}
    BY NothingCharged
  <2>2. t = [procs |-> [s.procs EXCEPT ![e.pid] = r], cached |-> s.cached]
    BY <1>6 DEF HandleEvent, HandleExec
  <2> HIDE DEF r, t
  <2>3. t \in Mappers /\ t.procs[e.pid] = r /\ \A p \in Tracked \ {e.pid} : t.procs[p] = s.procs[p]
    BY <1>2, <1>5, <2>1, <2>2
  <2> QED BY <1>6, <2>1, <2>3 DEF Handled
<1>7. CASE e.kind # "exec" /\ ~q.running
  <2>1. t = s
    BY <1>7 DEF HandleEvent, HandleFile, HandleNetwork
  <2> HIDE DEF t
  <2> QED BY <1>7, <2>1 DEF Handled
<1>8. CASE e.kind = "mmap" /\ q.running
  <2> DEFINE found == VulnsOf(s, e.lib)
             r == [running |-> TRUE, connected |-> q.connected,
                   loaded_libs |-> q.loaded_libs \union {e.lib},
                   reports |-> [v \in Vulns |-> q.reports[v] + (IF v \in found THEN 1 ELSE 0)]]
             c == [l \in DOMAIN s.cached \union {e.lib} |->
                     IF l = e.lib THEN found ELSE s.cached[l]]
  <2>1. found = Scan(e.lib)
    BY <1>1, <1>2, <1>8, ScanIsCached DEF VulnsOf, Scan
  <2>2. c \in Caches
    BY <1>1, <1>2, <1>8, <2>1, ScanIsCached
  <2>3. \A v \in found : <<v, e.lib>> \in Affects
    BY <2>1 DEF Scan
  <2> HIDE DEF found
  <2>4. /\ r.running /\ r.connected \in BOOLEAN /\ r.loaded_libs = q.loaded_libs \union {e.lib}
        /\ r.loaded_libs \in SUBSET Libraries /\ r.reports \in [Vulns -> Nat]
        /\ r.running \in BOOLEAN
    BY <1>1, <1>4, <1>8
  <2>5. ASSUME NEW v \in Vulns, r.reports[v] > 0
        PROVE  \E l \in r.loaded_libs : <<v, l>> \in Affects
    <3>1. CASE v \in found
      BY <2>3, <2>4, <3>1
    <3>2. CASE v \notin found
      <4>1. q.reports[v] > 0
        BY <1>4, <2>5, <3>2
      <4> QED BY <1>4, <2>4, <4>1
    <3> QED BY <3>1, <3>2
  <2>6. r \in [running : BOOLEAN, loaded_libs : SUBSET Libraries, connected : BOOLEAN,
               reports : [Vulns -> Nat]]
    BY <2>4
  <2>7. r \in FairProcess
    BY <2>5, <2>6 DEF FairProcess
  <2>8. t = [procs |-> [s.procs EXCEPT ![e.pid] = r], cached |-> c]
    BY <1>8 DEF HandleEvent, HandleFile, found
  <2> HIDE DEF r, c, t
  <2>9. t \in Mappers /\ t.procs[e.pid] = r /\ \A p \in Tracked \ {e.pid} : t.procs[p] = s.procs[p]
    BY <1>5, <2>2, <2>7, <2>8
  <2>10. r.running = q.running /\ r.loaded_libs = q.loaded_libs \union {e.lib}
    BY <1>4, <1>8, <2>4
  <2> QED BY <1>8, <2>9, <2>10 DEF Handled
<1>9. CASE e.kind = "net" /\ q.running
  <2> DEFINE r == [running |-> TRUE, connected |-> TRUE, loaded_libs |-> q.loaded_libs,
                   reports |-> q.reports]
  <2>1. /\ r.running = q.running /\ r.loaded_libs = q.loaded_libs /\ r.reports = q.reports
    BY <1>4, <1>9
  <2>2. r \in [running : BOOLEAN, loaded_libs : SUBSET Libraries, connected : BOOLEAN,
               reports : [Vulns -> Nat]]
    BY <1>4, <2>1
  <2>3. r \in FairProcess
    BY <1>4, <2>1, <2>2 DEF FairProcess
  <2>4. t = [procs |-> [s.procs EXCEPT ![e.pid] = r], cached |-> s.cached]
    BY <1>9 DEF HandleEvent, HandleNetwork
  <2> HIDE DEF r, t
  <2>5. t \in Mappers /\ t.procs[e.pid] = r /\ \A p \in Tracked \ {e.pid} : t.procs[p] = s.procs[p]
    BY <1>2, <1>5, <2>3, <2>4
  <2> QED BY <1>9, <2>1, <2>5 DEF Handled
<1> QED BY <1>1, <1>4, <1>6, <1>7, <1>8, <1>9

(* A loop over the events of one kind, unrolled.                             *)
StepOf(s, given, kind, i) ==
  IF given[i].kind = kind THEN HandleEvent(s, given[i]) ELSE s

LEMMA AfterKindUnrolled ==
  ASSUME NEW s \in Mappers, NEW given \in Seq(Event), NEW kind
  PROVE  \E h \in [0 .. Len(given) -> Mappers] :
            /\ h[0] = s /\ AfterKind(s, given, kind) = h[Len(given)]
            /\ \A i \in 1 .. Len(given) : h[i] = StepOf(h[i - 1], given, kind, i)
<1> DEFINE n == Len(given)
           step == [x \in (1 .. n) \X Mappers |-> StepOf(x[2], given, kind, x[1])]
<1>1. n \in Nat /\ \A i \in 1 .. n : given[i] \in Event
  OBVIOUS
<1>2. ASSUME NEW i \in 1 .. n, NEW v \in Mappers PROVE StepOf(v, given, kind, i) \in Mappers
  <2>1. given[i] \in Event
    BY <1>1
  <2>2. HandleEvent(v, given[i]) \in Mappers
    BY <2>1, EventHandled DEF Handled
  <2> QED BY <2>2, Zenon DEF StepOf
<1>3. step \in [(1 .. n) \X Mappers -> Mappers]
  BY <1>2
<1>4. \A i \in 1 .. n, v \in Mappers : step[<<i, v>>] = StepOf(v, given, kind, i)
  OBVIOUS
<1> HIDE DEF step
<1>5. PICK g \in [0 .. n -> Mappers] : Follows(g, n, s, step)
  BY <1>1, <1>3, StepwiseExists
<1> DEFINE Eq(f) == f = [i \in 0 .. n |->
                          IF i = 0 THEN s
                          ELSE IF given[i].kind = kind THEN HandleEvent(f[i - 1], given[i])
                          ELSE f[i - 1]]
<1>6. Eq(g)
  <2>1. ASSUME NEW i \in 0 .. n
        PROVE  g[i] = IF i = 0 THEN s
                      ELSE IF given[i].kind = kind THEN HandleEvent(g[i - 1], given[i])
                      ELSE g[i - 1]
    <3>1. i # 0 => i \in 1 .. n /\ g[i - 1] \in Mappers
      BY <1>1
    <3> QED BY <1>4, <1>5, <3>1 DEF Follows, StepOf
  <2> HIDE DEF n
  <2> QED BY <2>1
<1> DEFINE after == CHOOSE f : Eq(f)
<1>7. Eq(after)
  <2> HIDE DEF Eq
  <2> QED BY <1>6, Zenon
<1>8. AfterKind(s, given, kind) = after[n]
  BY DEF AfterKind
<1>9. \A i \in 0 .. n : after[i] = IF i = 0 THEN s
                                   ELSE IF given[i].kind = kind
                                          THEN HandleEvent(after[i - 1], given[i])
                                   ELSE after[i - 1]
  <2> HIDE DEF after, n
  <2> QED BY <1>7
<1>10. after = [i \in 0 .. n |-> after[i]]
  <2> HIDE DEF after, n
  <2> QED BY <1>7
<1> HIDE DEF after, Eq, n
<1>11. FollowsWithin(after, n, Mappers, s, step)
  BY <1>1, <1>4, <1>9 DEF FollowsWithin, StepOf
<1>12. \A i \in 0 .. n : after[i] \in Mappers
  BY <1>1, <1>3, <1>11, StepwiseTyped
<1>13. after \in [0 .. n -> Mappers]
  BY <1>10, <1>12
<1>14. after[0] = s /\ \A i \in 1 .. n : after[i] = StepOf(after[i - 1], given, kind, i)
  BY <1>1, <1>9 DEF StepOf
<1> QED BY <1>8, <1>13, <1>14 DEF n

(* What each loop does to a process.                                         *)
LEMMA ExecLoop ==
  ASSUME NEW s \in Mappers, NEW given \in Seq(Event), NEW p \in Tracked,
         NEW t, t = AfterKind(s, given, "exec")
  PROVE  /\ t \in Mappers
         /\ ExecsOf(given, p) = {} => t.procs[p] = s.procs[p]
         /\ ExecsOf(given, p) # {} => t.procs[p].running /\ t.procs[p].loaded_libs = {}
<1>1. PICK n \in Nat : n = Len(given) /\ DOMAIN given = 1 .. n /\ \A i \in 1 .. n : given[i] \in Event
  OBVIOUS
<1>2. PICK h \in [0 .. n -> Mappers] :
         /\ h[0] = s /\ t = h[n] /\ \A i \in 1 .. n : h[i] = StepOf(h[i - 1], given, "exec", i)
  BY <1>1, AfterKindUnrolled
<1> DEFINE E == ExecsOf(given, p)
           P == {k \in 0 .. n :
                   /\ (\A i \in 1 .. k : i \notin E) => h[k].procs[p] = s.procs[p]
                   /\ (\E i \in 1 .. k : i \in E) =>
                        h[k].procs[p].running /\ h[k].procs[p].loaded_libs = {}}
<1>3. E \subseteq 1 .. n /\ \A i \in 1 .. n : i \in E <=> given[i].kind = "exec" /\ given[i].pid = p
  BY <1>1 DEF ExecsOf
<1> HIDE DEF E
<1>4. 0 \in P
  BY <1>1, <1>2
<1>5. ASSUME NEW k \in 0 .. n - 1, k \in P PROVE k + 1 \in P
  <2>1. /\ k + 1 \in 1 .. n /\ k \in 0 .. n /\ (k + 1) - 1 = k /\ k + 1 \in 0 .. n
        /\ 1 .. k + 1 = (1 .. k) \union {k + 1}
    BY <1>1
  <2> DEFINE e == given[k + 1]
  <2>2. h[k] \in Mappers /\ e \in Event /\ h[k + 1] = StepOf(h[k], given, "exec", k + 1)
    BY <1>1, <1>2, <2>1
  <2>3. CASE k + 1 \in E
    <3>1. e.kind = "exec" /\ e.pid = p
      BY <1>3, <2>1, <2>3
    <3>2. Handled(h[k], e, h[k + 1])
      BY <2>2, <3>1, EventHandled DEF StepOf
    <3>3. h[k + 1].procs[p].running /\ h[k + 1].procs[p].loaded_libs = {}
      BY <3>1, <3>2 DEF Handled
    <3> QED BY <2>1, <2>3, <3>3
  <2>4. CASE k + 1 \notin E
    <3>1. h[k + 1].procs[p] = h[k].procs[p]
      <4>1. CASE e.kind # "exec"
        BY SMTT(60), <2>2, <4>1 DEF StepOf
      <4>2. CASE e.kind = "exec"
        <5>1. e.pid # p
          BY <1>3, <2>1, <2>4, <4>2
        <5>2. Handled(h[k], e, h[k + 1])
          BY <2>2, <4>2, EventHandled DEF StepOf
        <5> QED BY <5>1, <5>2 DEF Handled
      <4> QED BY <4>1, <4>2
    <3>2. /\ (\A i \in 1 .. k : i \notin E) => h[k].procs[p] = s.procs[p]
          /\ (\E i \in 1 .. k : i \in E) =>
               h[k].procs[p].running /\ h[k].procs[p].loaded_libs = {}
      BY <1>5
    <3>3. (\E i \in 1 .. k + 1 : i \in E) <=> (\E i \in 1 .. k : i \in E)
      BY <2>1, <2>4
    <3> QED BY <2>1, <3>1, <3>2, <3>3
  <2> QED BY <2>3, <2>4
<1> HIDE DEF P
<1>6. n \in P
  BY SMTT(60), <1>1, <1>4, <1>5, UpTo
<1> QED BY <1>1, <1>2, <1>3, <1>6 DEF P, E

LEMMA FileLoop ==
  ASSUME NEW s \in Mappers, NEW given \in Seq(Event), NEW p \in Tracked,
         NEW t, t = AfterKind(s, given, "mmap")
  PROVE  /\ t \in Mappers /\ t.procs[p].running = s.procs[p].running
         /\ t.procs[p].loaded_libs
              = s.procs[p].loaded_libs
                  \union {l \in Libraries : s.procs[p].running
                                              /\ \E i \in MapsOf(given, p) : l = given[i].lib}
<1>1. PICK n \in Nat : n = Len(given) /\ DOMAIN given = 1 .. n /\ \A i \in 1 .. n : given[i] \in Event
  OBVIOUS
<1>2. PICK h \in [0 .. n -> Mappers] :
         /\ h[0] = s /\ t = h[n] /\ \A i \in 1 .. n : h[i] = StepOf(h[i - 1], given, "mmap", i)
  BY <1>1, AfterKindUnrolled
<1> DEFINE M == MapsOf(given, p)
           Got(k) == {l \in Libraries : s.procs[p].running /\ \E i \in 1 .. k : i \in M /\ l = given[i].lib}
           P == {k \in 0 .. n : /\ h[k].procs[p].running = s.procs[p].running
                                /\ h[k].procs[p].loaded_libs = s.procs[p].loaded_libs \union Got(k)}
<1>3. M \subseteq 1 .. n /\ \A i \in 1 .. n : i \in M <=> given[i].kind = "mmap" /\ given[i].pid = p
  BY <1>1 DEF MapsOf
<1> HIDE DEF M
<1>4. 0 \in P
  <2>1. Got(0) = {}
    OBVIOUS
  <2> HIDE DEF Got
  <2> QED BY <1>1, <1>2, <2>1
<1>5. ASSUME NEW k \in 0 .. n - 1, k \in P PROVE k + 1 \in P
  <2>1. /\ k + 1 \in 1 .. n /\ k \in 0 .. n /\ (k + 1) - 1 = k /\ k + 1 \in 0 .. n
        /\ 1 .. k + 1 = (1 .. k) \union {k + 1}
    BY <1>1
  <2> DEFINE e == given[k + 1]
  <2>2. h[k] \in Mappers /\ e \in Event /\ h[k + 1] = StepOf(h[k], given, "mmap", k + 1)
    BY <1>1, <1>2, <2>1
  <2>3. /\ h[k].procs[p].running = s.procs[p].running
        /\ h[k].procs[p].loaded_libs = s.procs[p].loaded_libs \union Got(k)
    BY <1>5
  <2>4. CASE k + 1 \in M
    <3>1. e.kind = "mmap" /\ e.pid = p
      BY <1>3, <2>1, <2>4
    <3>2. e.lib \in Libraries
      BY <2>2, <3>1 DEF Event
    <3>3. Handled(h[k], e, h[k + 1])
      BY <2>2, <3>1, EventHandled DEF StepOf
    <3>4. h[k + 1].procs[p].running = s.procs[p].running
      BY <2>3, <3>1, <3>3, Zenon DEF Handled
    <3>5. h[k + 1].procs[p].loaded_libs
            = s.procs[p].loaded_libs \union Got(k)
                \union (IF s.procs[p].running THEN {e.lib} ELSE {})
      BY <2>3, <3>1, <3>3, Zenon DEF Handled
    <3>6. Got(k + 1) = Got(k) \union (IF s.procs[p].running THEN {e.lib} ELSE {})
      BY <2>1, <2>4, <3>2
    <3> HIDE DEF Got
    <3>7. h[k + 1].procs[p].loaded_libs = s.procs[p].loaded_libs \union Got(k + 1)
      BY <3>5, <3>6
    <3> QED BY <2>1, <3>4, <3>7
  <2>5. CASE k + 1 \notin M
    <3>1. h[k + 1].procs[p] = h[k].procs[p]
      <4>1. CASE e.kind # "mmap"
        BY SMTT(60), <2>2, <4>1 DEF StepOf
      <4>2. CASE e.kind = "mmap"
        <5>1. e.pid # p
          BY <1>3, <2>1, <2>5, <4>2
        <5>2. Handled(h[k], e, h[k + 1])
          BY <2>2, <4>2, EventHandled DEF StepOf
        <5> QED BY <5>1, <5>2 DEF Handled
      <4> QED BY <4>1, <4>2
    <3>2. Got(k + 1) = Got(k)
      BY <2>1, <2>5
    <3> HIDE DEF Got
    <3> QED BY <2>1, <2>3, <3>1, <3>2
  <2> QED BY <2>4, <2>5
<1> HIDE DEF P
<1>6. n \in P
  BY SMTT(60), <1>1, <1>4, <1>5, UpTo
<1>7. Got(n) = {l \in Libraries : s.procs[p].running /\ \E i \in M : l = given[i].lib}
  BY <1>1, <1>3
<1> HIDE DEF Got
<1> QED BY <1>1, <1>2, <1>6, <1>7 DEF P, M

LEMMA NetworkLoop ==
  ASSUME NEW s \in Mappers, NEW given \in Seq(Event), NEW p \in Tracked,
         NEW t, t = AfterKind(s, given, "net")
  PROVE  /\ t \in Mappers /\ t.procs[p].running = s.procs[p].running
         /\ t.procs[p].loaded_libs = s.procs[p].loaded_libs
<1>1. PICK n \in Nat : n = Len(given) /\ \A i \in 1 .. n : given[i] \in Event
  OBVIOUS
<1>2. PICK h \in [0 .. n -> Mappers] :
         /\ h[0] = s /\ t = h[n] /\ \A i \in 1 .. n : h[i] = StepOf(h[i - 1], given, "net", i)
  BY <1>1, AfterKindUnrolled
<1> DEFINE P == {k \in 0 .. n : /\ h[k].procs[p].running = s.procs[p].running
                                /\ h[k].procs[p].loaded_libs = s.procs[p].loaded_libs}
<1>3. 0 \in P
  BY <1>1, <1>2
<1>4. ASSUME NEW k \in 0 .. n - 1, k \in P PROVE k + 1 \in P
  <2>1. k + 1 \in 1 .. n /\ k \in 0 .. n /\ (k + 1) - 1 = k /\ k + 1 \in 0 .. n
    BY <1>1
  <2> DEFINE e == given[k + 1]
  <2>2. h[k] \in Mappers /\ e \in Event /\ h[k + 1] = StepOf(h[k], given, "net", k + 1)
    BY <1>1, <1>2, <2>1
  <2>3. /\ h[k + 1].procs[p].running = h[k].procs[p].running
        /\ h[k + 1].procs[p].loaded_libs = h[k].procs[p].loaded_libs
    <3>1. CASE e.kind # "net"
      BY <2>2, <3>1, Zenon DEF StepOf
    <3>2. CASE e.kind = "net"
      <4>1. Handled(h[k], e, h[k + 1])
        BY <2>2, <3>2, EventHandled DEF StepOf
      <4>2. CASE e.pid = p
        BY <3>2, <4>1, <4>2, Zenon DEF Handled
      <4>3. CASE e.pid # p
        <5>1. h[k + 1].procs[p] = h[k].procs[p]
          BY <4>1, <4>3 DEF Handled
        <5> QED BY <5>1, Zenon
      <4> QED BY <4>2, <4>3
    <3> QED BY <3>1, <3>2
  <2>4. /\ h[k].procs[p].running = s.procs[p].running
        /\ h[k].procs[p].loaded_libs = s.procs[p].loaded_libs
    BY <1>4
  <2>5. h[k + 1].procs[p].running = s.procs[p].running
    BY <2>3, <2>4, Zenon
  <2>6. h[k + 1].procs[p].loaded_libs = s.procs[p].loaded_libs
    BY <2>3, <2>4, Zenon
  <2> QED BY <2>1, <2>5, <2>6
<1> HIDE DEF P
<1>5. n \in P
  <2>1. 0 .. n \subseteq P
    BY <1>3, <1>4, UpTo
  <2> QED BY <2>1
<1>6. t \in Mappers
  BY <1>1, <1>2
<1>7. /\ h[n].procs[p].running = s.procs[p].running
      /\ h[n].procs[p].loaded_libs = s.procs[p].loaded_libs
  BY <1>5 DEF P
<1> QED BY <1>2, <1>6, <1>7, Zenon

EvidenceInv ==
  /\ processes \in [Tracked -> FairProcess] /\ lib_vulns \in Caches
  /\ DOMAIN mapped = Tracked
  /\ \A p \in Tracked :
       processes[p].running /\ p \notin mixed => processes[p].loaded_libs = mapped[p]

(* The libraries of a process after a batch whose execs come before its      *)
(* libraries are those mapped since the last exec.                           *)
LEMMA BatchKeeps ==
  ASSUME EvidenceInv, NEW given \in Seq(Event), ProcessBatch(given)
  PROVE  EvidenceInv'
<1> DEFINE start == [procs |-> processes, cached |-> lib_vulns]
           a == AfterKind(start, given, "exec")
           b == AfterKind(a, given, "mmap")
           c == AfterKind(b, given, "net")
<1>1. start \in Mappers /\ start.procs = processes
  BY DEF EvidenceInv, Mappers
<1>2. /\ processes' = c.procs /\ lib_vulns' = c.cached /\ package_vulns' = package_vulns
      /\ mapped' = [p \in Tracked |-> MappedAfter(given, p)]
      /\ mixed' = {p \in Tracked : \/ LibraryBeforeExec(given, p)
                                   \/ p \in mixed /\ ExecsOf(given, p) = {}}
  BY DEF ProcessBatch, ExecsFirst
<1> HIDE DEF start, a, b, c
<1>3. ASSUME NEW p \in Tracked
      PROVE  /\ a \in Mappers
             /\ ExecsOf(given, p) = {} => a.procs[p] = processes[p]
             /\ ExecsOf(given, p) # {} => a.procs[p].running /\ a.procs[p].loaded_libs = {}
  BY <1>1, ExecLoop DEF a
<1>4. ASSUME NEW p \in Tracked
      PROVE  /\ b \in Mappers /\ b.procs[p].running = a.procs[p].running
             /\ b.procs[p].loaded_libs
                  = a.procs[p].loaded_libs
                      \union {l \in Libraries : a.procs[p].running
                                                  /\ \E i \in MapsOf(given, p) : l = given[i].lib}
  <2>1. a \in Mappers
    BY <1>3
  <2> QED BY SMTT(60), <2>1, FileLoop DEF b
<1>5. ASSUME NEW p \in Tracked
      PROVE  /\ c \in Mappers /\ c.procs[p].running = b.procs[p].running
             /\ c.procs[p].loaded_libs = b.procs[p].loaded_libs
  <2>1. b \in Mappers
    BY <1>4
  <2> QED BY <2>1, NetworkLoop DEF c
<1>6. c \in Mappers
  <2>1. ASSUME NEW s \in Mappers, NEW kind PROVE AfterKind(s, given, kind) \in Mappers
    <3>1. PICK h \in [0 .. Len(given) -> Mappers] : AfterKind(s, given, kind) = h[Len(given)]
      BY AfterKindUnrolled
    <3>2. Len(given) \in 0 .. Len(given)
      OBVIOUS
    <3> QED BY <3>1, <3>2
  <2> QED BY <1>1, <2>1 DEF a, b, c
<1>7. processes' \in [Tracked -> FairProcess] /\ (lib_vulns \in Caches)'
  <2>1. Caches' = Caches
    BY <1>2 DEF Caches, Scan
  <2>2. c.procs \in [Tracked -> FairProcess] /\ c.cached \in Caches
    BY <1>6 DEF Mappers
  <2> QED BY <1>2, <2>1, <2>2
<1>8. ASSUME NEW p \in Tracked, processes'[p].running, p \notin mixed'
      PROVE  processes'[p].loaded_libs = mapped'[p]
  <2>1. ~LibraryBeforeExec(given, p) /\ (ExecsOf(given, p) = {} => p \notin mixed)
    BY <1>2, <1>8
  <2>2. \A i \in MapsOf(given, p) : given[i].lib \in Libraries
    <3>1. \A i \in DOMAIN given : given[i] \in Event
      OBVIOUS
    <3> QED BY <3>1 DEF MapsOf, Event
  <2>3. a.procs[p].running
    BY <1>2, <1>4, <1>5, <1>8, Zenon
  <2>4. processes'[p].loaded_libs
          = a.procs[p].loaded_libs \union {given[i].lib : i \in MapsOf(given, p)}
    <3>1. {l \in Libraries : a.procs[p].running /\ \E i \in MapsOf(given, p) : l = given[i].lib}
            = {given[i].lib : i \in MapsOf(given, p)}
      BY <2>2, <2>3
    <3> QED BY <1>2, <1>4, <1>5, <3>1, Zenon
  <2>5. mapped'[p] = MappedAfter(given, p)
    BY <1>2
  <2>6. CASE ExecsOf(given, p) = {}
    <3>1. a.procs[p] = processes[p]
      BY <1>3, <2>6
    <3>2. processes[p].loaded_libs = mapped[p]
      BY <2>1, <2>3, <2>6, <3>1 DEF EvidenceInv
    <3>3. MappedAfter(given, p) = {given[i].lib : i \in MapsOf(given, p)} \union mapped[p]
      BY <2>6 DEF MappedAfter
    <3> QED BY <2>4, <2>5, <3>1, <3>2, <3>3
  <2>7. CASE ExecsOf(given, p) # {}
    <3>1. a.procs[p].loaded_libs = {}
      BY <1>3, <2>7
    <3>2. \A i \in MapsOf(given, p), j \in ExecsOf(given, p) : j < i
      <4>1. \A i \in MapsOf(given, p), j \in ExecsOf(given, p) : i \in Nat /\ j \in Nat /\ i # j
        BY DEF MapsOf, ExecsOf
      <4>2. \A i \in MapsOf(given, p), j \in ExecsOf(given, p) : ~(i < j)
        BY <2>1 DEF LibraryBeforeExec
      <4> QED BY <4>1, <4>2
    <3>3. {k \in MapsOf(given, p) : \A j \in ExecsOf(given, p) : j < k} = MapsOf(given, p)
      BY <3>2
    <3>4. MappedAfter(given, p) = {given[i].lib : i \in MapsOf(given, p)} \union {}
      BY <2>7, <3>3 DEF MappedAfter
    <3> QED BY <2>4, <2>5, <3>1, <3>4
  <2> QED BY <2>6, <2>7
<1>9. DOMAIN mapped' = Tracked
  BY <1>2
<1> QED BY <1>7, <1>8, <1>9 DEF EvidenceInv

LEMMA EvidenceNextInv == EvidenceInv /\ [EvidenceNext]_evidenceVars => EvidenceInv'
<1> SUFFICES ASSUME EvidenceInv, [EvidenceNext]_evidenceVars PROVE EvidenceInv'
  OBVIOUS
<1>1. CASE SetVulnerabilities
  <2>1. /\ processes' = processes /\ mapped' = mapped /\ mixed' = mixed
        /\ lib_vulns' = [l \in {} |-> {}]
    BY <1>1 DEF SetVulnerabilities
  <2>2. (lib_vulns \in Caches)'
    <3>1. [l \in {} |-> {}] = [l \in {} |-> Scan(l)']
      OBVIOUS
    <3> QED BY <2>1, <3>1 DEF Caches
  <2>3. (FairProcess)' = FairProcess
    BY DEF FairProcess
  <2> QED BY <2>1, <2>2, <2>3 DEF EvidenceInv
<1>2. CASE \E given \in Batches : ProcessBatch(given)
  BY <1>2, BatchKeeps, EvidenceAssumption
<1>3. ASSUME NEW p \in Tracked, RemoveProcess(p) PROVE EvidenceInv'
  <2>1. /\ processes' = [processes EXCEPT ![p] = Empty(FALSE)] /\ lib_vulns' = lib_vulns
        /\ mapped' = mapped /\ mixed' = mixed /\ package_vulns' = package_vulns
    BY <1>3 DEF RemoveProcess, NoProcess
  <2>2. Empty(FALSE) \in FairProcess /\ Empty(FALSE).running = FALSE
    BY NothingCharged
  <2>3. Caches' = Caches
    BY <2>1 DEF Caches, Scan
  <2>4. ASSUME NEW q \in Tracked, processes'[q].running PROVE q # p /\ processes'[q] = processes[q]
    BY <2>1, <2>2, <2>4 DEF EvidenceInv
  <2>5. processes' \in [Tracked -> FairProcess]
    BY <2>1, <2>2 DEF EvidenceInv
  <2>6. (lib_vulns \in Caches)'
    BY <2>1, <2>3 DEF EvidenceInv
  <2> QED BY <2>1, <2>4, <2>5, <2>6 DEF EvidenceInv
<1>4. CASE UNCHANGED evidenceVars
  <2>1. Caches' = Caches
    BY <1>4 DEF Caches, Scan, evidenceVars
  <2> QED BY <1>4, <2>1 DEF EvidenceInv, evidenceVars
<1> QED BY <1>1, <1>2, <1>3, <1>4 DEF EvidenceNext

LEMMA EvidenceInvTells == EvidenceInv => ChargesFollowTheImage
<1> SUFFICES ASSUME EvidenceInv PROVE ChargesFollowTheImage
  OBVIOUS
<1>1. ASSUME NEW r \in Risks
      PROVE  \E l \in processes[r[1]].loaded_libs : <<r[2], l>> \in Affects
  <2>1. r[1] \in Tracked /\ r[2] \in Vulns /\ processes[r[1]].reports[r[2]] > 0
    BY DEF Risks
  <2>2. processes[r[1]] \in FairProcess
    BY <2>1 DEF EvidenceInv
  <2> QED BY <2>1, <2>2 DEF FairProcess
<1>2. \A l \in DOMAIN lib_vulns : lib_vulns[l] = {v \in package_vulns : <<v, l>> \in Affects}
  BY ScanIsCached DEF EvidenceInv, Scan
<1> QED BY <1>1, <1>2 DEF EvidenceInv, ChargesFollowTheImage

(* Whatever the batches, a process is charged with what it runs: nothing of  *)
(* an earlier image, and nothing without a library behind it.                *)
(* (runtime_mapper.rs process_events)                                        *)
THEOREM ChargesAreTheImages == EvidenceSpec => []ChargesFollowTheImage
<1>1. EvidenceInit => EvidenceInv
  <2> SUFFICES ASSUME EvidenceInit PROVE EvidenceInv
    OBVIOUS
  <2>1. NoProcess \in FairProcess /\ NoProcess.running = FALSE
    BY NothingCharged DEF NoProcess
  <2>2. lib_vulns \in Caches
    <3>1. [l \in {} |-> {}] = [l \in {} |-> Scan(l)]
      OBVIOUS
    <3> QED BY <3>1 DEF EvidenceInit, Caches
  <2>3. processes \in [Tracked -> FairProcess] /\ \A p \in Tracked : ~processes[p].running
    BY <2>1 DEF EvidenceInit
  <2>4. DOMAIN mapped = Tracked
    BY DEF EvidenceInit
  <2> QED BY <2>2, <2>3, <2>4 DEF EvidenceInv
<1>2. EvidenceInv /\ [EvidenceNext]_evidenceVars => EvidenceInv'
  BY EvidenceNextInv
<1>3. EvidenceInv => ChargesFollowTheImage
  BY EvidenceInvTells
<1> QED BY <1>1, <1>2, <1>3, PTL DEF EvidenceSpec
-----------------------------------------------------------------------------
(* The pages of a listing: the ids of the ring are consecutive, what was     *)
(* shown stands at a place already read or has left the ring, and no more of *)
(* it has left than was evicted.                                             *)
Ids == {findings[i].id : i \in DOMAIN findings}

Gone == {x \in walk.seen : x \notin Ids}

Summaries == [id : Nat, priority : {"Critical", "High"}, acknowledged : BOOLEAN]

BoardTyped ==
  /\ findings \in Seq(Summaries)
  /\ inserted \in Nat
  /\ \A i \in DOMAIN findings : findings[i].id < inserted
  /\ \A i, j \in DOMAIN findings : findings[i].id = findings[j].id => i = j

WalkTyped ==
  /\ walk \in [priority : {"any", "High"}, per_page : Nat \ {0}, page : Nat \ {0}, seen : SUBSET Nat,
               evicted : Nat, repeated : BOOLEAN, ended : BOOLEAN]
  /\ IsFiniteSet(walk.seen)

ReadPlaces ==
  /\ \A x \in walk.seen : x < inserted
  /\ \A i \in DOMAIN findings : findings[i].id \in walk.seen =>
       i \in Filtered(walk.priority) /\ Place(i, walk.priority) <= Offset(walk)

BoardInv ==
  /\ BoardTyped /\ WalkTyped /\ ReadPlaces
  /\ walk.repeated = FALSE
  /\ Cardinality(Gone) <= walk.evicted
  /\ ~walk.ended => Offset(walk) <= Cardinality(walk.seen)

(* The first k places of a set of positions are at most k.                   *)
WithinPlaces(T, S, k) == T \subseteq S /\ \A i \in T : Cardinality({j \in S : j <= i}) <= k

LEMMA FirstPlaces ==
  ASSUME NEW n \in Nat, NEW S, S \subseteq 1 .. n, NEW k \in Nat,
         NEW T, WithinPlaces(T, S, k)
  PROVE  IsFiniteSet(T) /\ Cardinality(T) <= k
<1>1. IsFiniteSet(S) /\ IsFiniteSet(T) /\ T \subseteq S
  BY CountOfFirst, FS_Subset DEF WithinPlaces
<1>2. CASE T = {}
  BY <1>1, <1>2, FS_EmptySet
<1>3. CASE T # {}
  <2>1. T \subseteq Int
    BY <1>1
  <2>2. PICK m \in T : \A y \in T : m >= y
    BY <1>1, <1>3, <2>1, GreatestOf
  <2> DEFINE upTo == {j \in S : j <= m}
  <2>3. T \subseteq upTo /\ upTo \subseteq S
    BY <1>1, <2>1, <2>2
  <2>4. Cardinality(upTo) <= k
    BY <2>2 DEF WithinPlaces
  <2> HIDE DEF upTo
  <2>5. IsFiniteSet(upTo)
    BY <1>1, <2>3, FS_Subset
  <2>6. Cardinality(T) <= Cardinality(upTo)
    BY <2>3, <2>5, FS_Subset
  <2>7. Cardinality(T) \in Nat /\ Cardinality(upTo) \in Nat
    BY <1>1, <2>5, FS_CardinalityType
  <2> QED BY <1>1, <2>4, <2>6, <2>7
<1> QED BY <1>2, <1>3

LEMMA BoardFinite ==
  ASSUME BoardTyped
  PROVE  /\ DOMAIN findings = 1 .. Len(findings) /\ Len(findings) \in Nat
         /\ \A p : Filtered(p) \subseteq 1 .. Len(findings) /\ IsFiniteSet(Filtered(p))
         /\ \A p, i : IsFiniteSet({j \in Filtered(p) : j <= i}) /\ Place(i, p) \in Nat
         /\ IsFiniteSet(Ids) /\ Ids \subseteq Nat
<1>1. DOMAIN findings = 1 .. Len(findings) /\ Len(findings) \in Nat
  BY DEF BoardTyped
<1>2. ASSUME NEW p PROVE Filtered(p) \subseteq 1 .. Len(findings) /\ IsFiniteSet(Filtered(p))
  <2>1. Filtered(p) \subseteq 1 .. Len(findings)
    BY <1>1 DEF Filtered
  <2> QED BY <1>1, <2>1, CountOfFirst, FS_Subset
<1>3. ASSUME NEW p, NEW i
      PROVE  IsFiniteSet({j \in Filtered(p) : j <= i}) /\ Place(i, p) \in Nat
  <2> DEFINE S == {j \in Filtered(p) : j <= i}
  <2>1. S \subseteq Filtered(p) /\ Place(i, p) = Cardinality(S)
    BY DEF Place
  <2> HIDE DEF S
  <2>2. IsFiniteSet(S) /\ Cardinality(S) \in Nat
    BY <1>2, <2>1, FS_Subset, FS_CardinalityType
  <2> QED BY <2>1, <2>2 DEF S
<1>4. IsFiniteSet(Ids)
  <2> DEFINE id == [i \in 1 .. Len(findings) |-> findings[i].id]
  <2>1. id \in Surjection(1 .. Len(findings), Ids)
    BY <1>1 DEF Ids, Surjection
  <2>2. IsFiniteSet(1 .. Len(findings))
    BY <1>1, CountOfFirst
  <2> HIDE DEF id
  <2> QED BY <2>1, <2>2, FS_Surjection
<1>5. Ids \subseteq Nat
  <2>1. \A i \in 1 .. Len(findings) : findings[i] \in Summaries
    BY DEF BoardTyped
  <2>2. \A i \in 1 .. Len(findings) : findings[i].id \in Nat
    BY <2>1 DEF Summaries
  <2> QED BY <1>1, <2>2 DEF Ids
<1> QED BY <1>1, <1>2, <1>3, <1>4, <1>5, Zenon

LEMMA PageFacts ==
  ASSUME WalkTyped
  PROVE  /\ PageLimit(walk) \in Nat \ {0} /\ Offset(walk) \in Nat
         /\ walk.page * PageLimit(walk) = Offset(walk) + PageLimit(walk)
<1>1. walk.per_page \in Nat \ {0} /\ walk.page \in Nat \ {0}
  BY DEF WalkTyped
<1>2. PageLimit(walk) \in Nat \ {0}
  BY <1>1, BoardAssumption DEF PageLimit
<1>3. \A a, l \in Nat : (a + 1) * l = a * l + l /\ a * l \in Nat
  OBVIOUS
<1>4. PICK a \in Nat : a = walk.page - 1 /\ walk.page = a + 1
  BY <1>1
<1> QED BY <1>2, <1>3, <1>4 DEF Offset

LEMMA BoardInvTells == BoardInv => PagesLoseOnlyToEviction
<1> SUFFICES ASSUME BoardInv, ~walk.ended
             PROVE  Cardinality({i \in Filtered(walk.priority) :
                       Place(i, walk.priority) <= Offset(walk) /\ findings[i].id \notin walk.seen})
                      <= walk.evicted
  BY DEF BoardInv, PagesLoseOnlyToEviction
<1> DEFINE p == walk.priority
           o == Offset(walk)
           passed == {i \in Filtered(p) : Place(i, p) <= o /\ findings[i].id \notin walk.seen}
           shown == {i \in DOMAIN findings : findings[i].id \in walk.seen}
           still == {x \in walk.seen : x \in Ids}
<1>1. BoardTyped /\ WalkTyped /\ ReadPlaces /\ o \in Nat
  BY PageFacts DEF BoardInv
<1>2. /\ DOMAIN findings = 1 .. Len(findings) /\ Len(findings) \in Nat
      /\ Filtered(p) \subseteq 1 .. Len(findings)
  BY <1>1, BoardFinite
<1>3. shown \cup passed \subseteq Filtered(p) /\ shown \cap passed = {}
  BY <1>1 DEF ReadPlaces
<1>4. WithinPlaces(shown \cup passed, Filtered(p), o)
  BY <1>1, <1>3 DEF ReadPlaces, Place, WithinPlaces
<1>5. IsFiniteSet(walk.seen)
  BY <1>1 DEF WalkTyped
<1>6. Cardinality(still) <= Cardinality(shown) /\ IsFiniteSet(shown) /\ IsFiniteSet(still)
  <2>1. shown \subseteq 1 .. Len(findings)
    BY <1>2
  <2>2. IsFiniteSet(shown)
    BY <1>2, <2>1, CountOfFirst, FS_Subset
  <2> DEFINE id == [i \in shown |-> findings[i].id]
  <2>3. id \in Surjection(shown, still)
    BY DEF Surjection, Ids
  <2> HIDE DEF id, shown, still
  <2> QED BY <2>2, <2>3, FS_Surjection
<1>7. walk.seen = still \cup Gone /\ still \cap Gone = {}
  BY DEF Gone
<1>8. Gone \subseteq walk.seen /\ passed \subseteq Filtered(p)
  BY DEF Gone
<1> HIDE DEF passed, shown, still, p, o
<1>9. IsFiniteSet(shown \cup passed) /\ Cardinality(shown \cup passed) <= o
  BY <1>1, <1>2, <1>3, <1>4, FirstPlaces
<1>10. IsFiniteSet(passed) /\ IsFiniteSet(Gone)
  <2>1. passed \subseteq shown \cup passed
    OBVIOUS
  <2> QED BY <1>5, <1>8, <1>9, <2>1, FS_Subset
<1>11. Cardinality(shown \cup passed) = Cardinality(shown) + Cardinality(passed)
  BY <1>3, <1>6, <1>10, DisjointCount
<1>12. Cardinality(walk.seen) = Cardinality(still) + Cardinality(Gone)
  BY <1>6, <1>7, <1>10, DisjointCount
<1>13. /\ Cardinality(shown) \in Nat /\ Cardinality(passed) \in Nat
       /\ Cardinality(still) \in Nat /\ Cardinality(Gone) \in Nat
  BY <1>6, <1>10, FS_CardinalityType
<1>14. o <= Cardinality(walk.seen) /\ Cardinality(Gone) <= walk.evicted /\ walk.evicted \in Nat
  BY <1>1 DEF BoardInv, WalkTyped, o
<1>15. Cardinality(passed) <= walk.evicted
  BY <1>1, <1>6, <1>9, <1>11, <1>12, <1>13, <1>14
<1> QED BY <1>15 DEF passed, p, o

(* The three ways the ring and the walk change.                              *)
Moved(d, new) ==
  /\ DOMAIN findings' = 1 .. Len(findings) + 1 - d
  /\ \A i \in 1 .. Len(findings) - d : findings'[i] = findings[i + d]
  /\ findings'[Len(findings) + 1 - d] = new

LEMMA InsertMoves ==
  ASSUME BoardTyped, NEW priority \in {"Critical", "High"}, InsertFinding(priority)
  PROVE  \E d \in {0, 1} :
           /\ Moved(d, [id |-> inserted, priority |-> priority, acknowledged |-> FALSE])
           /\ findings' \in Seq(Summaries) /\ d <= Len(findings)
           /\ walk' = [walk EXCEPT !.evicted =
                         @ + (IF d = 1 /\ Matches(findings[1], walk.priority) THEN 1 ELSE 0)]
<1> DEFINE new == [id |-> inserted, priority |-> priority, acknowledged |-> FALSE]
<1>1. findings \in Seq(Summaries) /\ new \in Summaries
  BY DEF BoardTyped, Summaries
<1> HIDE DEF new
<1>2. PICK n \in Nat : n = Len(findings) /\ DOMAIN findings = 1 .. n
  BY <1>1
<1>3. CASE Len(findings) >= MaxFindings
  <2>1. n >= 1
    BY <1>2, <1>3, BoardAssumption
  <2>2. findings' = Append(Tail(findings), new)
    BY <1>3 DEF InsertFinding, new
  <2>3. /\ Tail(findings) \in Seq(Summaries) /\ Len(Tail(findings)) = n - 1
        /\ \A i \in 1 .. n - 1 : Tail(findings)[i] = findings[i + 1]
    BY <1>1, <1>2, <2>1
  <2>4. /\ findings' \in Seq(Summaries) /\ DOMAIN findings' = 1 .. n /\ findings'[n] = new
        /\ \A i \in 1 .. n - 1 : findings'[i] = findings[i + 1]
    BY <1>1, <1>2, <2>1, <2>2, <2>3
  <2>5. walk' = [walk EXCEPT !.evicted =
                   @ + (IF Matches(findings[1], walk.priority) THEN 1 ELSE 0)]
    BY <1>3 DEF InsertFinding
  <2>6. Moved(1, new)
    BY <1>2, <2>1, <2>4 DEF Moved
  <2> QED BY <1>2, <2>1, <2>4, <2>5, <2>6 DEF new
<1>4. CASE ~(Len(findings) >= MaxFindings)
  <2>1. findings' = Append(findings, new)
    BY <1>4 DEF InsertFinding, new
  <2>2. /\ findings' \in Seq(Summaries) /\ DOMAIN findings' = 1 .. n + 1 /\ findings'[n + 1] = new
        /\ \A i \in 1 .. n : findings'[i] = findings[i]
    BY <1>1, <1>2, <2>1
  <2>3. walk' = [walk EXCEPT !.evicted = @ + 0]
    BY <1>4 DEF InsertFinding
  <2>4. Moved(0, new)
    BY <1>2, <2>2 DEF Moved
  <2> QED BY <1>2, <2>2, <2>3, <2>4 DEF new
<1> QED BY <1>3, <1>4

(* What stays only moves to earlier places.                                  *)
LEMMA PlacesShrink ==
  ASSUME BoardTyped, NEW d \in {0, 1}, NEW new, Moved(d, new), d <= Len(findings),
         NEW p, NEW i \in 1 .. Len(findings) - d
  PROVE  /\ i \in Filtered(p)' <=> i + d \in Filtered(p)
         /\ Place(i, p)' <= Place(i + d, p) /\ Place(i, p)' \in Nat
<1>1. PICK n \in Nat : n = Len(findings) /\ DOMAIN findings = 1 .. n
  BY BoardFinite
<1>2. /\ DOMAIN findings' = 1 .. n + 1 - d
      /\ \A k \in 1 .. n - d : findings'[k] = findings[k + d]
  BY <1>1 DEF Moved
<1>3. ASSUME NEW k \in 1 .. n - d PROVE k \in Filtered(p)' <=> k + d \in Filtered(p)
  BY <1>1, <1>2 DEF Filtered
<1> DEFINE A == {j \in Filtered(p)' : j <= i}
           B == {j \in Filtered(p) : j <= i + d}
           f == [j \in A |-> j + d]
<1>4. i \in 1 .. n - d
  BY <1>1
<1>5. A \subseteq 1 .. n - d
  BY <1>1, <1>2, <1>4 DEF Filtered
<1>6. \A j \in A : j + d \in B
  BY <1>3, <1>4, <1>5
<1>7. f \in Injection(A, B)
  <2> HIDE DEF A, B
  <2>1. f \in [A -> B]
    BY <1>6
  <2>2. \A j, k \in A : f[j] = f[k] => j = k
    BY <1>5
  <2> HIDE DEF f
  <2> QED BY <2>1, <2>2 DEF Injection, IsInjective
<1>8. IsFiniteSet(B)
  BY BoardFinite
<1>9. Place(i, p)' = Cardinality(A) /\ Place(i + d, p) = Cardinality(B)
  BY DEF Place
<1> HIDE DEF A, B, f
<1>10. Cardinality(A) <= Cardinality(B) /\ IsFiniteSet(A)
  BY <1>7, <1>8, FS_Injection
<1>11. Cardinality(A) \in Nat
  BY <1>10, FS_CardinalityType
<1> QED BY SMTT(60), <1>3, <1>4, <1>9, <1>10, <1>11

LEMMA InsertKeeps ==
  ASSUME BoardInv, NEW priority \in {"Critical", "High"}, InsertFinding(priority)
  PROVE  BoardInv'
<1> DEFINE new == [id |-> inserted, priority |-> priority, acknowledged |-> FALSE]
<1>1. BoardTyped /\ WalkTyped /\ ReadPlaces /\ inserted' = inserted + 1 /\ new.id = inserted
  BY DEF BoardInv, InsertFinding
<1>2. PICK d \in {0, 1} :
           /\ Moved(d, new) /\ findings' \in Seq(Summaries) /\ d <= Len(findings)
           /\ walk' = [walk EXCEPT !.evicted =
                         @ + (IF d = 1 /\ Matches(findings[1], walk.priority) THEN 1 ELSE 0)]
  BY <1>1, InsertMoves
<1> HIDE DEF new
<1>3. PICK n \in Nat : n = Len(findings) /\ DOMAIN findings = 1 .. n
  BY <1>1, BoardFinite
<1>4. /\ DOMAIN findings' = (1 .. n - d) \cup {n + 1 - d}
      /\ n + 1 - d \notin 1 .. n - d /\ findings'[n + 1 - d] = new
      /\ \A i \in 1 .. n - d : findings'[i] = findings[i + d] /\ i + d \in 1 .. n
  BY <1>2, <1>3 DEF Moved
<1>5. /\ walk'.priority = walk.priority /\ walk'.per_page = walk.per_page
      /\ walk'.page = walk.page /\ walk'.seen = walk.seen /\ walk'.repeated = walk.repeated
      /\ walk'.ended = walk.ended
      /\ walk'.evicted = walk.evicted
           + (IF d = 1 /\ Matches(findings[1], walk.priority) THEN 1 ELSE 0)
  BY <1>1, <1>2 DEF WalkTyped
<1>6. BoardTyped'
  <2>1. inserted \in Nat /\ (\A i \in 1 .. n : findings[i].id < inserted /\ findings[i].id \in Nat)
        /\ \A i, j \in 1 .. n : findings[i].id = findings[j].id => i = j
    <3>1. \A i \in 1 .. n : findings[i] \in Summaries
      BY <1>1, <1>3 DEF BoardTyped
    <3>2. \A i \in 1 .. n : findings[i].id \in Nat
      BY <3>1 DEF Summaries
    <3> QED BY <1>1, <1>3, <3>2 DEF BoardTyped
  <2>2. \A i \in DOMAIN findings' : findings'[i].id < inserted'
    BY <1>1, <1>4, <2>1
  <2>3. ASSUME NEW i \in DOMAIN findings', NEW j \in DOMAIN findings',
               findings'[i].id = findings'[j].id
        PROVE  i = j
    <3>1. CASE i \in 1 .. n - d /\ j \in 1 .. n - d
      <4>1. i + d = j + d
        BY <1>4, <2>1, <2>3, <3>1
      <4> QED BY <3>1, <4>1
    <3>2. CASE i = n + 1 - d /\ j \in 1 .. n - d
      BY <1>1, <1>4, <2>1, <2>3, <3>2
    <3>3. CASE i \in 1 .. n - d /\ j = n + 1 - d
      BY <1>1, <1>4, <2>1, <2>3, <3>3
    <3> QED BY <1>4, <3>1, <3>2, <3>3
  <2> QED BY <1>1, <1>2, <2>1, <2>2, <2>3 DEF BoardTyped
<1>7. WalkTyped'
  <2>1. PICK k \in Nat : k = IF d = 1 /\ Matches(findings[1], walk.priority) THEN 1 ELSE 0
    OBVIOUS
  <2>2. walk' = [walk EXCEPT !.evicted = @ + k]
    BY <1>2, <2>1, Zenon
  <2>3. walk.evicted + k \in Nat
    BY <1>1 DEF WalkTyped
  <2> QED BY <1>1, <1>5, <2>2, <2>3 DEF WalkTyped
<1>8. Offset(walk)' = Offset(walk)
  BY <1>5 DEF Offset, PageLimit
<1>9. PICK p : p = walk.priority
  OBVIOUS
<1>10. ReadPlaces'
  <2>1. inserted \in Nat /\ inserted \notin walk.seen /\ \A x \in walk.seen : x < inserted' /\ x \in Nat
    BY <1>1 DEF ReadPlaces, BoardTyped, WalkTyped
  <2>2. ASSUME NEW i \in DOMAIN findings', findings'[i].id \in walk.seen
        PROVE  i \in Filtered(walk.priority)' /\ Place(i, walk.priority)' <= Offset(walk)
    <3>1. i \in 1 .. n - d
      BY <1>1, <1>4, <2>1, <2>2
    <3>2. i + d \in Filtered(walk.priority) /\ Place(i + d, walk.priority) <= Offset(walk)
      BY <1>1, <1>3, <1>4, <2>2, <3>1 DEF ReadPlaces
    <3>3. p = walk.priority /\ p = walk'.priority
      BY <1>5, <1>9
    <3>4. i \in Filtered(p)' /\ Place(i, p)' <= Place(i + d, p) /\ Place(i, p)' \in Nat
      BY <1>1, <1>2, <1>3, <3>1, <3>2, <3>3, PlacesShrink
    <3>5. Place(i + d, p) \in Nat /\ Offset(walk) \in Nat
      BY <1>1, BoardFinite, PageFacts
    <3>6. Place(i, p)' <= Offset(walk)
      BY <3>2, <3>3, <3>4, <3>5
    <3> QED BY <3>3, <3>4, <3>6
  <2> QED BY <1>5, <1>8, <2>1, <2>2 DEF ReadPlaces
<1>11. Gone' = Gone \cup (IF d = 1 /\ findings[1].id \in walk.seen THEN {findings[1].id} ELSE {})
  <2>1. \A x \in walk.seen : x # inserted
    BY <1>1 DEF ReadPlaces, BoardTyped, WalkTyped
  <2>2. Ids' = {findings[i + d].id : i \in 1 .. n - d} \cup {inserted}
    BY <1>1, <1>4 DEF Ids
  <2>3. CASE d = 0
    <3>1. Ids' = Ids \cup {inserted}
      <4>1. n - d = n /\ \A i \in 1 .. n : i + d = i
        BY <2>3
      <4>2. {findings[i + d].id : i \in 1 .. n - d} = {findings[i].id : i \in 1 .. n}
        BY <4>1
      <4> QED BY <1>3, <2>2, <4>2, Zenon DEF Ids
    <3> QED BY <1>5, <2>1, <2>3, <3>1 DEF Gone
  <2>4. CASE d = 1
    <3>1. 1 \in 1 .. n
      BY <1>2, <1>3, <2>4
    <3>2. {findings[i + 1].id : i \in 1 .. n - 1} = {findings[i].id : i \in 2 .. n}
      <4>1. \A i \in 1 .. n - 1 : i + 1 \in 2 .. n
        OBVIOUS
      <4>2. \A i \in 2 .. n : i - 1 \in 1 .. n - 1 /\ (i - 1) + 1 = i
        OBVIOUS
      <4> QED BY <4>1, <4>2
    <3>3. Ids' = {findings[i].id : i \in 2 .. n} \cup {inserted}
      BY <2>2, <2>4, <3>2
    <3>4. Ids = {findings[i].id : i \in 2 .. n} \cup {findings[1].id}
      <4>1. 1 .. n = (2 .. n) \cup {1}
        BY <3>1
      <4> QED BY <1>3, <4>1 DEF Ids
    <3>5. \A i \in 2 .. n : findings[i].id # findings[1].id
      <4>1. \A i \in 2 .. n : i \in 1 .. n /\ i # 1
        OBVIOUS
      <4> QED BY <1>1, <1>3, <3>1, <4>1 DEF BoardTyped
    <3>6. findings[1].id \notin {findings[i].id : i \in 2 .. n}
      BY <3>5
    <3> QED BY <1>5, <2>1, <2>4, <3>3, <3>4, <3>6 DEF Gone
  <2> QED BY <2>3, <2>4
<1>12. Cardinality(Gone') <= walk'.evicted
  <2>1. Cardinality(Gone) <= walk.evicted /\ walk.evicted \in Nat /\ IsFiniteSet(Gone)
    <3>1. Gone \subseteq walk.seen /\ IsFiniteSet(walk.seen)
      BY <1>1 DEF Gone, WalkTyped
    <3> QED BY <1>1, <3>1, FS_Subset DEF BoardInv, WalkTyped
  <2>2. Cardinality(Gone) \in Nat
    BY <2>1, FS_CardinalityType
  <2>3. CASE d = 1 /\ findings[1].id \in walk.seen
    <3>1. 1 \in DOMAIN findings
      BY <1>2, <1>3, <2>3
    <3>2. Matches(findings[1], walk.priority)
      BY <1>1, <2>3, <3>1 DEF ReadPlaces, Filtered
    <3>3. walk'.evicted = walk.evicted + 1
      BY <1>5, <2>3, <3>2
    <3>4. Gone' = Gone \cup {findings[1].id}
      BY <1>11, <2>3
    <3>5. Cardinality(Gone') <= Cardinality(Gone) + 1
      <4>1. CASE findings[1].id \in Gone
        <5>1. Gone' = Gone
          BY <3>4, <4>1
        <5> QED BY <2>2, <5>1
      <4>2. CASE findings[1].id \notin Gone
        <5>1. Cardinality(Gone \cup {findings[1].id}) = Cardinality(Gone) + 1
          BY <2>1, <4>2, FS_AddElement
        <5> QED BY <2>2, <3>4, <5>1
      <4> QED BY <4>1, <4>2
    <3>6. Gone' = Gone \cup {findings[1].id} /\ IsFiniteSet(Gone')
      BY <2>1, <3>4, FS_AddElement
    <3>7. Cardinality(Gone') \in Nat
      BY <3>6, FS_CardinalityType
    <3> QED BY <2>1, <2>2, <3>3, <3>5, <3>7
  <2>4. CASE ~(d = 1 /\ findings[1].id \in walk.seen)
    <3>1. Gone' = Gone
      BY <1>11, <2>4
    <3>2. walk'.evicted >= walk.evicted
      BY <1>5, <2>1
    <3>3. walk'.evicted \in Nat
      BY <1>7 DEF WalkTyped
    <3> QED BY <2>1, <2>2, <3>1, <3>2, <3>3
  <2> QED BY <2>3, <2>4
<1>13. walk'.repeated = FALSE /\ (~walk'.ended => Offset(walk)' <= Cardinality(walk'.seen))
  BY <1>5, <1>8 DEF BoardInv
<1> QED BY <1>6, <1>7, <1>10, <1>12, <1>13 DEF BoardInv

LEMMA ListKeeps ==
  ASSUME BoardInv, ListFindings
  PROVE  BoardInv'
<1> DEFINE shown == Shown(walk)
           limit == PageLimit(walk)
<1>1. /\ BoardTyped /\ WalkTyped /\ ReadPlaces
      /\ limit \in Nat /\ Offset(walk) \in Nat
      /\ walk.page * limit = Offset(walk) + limit
  BY PageFacts DEF BoardInv
<1>2. findings' = findings /\ inserted' = inserted /\ ~walk.ended
  BY DEF ListFindings
<1>3. /\ walk'.priority = walk.priority /\ walk'.per_page = walk.per_page
      /\ walk'.page = walk.page + 1 /\ walk'.seen = walk.seen \cup shown
      /\ walk'.evicted = walk.evicted
  BY DEF ListFindings
<1>3a. /\ walk'.repeated = (walk.repeated \/ shown \cap walk.seen # {})
       /\ walk'.ended = (Cardinality(shown) < limit)
  BY DEF ListFindings
<1>4. walk.page \in Nat
  BY <1>1 DEF WalkTyped
<1>5. Offset(walk)' = Offset(walk) + limit
  <2>1. PageLimit(walk)' = limit
    BY <1>3 DEF PageLimit
  <2>2. walk'.page - 1 = walk.page
    BY <1>3, <1>4
  <2>3. Offset(walk)' = walk.page * limit
    BY <2>1, <2>2, Zenon DEF Offset
  <2> QED BY <1>1, <2>3
<1>6. /\ Filtered(walk.priority)' = Filtered(walk.priority)
      /\ \A i : Place(i, walk.priority)' = Place(i, walk.priority)
  <2>1. Filtered(walk.priority)' = Filtered(walk.priority)
    BY <1>2, <1>3 DEF Filtered
  <2> QED BY <1>3, <2>1 DEF Place
<1>7. shown = {findings[i].id : i \in {j \in Filtered(walk.priority) :
                 /\ Offset(walk) < Place(j, walk.priority)
                 /\ Place(j, walk.priority) <= Offset(walk) + limit}}
  BY DEF Shown
<1>8. shown \subseteq Ids /\ shown \subseteq Nat /\ IsFiniteSet(shown)
  <2>1. shown \subseteq Ids
    BY <1>7 DEF Ids, Filtered
  <2> QED BY <1>1, <2>1, BoardFinite, FS_Subset
<1>9. ASSUME NEW i \in DOMAIN findings, findings[i].id \in shown
      PROVE  /\ i \in Filtered(walk.priority) /\ Offset(walk) < Place(i, walk.priority)
             /\ Place(i, walk.priority) <= Offset(walk) + limit
  <2>1. PICK j \in Filtered(walk.priority) :
          /\ Offset(walk) < Place(j, walk.priority)
          /\ Place(j, walk.priority) <= Offset(walk) + limit
          /\ findings[j].id = findings[i].id
    BY <1>7, <1>9
  <2>2. j = i
    BY <1>1, <2>1 DEF BoardTyped, Filtered
  <2> QED BY <2>1, <2>2
<1> HIDE DEF shown, limit
<1>10. shown \cap walk.seen = {}
  <2> SUFFICES ASSUME NEW x \in shown, x \in walk.seen PROVE FALSE
    OBVIOUS
  <2>1. PICK i \in DOMAIN findings : findings[i].id = x
    BY <1>8 DEF Ids
  <2>2. Place(i, walk.priority) <= Offset(walk) /\ Offset(walk) < Place(i, walk.priority)
    BY <1>1, <1>9, <2>1 DEF ReadPlaces
  <2>3. Place(i, walk.priority) \in Nat
    BY <1>1, BoardFinite
  <2> QED BY <1>1, <2>2, <2>3
<1>11. BoardTyped'
  BY <1>1, <1>2 DEF BoardTyped
<1>12. WalkTyped'
  <2>0. walk.seen \in SUBSET Nat /\ IsFiniteSet(walk.seen)
    BY <1>1 DEF WalkTyped
  <2>1. IsFiniteSet(walk'.seen)
    <3>1. IsFiniteSet(walk.seen \cup shown)
      BY <1>8, <2>0, FS_Union
    <3> QED BY <1>3, <3>1, Zenon
  <2>2. walk'.seen \in SUBSET Nat /\ walk'.page \in Nat \ {0}
    <3>1. (walk.seen \cup shown) \in SUBSET Nat
      BY <1>8, <2>0
    <3>2. walk.page + 1 \in Nat \ {0}
      BY <1>4
    <3> QED BY <1>3, <3>1, <3>2, Zenon
  <2>3. walk' = [priority |-> walk.priority, per_page |-> walk.per_page, page |-> walk'.page,
                 seen |-> walk'.seen, evicted |-> walk.evicted, repeated |-> walk'.repeated,
                 ended |-> walk'.ended]
    BY <1>3 DEF ListFindings
  <2>4. walk'.repeated \in BOOLEAN /\ walk'.ended \in BOOLEAN
    <3>1. walk.repeated \in BOOLEAN
      BY <1>1 DEF WalkTyped
    <3> QED BY <1>3a, <3>1
  <2>5. /\ walk.priority \in {"any", "High"} /\ walk.per_page \in Nat \ {0} /\ walk.evicted \in Nat
    BY <1>1 DEF WalkTyped
  <2> QED BY <2>1, <2>2, <2>3, <2>4, <2>5 DEF WalkTyped
<1>13. ReadPlaces'
  <2>1. \A x \in walk'.seen : x < inserted'
    BY <1>1, <1>2, <1>3, <1>8 DEF ReadPlaces, BoardTyped, Ids
  <2>2. ASSUME NEW i \in DOMAIN findings', findings'[i].id \in walk'.seen
        PROVE  (i \in Filtered(walk.priority) /\ Place(i, walk.priority) <= Offset(walk))'
    <3>1. Place(i, walk.priority) \in Nat
      BY <1>1, BoardFinite
    <3>2. i \in Filtered(walk.priority) /\ Place(i, walk.priority) <= Offset(walk) + limit
      <4>1. CASE findings[i].id \in walk.seen
        BY <1>1, <1>2, <2>2, <3>1, <4>1 DEF ReadPlaces
      <4>2. CASE findings[i].id \in shown
        BY <1>2, <1>9, <2>2, <4>2
      <4> QED BY <1>2, <1>3, <2>2, <4>1, <4>2
    <3> QED BY <1>5, <1>6, <3>2
  <2> QED BY <2>1, <2>2 DEF ReadPlaces
<1>14. Gone' = Gone
  <2>1. Ids' = Ids
    BY <1>2 DEF Ids
  <2> QED BY <1>3, <1>8, <2>1 DEF Gone
<1>15. ASSUME ~walk'.ended PROVE Offset(walk)' <= Cardinality(walk'.seen)
  <2>1. Cardinality(walk'.seen) = Cardinality(walk.seen) + Cardinality(shown)
    <3>1. IsFiniteSet(walk.seen) /\ walk.seen \cap shown = {}
      BY <1>1, <1>10 DEF WalkTyped
    <3>2. Cardinality(walk.seen \cup shown) = Cardinality(walk.seen) + Cardinality(shown)
      BY <1>8, <3>1, DisjointCount
    <3> QED BY <1>3, <3>2, Zenon
  <2>2. Cardinality(walk.seen) \in Nat /\ Cardinality(shown) \in Nat
    BY <1>1, <1>8, FS_CardinalityType DEF WalkTyped
  <2>3. Cardinality(shown) >= limit
    <3>1. ~(Cardinality(shown) < limit)
      BY <1>3a, <1>15, Zenon
    <3> QED BY <1>1, <2>2, <3>1
  <2>4. Offset(walk) <= Cardinality(walk.seen)
    BY <1>2 DEF BoardInv
  <2> QED BY <1>1, <1>5, <2>1, <2>2, <2>3, <2>4
<1>16. walk'.repeated = FALSE
  BY <1>3a, <1>10 DEF BoardInv
<1>17. Cardinality(Gone') <= walk'.evicted
  BY <1>3, <1>14 DEF BoardInv
<1> QED BY <1>11, <1>12, <1>13, <1>15, <1>16, <1>17 DEF BoardInv

LEMMA AcknowledgeKeeps ==
  ASSUME BoardInv, NEW id, findings' = Acknowledged(id), UNCHANGED <<inserted, walk>>
  PROVE  BoardInv'
<1>1. BoardTyped /\ WalkTyped /\ ReadPlaces
  BY SMTT(60) DEF BoardInv
<1>2. PICK n \in Nat : n = Len(findings) /\ DOMAIN findings = 1 .. n
  BY <1>1, BoardFinite
<1>3. DOMAIN findings' = 1 .. n
  BY <1>2 DEF Acknowledged
<1>4. ASSUME NEW i \in 1 .. n
      PROVE  /\ findings'[i] \in Summaries /\ findings'[i].id = findings[i].id
             /\ findings'[i].priority = findings[i].priority
  <2>1. findings[i] \in Summaries
    BY <1>1, <1>2 DEF BoardTyped
  <2>2. findings'[i] = IF findings[i].id = id THEN [findings[i] EXCEPT !.acknowledged = TRUE]
                      ELSE findings[i]
    BY <1>2 DEF Acknowledged
  <2> QED BY <2>1, <2>2 DEF Summaries
<1>5. findings' \in Seq(Summaries)
  <2>1. findings' = [i \in 1 .. n |-> findings'[i]]
    BY <1>2 DEF Acknowledged
  <2> QED BY <1>4, <2>1
<1>6. \A p : Filtered(p)' = Filtered(p)
  BY <1>2, <1>3, <1>4 DEF Filtered, Matches
<1>7. \A p, i : Place(i, p)' = Place(i, p)
  BY <1>6 DEF Place
<1>8. Ids' = Ids
  BY <1>2, <1>3, <1>4 DEF Ids
<1>9. BoardTyped'
  BY <1>1, <1>2, <1>3, <1>4, <1>5 DEF BoardTyped
<1>10. WalkTyped'
  BY <1>1 DEF WalkTyped
<1>11. Offset(walk)' = Offset(walk)
  BY DEF Offset, PageLimit
<1>12. ReadPlaces'
  BY <1>1, <1>2, <1>3, <1>4, <1>6, <1>7, <1>11 DEF ReadPlaces
<1>13. Gone' = Gone
  BY <1>8 DEF Gone
<1> QED BY <1>9, <1>10, <1>11, <1>12, <1>13 DEF BoardInv

LEMMA BoardNextInv == BoardInv /\ [BoardNext]_boardVars => BoardInv'
<1> SUFFICES ASSUME BoardInv, [BoardNext]_boardVars PROVE BoardInv'
  OBVIOUS
<1>1. CASE \E p \in {"Critical", "High"} : InsertFinding(p)
  <2>1. PICK p \in {"Critical", "High"} : InsertFinding(p)
    BY <1>1
  <2> QED BY <2>1, InsertKeeps
<1>2. CASE ListFindings
  BY <1>2, ListKeeps
<1>3. CASE \E id \in 0 .. MaxInserts : AcknowledgeFinding(id)
  BY <1>3, AcknowledgeKeeps DEF AcknowledgeFinding
<1>4. CASE SlackAcknowledge
  BY <1>4, AcknowledgeKeeps DEF SlackAcknowledge
<1>5. CASE (\E p \in {"any", "High"} : SlackList(p)) \/ UNCHANGED boardVars
  <2>1. findings' = findings /\ inserted' = inserted /\ walk' = walk
    BY <1>5 DEF SlackList, boardVars
  <2>2. \A p : Filtered(p)' = Filtered(p)
    BY <2>1 DEF Filtered
  <2>3. \A p, i : Place(i, p)' = Place(i, p)
    BY <2>2 DEF Place
  <2>4. Ids' = Ids /\ Offset(walk)' = Offset(walk)
    BY <2>1 DEF Ids, Offset, PageLimit
  <2>5. Gone' = Gone
    BY <2>1, <2>4 DEF Gone
  <2>6. BoardTyped' /\ WalkTyped'
    BY <2>1 DEF BoardInv, BoardTyped, WalkTyped
  <2>7. ReadPlaces'
    BY <2>1, <2>2, <2>3, <2>4 DEF BoardInv, ReadPlaces
  <2> QED BY <2>1, <2>4, <2>5, <2>6, <2>7 DEF BoardInv
<1> QED BY <1>1, <1>2, <1>3, <1>4, <1>5 DEF BoardNext

LEMMA BoardInitial == BoardInit => BoardInv
<1> SUFFICES ASSUME BoardInit PROVE BoardInv
  OBVIOUS
<1>1. PICK p \in {"any", "High"}, n \in PageSizes : walk = Walk(p, n)
  BY DEF BoardInit
<1>2. n \in Nat \ {0}
  BY BoardAssumption
<1>3. /\ walk.seen = {} /\ walk.evicted = 0 /\ walk.repeated = FALSE /\ walk.page = 1
      /\ findings = <<>> /\ inserted = 0 /\ DOMAIN findings = {}
  BY <1>1 DEF BoardInit, Walk
<1>4. WalkTyped
  BY <1>1, <1>2, FS_EmptySet DEF WalkTyped, Walk
<1>5. Gone = {} /\ Cardinality(Gone) = 0 /\ Cardinality(walk.seen) = 0
  BY <1>3, FS_EmptySet DEF Gone
<1>6. Offset(walk) = 0
  <2>1. PageLimit(walk) \in Nat
    BY <1>4, PageFacts
  <2>2. \A l \in Nat : (1 - 1) * l = 0
    OBVIOUS
  <2> QED BY <1>3, <2>1, <2>2 DEF Offset
<1>7. BoardTyped /\ ReadPlaces
  BY <1>3 DEF BoardTyped, ReadPlaces
<1> QED BY <1>3, <1>4, <1>5, <1>6, <1>7 DEF BoardInv

(* A listing repeats nothing and misses no more than was evicted, for every  *)
(* size of the ring and of the page. (state.rs insert, api/findings.rs)      *)
THEOREM PagesMissOnlyEvicted == BoardSpec => []PagesLoseOnlyToEviction
<1>1. BoardInit => BoardInv
  BY BoardInitial
<1>2. BoardInv /\ [BoardNext]_boardVars => BoardInv'
  BY BoardNextInv
<1>3. BoardInv => PagesLoseOnlyToEviction
  BY BoardInvTells
<1> QED BY <1>1, <1>2, <1>3, PTL DEF BoardSpec
-----------------------------------------------------------------------------
(* The evidence of a workload. The signals: pushing onto the last ones gives *)
(* the last ones of all.                                                     *)
Notices ==
  [type : {"SuspiciousExec", "LibraryLoaded", "SensitiveFileAccess", "MprotectExec",
           "LargeDataTransfer"},
   item : Commands \cup FilePaths \cup Flows, at : Nat]

Skipped(n) == IF n <= MaxSignals THEN 0 ELSE n - MaxSignals

LEMMA LastSignalsAre ==
  ASSUME NEW V, NEW s \in Seq(V), NEW n \in Nat, n = Len(s)
  PROVE  /\ LastSignals(s) \in Seq(V) /\ Len(LastSignals(s)) = n - Skipped(n)
         /\ \A i \in 1 .. n - Skipped(n) : LastSignals(s)[i] = s[i + Skipped(n)]
<1>1. MaxSignals \in Nat /\ MaxSignals > 0
  BY EvidenceStoreAssumption
<1>2. CASE n <= MaxSignals
  <2>1. LastSignals(s) = s /\ Skipped(n) = 0
    BY <1>2 DEF LastSignals, Skipped
  <2> QED BY <2>1
<1>3. CASE n > MaxSignals
  <2> DEFINE a == n - MaxSignals + 1
  <2>1. LastSignals(s) = SubSeq(s, a, n) /\ Skipped(n) = n - MaxSignals
    BY <1>1, <1>3 DEF LastSignals, Skipped
  <2>2. a \in Int /\ n \in Int /\ a <= n /\ n - a + 1 = n - Skipped(n)
        /\ \A i \in Int : a + i - 1 = i + Skipped(n)
    BY <1>1, <1>3, <2>1
  <2>3. \A i \in a .. n : s[i] \in V
    BY <1>1, <1>3
  <2> HIDE DEF a
  <2>4. /\ SubSeq(s, a, n) \in Seq(V)
        /\ Len(SubSeq(s, a, n)) = IF a <= n THEN n - a + 1 ELSE 0
        /\ \A i \in 1 .. n - a + 1 : SubSeq(s, a, n)[i] = s[a + i - 1]
    <3>1. a \in Int /\ n \in Int
      BY <2>2
    <3> QED BY ONLY <2>3, <3>1, SubSeqProperties
  <2>5. ASSUME NEW i \in 1 .. n - Skipped(n) PROVE LastSignals(s)[i] = s[i + Skipped(n)]
    <3>1. i \in 1 .. n - a + 1 /\ a + i - 1 = i + Skipped(n)
      BY <2>2
    <3> QED BY <2>1, <2>4, <3>1
  <2> QED BY <2>1, <2>2, <2>4, <2>5
<1> QED BY <1>1, <1>2, <1>3

LEMMA PushedOntoLast ==
  ASSUME NEW V, NEW s \in Seq(V), NEW v \in V
  PROVE  PushSignal(LastSignals(s), v) = LastSignals(Append(s, v))
<1> DEFINE all == Append(s, v)
           old == LastSignals(s)
           new == LastSignals(all)
           kept == IF Len(old) >= MaxSignals THEN Tail(old) ELSE old
<1>1. PICK n \in Nat, m \in Nat : n = Len(s) /\ m = MaxSignals /\ m > 0
  BY EvidenceStoreAssumption
<1>2. /\ all \in Seq(V) /\ Len(all) = n + 1 /\ all[n + 1] = v
      /\ \A i \in 1 .. n : all[i] = s[i]
  BY <1>1
<1>3. PushSignal(old, v) = Append(kept, v)
  BY DEF PushSignal
<1> HIDE DEF all, old, new
<1>4. PICK skip, then : /\ skip = Skipped(n) /\ skip = IF n <= m THEN 0 ELSE n - m
                        /\ then = Skipped(n + 1) /\ then = IF n + 1 <= m THEN 0 ELSE n + 1 - m
  BY <1>1 DEF Skipped
<1>5. skip \in Nat /\ then \in Nat
  BY <1>1, <1>4
<1>6. Skipped(n) = skip /\ Skipped(n + 1) = then
  BY <1>4
<1>7. old \in Seq(V) /\ Len(old) = n - skip /\ \A i \in 1 .. n - skip : old[i] = s[i + skip]
  BY <1>1, <1>6, LastSignalsAre DEF old
<1>8. /\ new \in Seq(V) /\ Len(new) = n + 1 - then
      /\ \A i \in 1 .. n + 1 - then : new[i] = all[i + then]
  <2>1. PICK k \in Nat : k = n + 1
    OBVIOUS
  <2>2. k = Len(all) /\ all \in Seq(V)
    BY <1>2, <2>1
  <2>3. /\ new \in Seq(V) /\ Len(new) = k - Skipped(k)
        /\ \A i \in 1 .. k - Skipped(k) : new[i] = all[i + Skipped(k)]
    BY <2>2, LastSignalsAre DEF new
  <2>4. Skipped(k) = then
    BY <1>6, <2>1
  <2>5. /\ new \in Seq(V) /\ Len(new) = k - then
        /\ \A i \in 1 .. k - then : new[i] = all[i + then]
    BY <2>3, <2>4
  <2> QED BY <1>5, <2>1, <2>5
<1>9. kept \in Seq(V) /\ Len(kept) = n - then /\ \A i \in 1 .. n - then : kept[i] = s[i + then]
  <2>1. CASE n >= m
    <3>1. Len(old) = m /\ then = skip + 1 /\ n - then = m - 1 /\ n - skip = m
      BY <1>1, <1>4, <1>7, <2>1
    <3>2. old # <<>> /\ kept = Tail(old)
      BY <1>1, <3>1
    <3> HIDE DEF kept
    <3>3. /\ Tail(old) \in Seq(V) /\ Len(Tail(old)) = Len(old) - 1
          /\ \A i \in 1 .. Len(Tail(old)) : Tail(old)[i] = old[i + 1]
      BY <1>7, <3>2, HeadTailProperties
    <3>4. ASSUME NEW i \in 1 .. m - 1 PROVE old[i + 1] = s[i + then]
      <4>1. i + 1 \in 1 .. n - skip /\ (i + 1) + skip = i + then
        BY <1>5, <1>1, <3>1
      <4> QED BY <1>7, <4>1
    <3> QED BY <3>1, <3>2, <3>3, <3>4
  <2>2. CASE ~(n >= m)
    <3>1. Len(old) = n /\ skip = 0 /\ then = 0
      BY <1>1, <1>4, <1>7, <2>2
    <3>2. kept = old
      BY <1>1, <2>2, <3>1
    <3> QED BY <1>7, <3>1, <3>2
  <2> QED BY <2>1, <2>2
<1>10. then <= n
  BY <1>1, <1>4
<1> HIDE DEF kept
<1>11. Append(kept, v) = new
  <2>1. /\ Append(kept, v) \in Seq(V) /\ Len(Append(kept, v)) = Len(kept) + 1
        /\ Append(kept, v)[Len(kept) + 1] = v
        /\ \A i \in 1 .. Len(kept) : Append(kept, v)[i] = kept[i]
    BY <1>9, AppendProperties
  <2>2. Len(kept) = n - then /\ Len(kept) + 1 = n + 1 - then
    BY <1>5, <1>9
  <2>3. ASSUME NEW i \in 1 .. n + 1 - then PROVE Append(kept, v)[i] = new[i]
    <3>1. CASE i = n + 1 - then
      <4>1. i + then = n + 1 /\ new[i] = all[i + then]
        BY <1>5, <1>8, <3>1
      <4> QED BY <1>2, <2>1, <2>2, <3>1, <4>1
    <3>2. CASE i # n + 1 - then
      <4>1. i \in 1 .. n - then /\ i + then \in 1 .. n
        BY <1>5, <1>10, <3>2
      <4>2. new[i] = all[i + then] /\ all[i + then] = s[i + then]
        BY <1>2, <1>8, <4>1
      <4> QED BY <1>9, <2>1, <2>2, <4>1, <4>2
    <3> QED BY <3>1, <3>2
  <2>4. Len(Append(kept, v)) = n + 1 - then
    BY <2>1, <2>2
  <2> QED BY <1>8, <2>1, <2>3, <2>4, SeqEqual
<1> QED BY <1>3, <1>11 DEF old, new, all

LEMMA PushedAllOntoLast ==
  ASSUME NEW V, NEW s \in Seq(V), NEW new \in Seq(V)
  PROVE  PushAll(LastSignals(s), new) = LastSignals(s \o new)
<1> DEFINE n == Len(new)
           base == LastSignals(s)
           W == Seq(V)
           step == [x \in (1 .. n) \X W |-> PushSignal(x[2], new[x[1]])]
<1>1. n \in Nat /\ \A i \in 1 .. n : new[i] \in V
  OBVIOUS
<1>2. base \in W
  <2>1. PICK m \in Nat : m = Len(s)
    OBVIOUS
  <2> QED BY <2>1, LastSignalsAre
<1>3. ASSUME NEW i \in 1 .. n, NEW w \in W PROVE PushSignal(w, new[i]) \in W
  <2>1. new[i] \in V /\ Append(w, new[i]) \in Seq(V)
    BY <1>1, AppendProperties
  <2>2. w # <<>> => Tail(w) \in Seq(V) /\ Append(Tail(w), new[i]) \in Seq(V)
    BY <2>1, HeadTailProperties, AppendProperties
  <2>3. Len(w) >= MaxSignals => w # <<>>
    BY EvidenceStoreAssumption
  <2> QED BY <2>1, <2>2, <2>3 DEF PushSignal
<1>4. step \in [(1 .. n) \X W -> W]
  BY <1>3
<1>5. \A i \in 1 .. n, w \in W : step[<<i, w>>] = PushSignal(w, new[i])
  OBVIOUS
<1> HIDE DEF step, base, W
<1>6. PICK g \in [0 .. n -> W] : Follows(g, n, base, step)
  BY <1>1, <1>2, <1>4, StepwiseExists
<1> DEFINE Eq(f) == f = [i \in 0 .. n |-> IF i = 0 THEN base ELSE PushSignal(f[i - 1], new[i])]
<1>7. Eq(g)
  <2>1. ASSUME NEW i \in 0 .. n PROVE g[i] = IF i = 0 THEN base ELSE PushSignal(g[i - 1], new[i])
    <3>1. i # 0 => i \in 1 .. n /\ g[i - 1] \in W
      BY <1>1
    <3> QED BY <1>5, <1>6, <3>1 DEF Follows
  <2> HIDE DEF n
  <2> QED BY <2>1
<1> DEFINE after == CHOOSE f : Eq(f)
<1>8. Eq(after)
  <2> HIDE DEF Eq
  <2> QED BY <1>7, Zenon
<1>9. PushAll(base, new) = after[n]
  BY DEF PushAll
<1>10. \A i \in 0 .. n : after[i] = IF i = 0 THEN base ELSE PushSignal(after[i - 1], new[i])
  <2> HIDE DEF after, n
  <2> QED BY <1>8
<1> HIDE DEF after, Eq, n
<1> DEFINE P == {k \in 0 .. n : after[k] = LastSignals(s \o SubSeq(new, 1, k))}
<1>11. 0 \in P
  <2>1. s \o SubSeq(new, 1, 0) = s
    <3>1. SubSeq(new, 1, 0) = <<>>
      BY SubSeqEmpty
    <3> QED BY <3>1, ConcatEmptySeq
  <2>2. 0 \in 0 .. n /\ after[0] = base
    BY <1>1, <1>10
  <2> QED BY <2>1, <2>2 DEF base
<1>12. ASSUME NEW k \in 0 .. n - 1, k \in P PROVE k + 1 \in P
  <2> DEFINE some == SubSeq(new, 1, k)
  <2>1. k \in Nat /\ k + 1 \in 0 .. n /\ k + 1 # 0 /\ (k + 1) - 1 = k /\ k + 1 \in 1 .. n
    BY <1>1
  <2>2. after[k + 1] = PushSignal(after[k], new[k + 1])
    BY <1>10, <2>1
  <2>3. new[k + 1] \in V /\ some \in Seq(V)
    <3>1. \A i \in 1 .. k : new[i] \in V
      BY <1>1, <2>1
    <3>2. 1 \in Int /\ k \in Int
      BY <2>1
    <3> HIDE DEF some
    <3>3. some \in Seq(V)
      BY <3>1, <3>2, SubSeqProperties DEF some
    <3> QED BY <1>1, <2>1, <3>3
  <2>4. SubSeq(new, 1, k + 1) = Append(some, new[k + 1])
    <3>1. 1 \in 1 .. Len(new) /\ k + 1 \in 1 .. Len(new)
      BY <1>1, <2>1 DEF n
    <3> QED BY <2>1, <2>3, <3>1, SubSeqRecursiveSecond
  <2> HIDE DEF some
  <2>5. s \o some \in Seq(V) /\ s \o Append(some, new[k + 1]) = Append(s \o some, new[k + 1])
    BY <2>3
  <2>6. PushSignal(LastSignals(s \o some), new[k + 1]) = LastSignals(Append(s \o some, new[k + 1]))
    BY <2>3, <2>5, PushedOntoLast
  <2>7. after[k] = LastSignals(s \o some)
    BY <1>12 DEF some
  <2>8. after[k + 1] = LastSignals(s \o SubSeq(new, 1, k + 1))
    BY <2>2, <2>4, <2>5, <2>6, <2>7
  <2> QED BY <2>1, <2>8
<1> HIDE DEF P
<1>13. 0 .. n \subseteq P
  BY <1>1, <1>11, <1>12, UpTo
<1>14. n \in P
  BY <1>1, <1>13
<1>15. after[n] = LastSignals(s \o SubSeq(new, 1, n))
  BY <1>14 DEF P
<1>16. SubSeq(new, 1, n) = new
  BY SubSeqFull DEF n
<1> QED BY <1>9, <1>15, <1>16 DEF base

(* The signals of an event.                                                  *)
LEMMA SignalsTyped ==
  ASSUME NEW V, NEW e, NEW at,
         e.kind = "Exec" /\ e.item \in Suspicious
           => [type |-> "SuspiciousExec", item |-> e.item, at |-> at] \in V,
         LoadsLibrary(e) => [type |-> "LibraryLoaded", item |-> e.item, at |-> at] \in V,
         FileEvent(e) /\ e.item \in Sensitive
           => [type |-> "SensitiveFileAccess", item |-> e.item, at |-> at] \in V,
         e.kind = "Mprotect" => [type |-> "MprotectExec", item |-> e.item, at |-> at] \in V,
         e.kind = "Net" /\ e.size > LargeTransferSize
           => [type |-> "LargeDataTransfer", item |-> e.item, at |-> at] \in V
  PROVE  SignalsOf(e, at) \in Seq(V)
<1> DEFINE When(holds, type) ==
             IF holds THEN <<[type |-> type, item |-> e.item, at |-> at]>> ELSE <<>>
           s1 == When(e.kind = "Exec" /\ e.item \in Suspicious, "SuspiciousExec")
           s2 == When(LoadsLibrary(e), "LibraryLoaded")
           s3 == When(FileEvent(e) /\ e.item \in Sensitive, "SensitiveFileAccess")
           s4 == When(e.kind = "Mprotect", "MprotectExec")
           s5 == When(e.kind = "Net" /\ e.size > LargeTransferSize, "LargeDataTransfer")
<1>1. SignalsOf(e, at) = s1 \o s2 \o s3 \o s4 \o s5
  BY DEF SignalsOf
<1>2. \A r \in V : <<r>> \in Seq(V)
  OBVIOUS
<1>3. <<>> \in Seq(V)
  OBVIOUS
<1>4. s1 \in Seq(V)
  BY <1>2, <1>3
<1>5. s2 \in Seq(V)
  BY <1>2, <1>3
<1>6. s3 \in Seq(V)
  BY <1>2, <1>3
<1>7. s4 \in Seq(V)
  BY <1>2, <1>3
<1>8. s5 \in Seq(V)
  BY <1>2, <1>3
<1> HIDE DEF s1, s2, s3, s4, s5
<1>9. s1 \o s2 \in Seq(V)
  BY <1>4, <1>5
<1>10. s1 \o s2 \o s3 \in Seq(V)
  BY <1>6, <1>9
<1>11. s1 \o s2 \o s3 \o s4 \in Seq(V)
  BY <1>7, <1>10
<1>12. s1 \o s2 \o s3 \o s4 \o s5 \in Seq(V)
  BY <1>8, <1>11
<1> QED BY <1>1, <1>12

LEMMA StoreEventFacts ==
  ASSUME NEW e \in StoreEvents
  PROVE  /\ e.item \in Commands \cup FilePaths \cup Flows /\ e.size \in Nat
         /\ e.kind = "Exec" => e.item \in Commands
         /\ FileEvent(e) => e.item \in FilePaths
         /\ e.kind = "Net" => e.item \in Flows
<1>1. TransferSizes \subseteq Nat
  BY EvidenceStoreAssumption
<1>2. CASE e \in [kind : {"Exec"}, item : Commands, size : {0}]
  BY <1>2 DEF FileEvent
<1>3. CASE e \in [kind : {"Mmap", "Open", "Mprotect"}, item : FilePaths, size : {0}]
  BY <1>3 DEF FileEvent
<1>4. CASE e \in [kind : {"Net"}, item : Flows, size : TransferSizes]
  BY <1>1, <1>4 DEF FileEvent
<1> QED BY <1>2, <1>3, <1>4 DEF StoreEvents

NoticesOf(told) ==
  {s \in Notices : s.type = "LibraryLoaded" =>
     s.at \in DOMAIN told /\ LoadsLibrary(told[s.at]) /\ told[s.at].item = s.item}

LEMMA SignalsOfOne ==
  ASSUME NEW e \in StoreEvents, NEW at \in Nat
  PROVE  /\ SignalsOf(e, at) \in Seq(Notices)
         /\ \A told : at \in DOMAIN told /\ told[at] = e => SignalsOf(e, at) \in Seq(NoticesOf(told))
<1> DEFINE N(type) == [type |-> type, item |-> e.item, at |-> at]
<1>1. /\ N("SuspiciousExec") \in Notices /\ N("LibraryLoaded") \in Notices
      /\ N("SensitiveFileAccess") \in Notices /\ N("MprotectExec") \in Notices
      /\ N("LargeDataTransfer") \in Notices
  BY StoreEventFacts DEF Notices
<1>2. SignalsOf(e, at) \in Seq(Notices)
  BY <1>1, SignalsTyped
<1>3. ASSUME NEW told, at \in DOMAIN told, told[at] = e
      PROVE  SignalsOf(e, at) \in Seq(NoticesOf(told))
  <2>1. /\ N("SuspiciousExec") \in NoticesOf(told) /\ N("SensitiveFileAccess") \in NoticesOf(told)
        /\ N("MprotectExec") \in NoticesOf(told) /\ N("LargeDataTransfer") \in NoticesOf(told)
    BY <1>1 DEF NoticesOf
  <2>2. LoadsLibrary(e) => N("LibraryLoaded") \in NoticesOf(told)
    BY <1>1, <1>3 DEF NoticesOf
  <2> QED BY <2>1, <2>2, SignalsTyped
<1> QED BY <1>2, <1>3

(* The signals due, event by event.                                          *)
LEMMA DueUnrolled ==
  ASSUME NEW told \in Seq(StoreEvents)
  PROVE  \E h \in [0 .. Len(told) -> Seq(Notices)] :
            /\ h[0] = <<>> /\ Due(told) = h[Len(told)]
            /\ \A i \in 1 .. Len(told) : h[i] = h[i - 1] \o SignalsOf(told[i], i)
<1> DEFINE n == Len(told)
           W == Seq(Notices)
           none == <<>>
           step == [x \in (1 .. n) \X W |-> x[2] \o SignalsOf(told[x[1]], x[1])]
<1>1. n \in Nat /\ \A i \in 1 .. n : told[i] \in StoreEvents
  OBVIOUS
<1>2. none \in W
  OBVIOUS
<1>3. ASSUME NEW i \in 1 .. n, NEW w \in W PROVE w \o SignalsOf(told[i], i) \in W
  <2>1. told[i] \in StoreEvents /\ i \in Nat
    BY <1>1
  <2>2. SignalsOf(told[i], i) \in Seq(Notices)
    BY <2>1, SignalsOfOne
  <2> QED BY <2>2, ConcatProperties
<1>4. step \in [(1 .. n) \X W -> W]
  BY <1>3
<1>5. \A i \in 1 .. n, w \in W : step[<<i, w>>] = w \o SignalsOf(told[i], i)
  OBVIOUS
<1> HIDE DEF step, W, none
<1>6. PICK g \in [0 .. n -> W] : Follows(g, n, none, step)
  BY <1>1, <1>2, <1>4, StepwiseExists
<1> DEFINE Eq(f) == f = [i \in 0 .. n |-> IF i = 0 THEN none ELSE f[i - 1] \o SignalsOf(told[i], i)]
<1>7. Eq(g)
  <2>1. ASSUME NEW i \in 0 .. n
        PROVE  g[i] = IF i = 0 THEN none ELSE g[i - 1] \o SignalsOf(told[i], i)
    <3>1. i # 0 => i \in 1 .. n /\ g[i - 1] \in W
      BY <1>1
    <3> QED BY <1>5, <1>6, <3>1 DEF Follows
  <2> HIDE DEF n
  <2> QED BY <2>1
<1> DEFINE after == CHOOSE f : Eq(f)
<1>8. Eq(after)
  <2> HIDE DEF Eq
  <2> QED BY <1>7, Zenon
<1>9. Due(told) = after[n]
  BY DEF Due, none
<1>10. \A i \in 0 .. n : after[i] = IF i = 0 THEN none ELSE after[i - 1] \o SignalsOf(told[i], i)
  <2> HIDE DEF after, n
  <2> QED BY <1>8
<1>11. after = [i \in 0 .. n |-> after[i]]
  <2> HIDE DEF after, n
  <2> QED BY <1>8
<1> HIDE DEF after, Eq, n
<1>12. FollowsWithin(after, n, W, none, step)
  <2>1. after[0] = none
    BY <1>1, <1>10
  <2>2. ASSUME NEW i \in 1 .. n, after[i - 1] \in W
        PROVE  after[i] = step[<<i, after[i - 1]>>]
    <3>1. i \in 0 .. n /\ i # 0
      BY <1>1
    <3>2. after[i] = after[i - 1] \o SignalsOf(told[i], i)
      BY <1>10, <3>1
    <3>3. step[<<i, after[i - 1]>>] = after[i - 1] \o SignalsOf(told[i], i)
      BY <1>5, <2>2
    <3> QED BY <3>2, <3>3
  <2> QED BY <2>1, <2>2 DEF FollowsWithin
<1>13. \A i \in 0 .. n : after[i] \in W
  BY <1>1, <1>2, <1>4, <1>12, StepwiseTyped
<1>14. after \in [0 .. n -> W]
  BY <1>11, <1>13
<1>15. after[0] = none /\ \A i \in 1 .. n : after[i] = after[i - 1] \o SignalsOf(told[i], i)
  BY <1>1, <1>10
<1> QED BY <1>9, <1>14, <1>15 DEF n, none, W

LEMMA NothingDue == Due(<<>>) = <<>>
<1> DEFINE none == <<>>
<1>1. none \in Seq(StoreEvents) /\ Len(none) = 0
  OBVIOUS
<1> HIDE DEF none
<1>2. PICK h \in [0 .. Len(none) -> Seq(Notices)] :
         /\ h[0] = <<>> /\ Due(none) = h[Len(none)]
         /\ \A i \in 1 .. Len(none) : h[i] = h[i - 1] \o SignalsOf(none[i], i)
  BY <1>1, DueUnrolled
<1> QED BY <1>1, <1>2 DEF none

LEMMA DueOneMore ==
  ASSUME NEW told \in Seq(StoreEvents), NEW e \in StoreEvents
  PROVE  Due(Append(told, e)) = Due(told) \o SignalsOf(e, Len(told) + 1)
<1> DEFINE n == Len(told)
           more == Append(told, e)
<1>1. n \in Nat /\ more \in Seq(StoreEvents) /\ Len(more) = n + 1 /\ more[n + 1] = e
      /\ \A i \in 1 .. n : more[i] = told[i]
  OBVIOUS
<1> HIDE DEF more
<1>2. PICK h \in [0 .. n -> Seq(Notices)] :
         /\ h[0] = <<>> /\ Due(told) = h[n]
         /\ \A i \in 1 .. n : h[i] = h[i - 1] \o SignalsOf(told[i], i)
  BY DueUnrolled
<1>3. PICK g \in [0 .. n + 1 -> Seq(Notices)] :
         /\ g[0] = <<>> /\ Due(more) = g[n + 1]
         /\ \A i \in 1 .. n + 1 : g[i] = g[i - 1] \o SignalsOf(more[i], i)
  BY ZenonT(60), <1>1, DueUnrolled
<1> DEFINE P == {k \in 0 .. n : h[k] = g[k]}
<1>4. 0 \in P
  BY <1>1, <1>2, <1>3
<1>5. ASSUME NEW k \in 0 .. n - 1, k \in P PROVE k + 1 \in P
  <2>1. k + 1 \in 1 .. n /\ k + 1 \in 1 .. n + 1 /\ k + 1 \in 0 .. n /\ (k + 1) - 1 = k
    BY <1>1
  <2>2. /\ h[k + 1] = h[k] \o SignalsOf(told[k + 1], k + 1)
        /\ g[k + 1] = g[k] \o SignalsOf(more[k + 1], k + 1)
    BY <1>2, <1>3, <2>1
  <2>3. h[k] = g[k] /\ told[k + 1] = more[k + 1]
    BY <1>1, <1>5, <2>1
  <2>4. h[k + 1] = g[k + 1]
    BY <2>2, <2>3
  <2> QED BY <2>1, <2>4
<1> HIDE DEF P
<1>6. 0 .. n \subseteq P
  <2>1. n \in Nat
    BY <1>1
  <2> HIDE DEF n
  <2> QED BY <1>4, <1>5, <2>1, UpTo
<1>7. h[n] = g[n]
  BY <1>1, <1>6 DEF P
<1>8. g[n + 1] = g[n] \o SignalsOf(e, n + 1)
  <2>1. n + 1 \in 1 .. n + 1 /\ (n + 1) - 1 = n
    BY <1>1
  <2> QED BY <1>1, <1>3, <2>1
<1> QED BY <1>2, <1>3, <1>7, <1>8 DEF more

(* A signal of a library names the event that loaded it.                     *)
LEMMA DueTells ==
  ASSUME NEW told \in Seq(StoreEvents)
  PROVE  Due(told) \in Seq(Notices) /\ Due(told) \in Seq(NoticesOf(told))
<1> DEFINE W == Seq(NoticesOf(told))
<1>1. PICK n \in Nat : n = Len(told) /\ DOMAIN told = 1 .. n
        /\ \A i \in 1 .. n : told[i] \in StoreEvents
  OBVIOUS
<1>2. PICK h \in [0 .. n -> Seq(Notices)] :
         /\ h[0] = <<>> /\ Due(told) = h[n]
         /\ \A i \in 1 .. n : h[i] = h[i - 1] \o SignalsOf(told[i], i)
  BY <1>1, DueUnrolled
<1>3. <<>> \in W
  OBVIOUS
<1>4. ASSUME NEW i \in 1 .. n PROVE SignalsOf(told[i], i) \in W
  <2>1. i \in Nat /\ i \in DOMAIN told /\ told[i] \in StoreEvents
    BY <1>1
  <2> QED BY <2>1, SignalsOfOne
<1>5. \A v, w \in W : v \o w \in W
  BY ConcatProperties
<1> HIDE DEF W
<1> DEFINE P == {k \in 0 .. n : h[k] \in W}
<1>6. 0 \in P
  BY <1>2, <1>3
<1>7. ASSUME NEW k \in 0 .. n - 1, k \in P PROVE k + 1 \in P
  <2>1. k + 1 \in 1 .. n /\ k + 1 \in 0 .. n /\ (k + 1) - 1 = k
    OBVIOUS
  <2>2. h[k + 1] = h[k] \o SignalsOf(told[k + 1], k + 1)
    BY <1>2, <2>1
  <2>3. h[k] \in W
    BY <1>7
  <2> QED BY <1>4, <1>5, <2>1, <2>2, <2>3
<1> HIDE DEF P
<1>8. 0 .. n \subseteq P
  BY <1>6, <1>7, UpTo
<1>9. h[n] \in W
  BY <1>8 DEF P
<1>10. h[n] \in Seq(Notices)
  BY <1>2
<1> QED BY <1>2, <1>9, <1>10 DEF W

(* A set that an event of its kind adds to keeps what came first.            *)
FirstKept(kept, told, kind) ==
  /\ IsFiniteSet(kept) /\ Cardinality(kept) <= MaxSetEntries
  /\ FirstComeKept(kept, told, kind)

Telling(told, kind) == {i \in DOMAIN told : told[i] \in kind}

Beyond(kept, told, kind, j) ==
  /\ Cardinality(kept) = MaxSetEntries
  /\ \A x \in kept : \E i \in Telling(told, kind) : i < j /\ told[i].item = x

LEMMA FirstComeKeptIs ==
  ASSUME NEW kept, NEW told, NEW kind
  PROVE  FirstComeKept(kept, told, kind)
           <=> /\ \A x \in kept : \E i \in Telling(told, kind) : told[i].item = x
               /\ \A j \in Telling(told, kind) :
                    told[j].item \notin kept => Beyond(kept, told, kind, j)
  BY DEF FirstComeKept, Telling, Beyond

LEMMA NothingKept ==
  ASSUME NEW kind
  PROVE  FirstKept({}, <<>>, kind)
<1>1. Telling(<<>>, kind) = {}
  BY DEF Telling
<1>2. FirstComeKept({}, <<>>, kind)
  BY <1>1, FirstComeKeptIs
<1>3. IsFiniteSet({}) /\ Cardinality({}) = 0
  BY FS_EmptySet
<1> QED BY <1>2, <1>3, EvidenceStoreAssumption DEF FirstKept

LEMMA KeptMore ==
  ASSUME NEW told \in Seq(StoreEvents), NEW e \in StoreEvents, NEW kind, NEW kept,
         FirstKept(kept, told, kind)
  PROVE  FirstKept(IF e \in kind THEN CappedInsert(kept, e.item) ELSE kept, Append(told, e), kind)
<1> DEFINE more == Append(told, e)
<1>1. PICK n \in Nat : n = Len(told) /\ DOMAIN told = 1 .. n
  OBVIOUS
<1>2. DOMAIN more = 1 .. n + 1 /\ more[n + 1] = e /\ \A i \in 1 .. n : more[i] = told[i]
  BY <1>1
<1> HIDE DEF more
<1>3. ASSUME NEW i \in Telling(told, kind)
      PROVE  i \in Int /\ i \in Telling(more, kind) /\ i < n + 1 /\ more[i] = told[i]
  BY <1>1, <1>2 DEF Telling
<1>4. ASSUME NEW i \in Telling(more, kind), i # n + 1 PROVE i \in Telling(told, kind)
  <2>1. i \in 1 .. n
    BY <1>2, <1>4 DEF Telling
  <2> QED BY <1>1, <1>2, <2>1 DEF Telling
<1>5. /\ \A x \in kept : \E i \in Telling(told, kind) : told[i].item = x
      /\ \A j \in Telling(told, kind) : told[j].item \notin kept => Beyond(kept, told, kind, j)
  BY FirstComeKeptIs DEF FirstKept
<1>6. \A x \in kept : \E i \in Telling(more, kind) : more[i].item = x
  BY <1>3, <1>5
<1>7. ASSUME NEW j \in Telling(told, kind), Beyond(kept, told, kind, j)
      PROVE  Beyond(kept, more, kind, j)
  BY <1>3, <1>7 DEF Beyond
<1>8. ASSUME NEW j \in Telling(told, kind), more[j].item \notin kept
      PROVE  Beyond(kept, more, kind, j)
  BY <1>3, <1>5, <1>7, <1>8
<1>9. IsFiniteSet(kept) /\ Cardinality(kept) <= MaxSetEntries /\ Cardinality(kept) \in Nat
      /\ MaxSetEntries \in Nat
  BY FS_CardinalityType, EvidenceStoreAssumption DEF FirstKept
<1>10. CASE e \notin kind
  <2>1. n + 1 \notin Telling(more, kind)
    BY <1>2, <1>10 DEF Telling
  <2>2. \A j \in Telling(more, kind) : j \in Telling(told, kind)
    BY <1>4, <2>1
  <2>3. FirstComeKept(kept, more, kind)
    BY <1>6, <1>8, <2>2, FirstComeKeptIs
  <2> QED BY <1>9, <1>10, <2>3 DEF FirstKept, more
<1>11. CASE e \in kind
  <2> DEFINE new == CappedInsert(kept, e.item)
  <2>1. n + 1 \in Telling(more, kind) /\ more[n + 1].item = e.item
    BY <1>1, <1>2, <1>11 DEF Telling
  <2>2. CASE e.item \in kept
    <3>1. new = kept
      BY <2>2 DEF CappedInsert
    <3>2. ASSUME NEW j \in Telling(more, kind), more[j].item \notin kept
          PROVE  Beyond(kept, more, kind, j)
      <4>1. j # n + 1
        BY <2>1, <2>2, <3>2
      <4> QED BY <1>4, <1>8, <3>2, <4>1
    <3>3. FirstComeKept(kept, more, kind)
      BY <1>6, <3>2, FirstComeKeptIs
    <3> QED BY <1>9, <1>11, <3>1, <3>3 DEF FirstKept, more
  <2>3. CASE e.item \notin kept /\ Cardinality(kept) >= MaxSetEntries
    <3>1. new = kept /\ Cardinality(kept) = MaxSetEntries
      BY <1>9, <2>3 DEF CappedInsert
    <3>2. Beyond(kept, more, kind, n + 1)
      <4>1. ASSUME NEW x \in kept
            PROVE  \E i \in Telling(more, kind) : i < n + 1 /\ more[i].item = x
        BY <1>3, <1>5
      <4> QED BY <3>1, <4>1 DEF Beyond
    <3>3. ASSUME NEW j \in Telling(more, kind), more[j].item \notin kept
          PROVE  Beyond(kept, more, kind, j)
      BY <1>4, <1>8, <3>2, <3>3
    <3>4. FirstComeKept(kept, more, kind)
      BY <1>6, <3>3, FirstComeKeptIs
    <3> QED BY <1>9, <1>11, <3>1, <3>4 DEF FirstKept, more
  <2>4. CASE e.item \notin kept /\ ~(Cardinality(kept) >= MaxSetEntries)
    <3>1. new = kept \cup {e.item}
      BY <2>4 DEF CappedInsert
    <3>2. IsFiniteSet(new) /\ Cardinality(new) = Cardinality(kept) + 1
      <4>1. PICK x : x = e.item
        OBVIOUS
      <4>2. /\ IsFiniteSet(kept \cup {x})
            /\ Cardinality(kept \cup {x}) = IF x \in kept THEN Cardinality(kept)
                                            ELSE Cardinality(kept) + 1
        BY <1>9, FS_AddElement
      <4> HIDE DEF new
      <4> QED BY <2>4, <3>1, <4>1, <4>2
    <3>3. \A x \in new : \E i \in Telling(more, kind) : more[i].item = x
      BY <1>6, <2>1, <3>1
    <3>4. \A j \in Telling(told, kind) : told[j].item \in kept
      BY <1>5, <1>9, <2>4 DEF Beyond
    <3>5. ASSUME NEW j \in Telling(more, kind) PROVE more[j].item \in new
      <4>1. CASE j = n + 1
        BY <2>1, <3>1, <4>1
      <4>2. CASE j # n + 1
        BY <1>3, <1>4, <3>1, <3>4, <4>2
      <4> QED BY <4>1, <4>2
    <3> HIDE DEF new
    <3>6. FirstComeKept(new, more, kind)
      BY <3>3, <3>5, FirstComeKeptIs
    <3>7. Cardinality(new) <= MaxSetEntries
      BY <1>9, <2>4, <3>2
    <3>8. FirstKept(new, more, kind)
      BY <3>2, <3>6, <3>7 DEF FirstKept
    <3> QED BY <1>11, <3>8 DEF new, more
  <2> QED BY <2>2, <2>3, <2>4
<1> QED BY <1>10, <1>11

(* The bytes, summed.                                                        *)
Sizes(told) == [i \in DOMAIN told |-> told[i].size]

LEMMA SizesOneMore ==
  ASSUME NEW told \in Seq(StoreEvents), NEW e \in StoreEvents
  PROVE  SumFunction(Sizes(Append(told, e))) = SumFunction(Sizes(told)) + e.size
<1> DEFINE more == Append(told, e)
           f == Sizes(told)
           g == Sizes(more)
<1>1. PICK n \in Nat : n = Len(told) /\ DOMAIN told = 1 .. n /\ \A i \in 1 .. n : told[i] \in StoreEvents
  OBVIOUS
<1>2. DOMAIN more = 1 .. n + 1 /\ more[n + 1] = e /\ \A i \in 1 .. n : more[i] = told[i]
  BY <1>1
<1>3. e.size \in Int /\ \A i \in 1 .. n : told[i].size \in Int
  BY <1>1, StoreEventFacts
<1> HIDE DEF more
<1>4. DOMAIN f = 1 .. n /\ DOMAIN g = 1 .. n + 1 /\ g[n + 1] = e.size
  BY <1>1, <1>2 DEF Sizes
<1>5. \A i \in 1 .. n : f[i] \in Int /\ g[i] = f[i]
  BY <1>1, <1>2, <1>3 DEF Sizes
<1> HIDE DEF f, g
<1>6. g[n + 1] \in Int
  BY <1>3, <1>4
<1>7. SumFunctionOnSet(g, 1 .. n + 1) = SumFunctionOnSet(f, 1 .. n) + g[n + 1]
  BY <1>5, <1>6, SumAppended
<1>8. SumFunction(g) = SumFunctionOnSet(g, 1 .. n + 1) /\ SumFunction(f) = SumFunctionOnSet(f, 1 .. n)
  BY <1>4 DEF SumFunction
<1> QED BY <1>4, <1>7, <1>8 DEF f, g, more

LEMMA NoSizes == SumFunction(Sizes(<<>>)) = 0
<1>1. DOMAIN Sizes(<<>>) = {}
  BY DEF Sizes
<1> QED BY <1>1, SumEmpty DEF SumFunction

(* The invariant: for each cgroup, what its state tells of its events.       *)
Tells(w, told) ==
  /\ FirstKept(w.commands, told, Execs) /\ FirstKept(w.observed_paths, told, FileEvents)
  /\ FirstKept(w.network_flows, told, NetEvents) /\ FirstKept(w.loaded_libraries, told, LibraryLoads)
  /\ w.signals = LastSignals(Due(told))
  /\ w.data_transferred_bytes = AtMost(SumFunction(Sizes(told)), MaxDataBytes)
  /\ SumFunction(Sizes(told)) \in Nat

Workloads ==
  [commands : SUBSET Commands, observed_paths : SUBSET FilePaths, network_flows : SUBSET Flows,
   loaded_libraries : SUBSET FilePaths, signals : Seq(Notices), data_transferred_bytes : Nat]

StoreTyped ==
  /\ workload \in [CgroupIds -> Workloads]
  /\ applied \in [CgroupIds -> Seq(StoreEvents)]

StoreInv == StoreTyped /\ \A g \in CgroupIds : Tells(workload[g], applied[g])

LEMMA NoneDueLast == LastSignals(<<>>) = <<>>
<1> DEFINE none == <<>>
<1>1. none \in Seq(Notices) /\ 0 = Len(none) /\ 0 \in Nat
  OBVIOUS
<1>2. Skipped(0) = 0
  BY EvidenceStoreAssumption DEF Skipped
<1> HIDE DEF none
<1>3. LastSignals(none) \in Seq(Notices) /\ Len(LastSignals(none)) = 0 - Skipped(0)
  BY <1>1, LastSignalsAre
<1> QED BY <1>2, <1>3 DEF none

LEMMA NothingTold == WorkloadState \in Workloads /\ Tells(WorkloadState, <<>>)
<1>1. WorkloadState \in Workloads
  BY DEF WorkloadState, Workloads
<1>2. /\ FirstKept({}, <<>>, Execs) /\ FirstKept({}, <<>>, FileEvents)
      /\ FirstKept({}, <<>>, NetEvents) /\ FirstKept({}, <<>>, LibraryLoads)
  BY NothingKept
<1>3. LastSignals(Due(<<>>)) = <<>>
  BY NothingDue, NoneDueLast
<1>4. AtMost(SumFunction(Sizes(<<>>)), MaxDataBytes) = 0
  BY NoSizes, EvidenceStoreAssumption DEF AtMost
<1> QED BY <1>1, <1>2, <1>3, <1>4, NoSizes DEF Tells, WorkloadState

LEMMA InsertedWithin ==
  ASSUME NEW T, NEW kept \in SUBSET T, NEW x \in T
  PROVE  CappedInsert(kept, x) \in SUBSET T
  BY DEF CappedInsert

LEMMA WithEventTells ==
  ASSUME NEW told \in Seq(StoreEvents), NEW e \in StoreEvents, NEW w \in Workloads,
         Tells(w, told), NEW at, at = Len(told) + 1
  PROVE  WithEvent(w, e, at) \in Workloads /\ Tells(WithEvent(w, e, at), Append(told, e))
<1> DEFINE new == WithEvent(w, e, at)
           more == Append(told, e)
           Into(set, kind) == IF e \in kind THEN CappedInsert(set, e.item) ELSE set
<1>1. /\ e \in Execs <=> e.kind = "Exec"
      /\ e \in FileEvents <=> FileEvent(e)
      /\ e \in NetEvents <=> e.kind = "Net"
      /\ e \in LibraryLoads <=> LoadsLibrary(e)
  BY DEF Execs, FileEvents, NetEvents, LibraryLoads
<1>2. LoadsLibrary(e) => FileEvent(e)
  BY DEF LoadsLibrary, FileEvent
<1>3. /\ new.commands = Into(w.commands, Execs)
      /\ new.observed_paths = Into(w.observed_paths, FileEvents)
      /\ new.network_flows = Into(w.network_flows, NetEvents)
      /\ new.loaded_libraries = Into(w.loaded_libraries, LibraryLoads)
      /\ new.signals = PushAll(w.signals, SignalsOf(e, at))
      /\ new.data_transferred_bytes = AtMost(w.data_transferred_bytes + e.size, MaxDataBytes)
  BY <1>1 DEF WithEvent
<1>4. new = [commands |-> new.commands, observed_paths |-> new.observed_paths,
             network_flows |-> new.network_flows, loaded_libraries |-> new.loaded_libraries,
             signals |-> new.signals, data_transferred_bytes |-> new.data_transferred_bytes]
  BY DEF WithEvent
<1>5. /\ w.commands \in SUBSET Commands /\ w.observed_paths \in SUBSET FilePaths
      /\ w.network_flows \in SUBSET Flows /\ w.loaded_libraries \in SUBSET FilePaths
      /\ w.data_transferred_bytes \in Nat
  BY DEF Workloads
<1> HIDE DEF new
<1>6. /\ new.commands \in SUBSET Commands /\ new.observed_paths \in SUBSET FilePaths
      /\ new.network_flows \in SUBSET Flows /\ new.loaded_libraries \in SUBSET FilePaths
  BY <1>1, <1>2, <1>3, <1>5, StoreEventFacts, InsertedWithin
<1>7. /\ FirstKept(new.commands, more, Execs) /\ FirstKept(new.observed_paths, more, FileEvents)
      /\ FirstKept(new.network_flows, more, NetEvents)
      /\ FirstKept(new.loaded_libraries, more, LibraryLoads)
  <2>1. /\ FirstKept(w.commands, told, Execs) /\ FirstKept(w.observed_paths, told, FileEvents)
        /\ FirstKept(w.network_flows, told, NetEvents)
        /\ FirstKept(w.loaded_libraries, told, LibraryLoads)
    BY DEF Tells
  <2>2. FirstKept(Into(w.commands, Execs), more, Execs)
    BY <2>1, KeptMore
  <2>3. FirstKept(Into(w.observed_paths, FileEvents), more, FileEvents)
    BY <2>1, KeptMore
  <2>4. FirstKept(Into(w.network_flows, NetEvents), more, NetEvents)
    BY <2>1, KeptMore
  <2>5. FirstKept(Into(w.loaded_libraries, LibraryLoads), more, LibraryLoads)
    BY <2>1, KeptMore
  <2> HIDE DEF Into, more
  <2> QED BY <1>3, <2>2, <2>3, <2>4, <2>5
<1>8. new.signals = LastSignals(Due(more)) /\ new.signals \in Seq(Notices)
  <2>1. Due(told) \in Seq(Notices) /\ Due(more) \in Seq(Notices)
    <3>1. more \in Seq(StoreEvents)
      BY AppendProperties
    <3> HIDE DEF more
    <3> QED BY <3>1, DueTells
  <2>2. at \in Nat
    OBVIOUS
  <2>3. SignalsOf(e, at) \in Seq(Notices)
    BY <2>2, SignalsOfOne
  <2>4. Due(more) = Due(told) \o SignalsOf(e, at)
    BY DueOneMore
  <2>5. PushAll(LastSignals(Due(told)), SignalsOf(e, at)) = LastSignals(Due(told) \o SignalsOf(e, at))
    BY <2>1, <2>3, PushedAllOntoLast
  <2>6. w.signals = LastSignals(Due(told))
    BY DEF Tells
  <2>7. PICK n \in Nat : n = Len(Due(more))
    BY <2>1
  <2>8. LastSignals(Due(more)) \in Seq(Notices)
    BY <2>1, <2>7, LastSignalsAre
  <2> HIDE DEF more
  <2> QED BY <1>3, <2>4, <2>5, <2>6, <2>8
<1>9. /\ new.data_transferred_bytes = AtMost(SumFunction(Sizes(more)), MaxDataBytes)
      /\ new.data_transferred_bytes \in Nat /\ SumFunction(Sizes(more)) \in Nat
  <2>1. SumFunction(Sizes(more)) = SumFunction(Sizes(told)) + e.size
    BY SizesOneMore
  <2>2. PICK m \in Nat, s \in Nat, b \in Nat :
          m = MaxDataBytes /\ s = SumFunction(Sizes(told)) /\ b = e.size
    BY StoreEventFacts, EvidenceStoreAssumption DEF Tells
  <2>3. w.data_transferred_bytes = AtMost(s, m)
    BY <2>2 DEF Tells
  <2>4. AtMost(AtMost(s, m) + b, m) = AtMost(s + b, m) /\ AtMost(s + b, m) \in Nat
    BY DEF AtMost
  <2> HIDE DEF more
  <2> QED BY <1>3, <2>1, <2>2, <2>3, <2>4
<1>10. new \in Workloads
  <2>1. new.signals \in Seq(Notices) /\ new.data_transferred_bytes \in Nat
    BY <1>8, <1>9
  <2> QED BY <1>4, <1>6, <2>1 DEF Workloads
<1> HIDE DEF more
<1>11. Tells(new, more)
  BY <1>7, <1>8, <1>9 DEF Tells
<1> QED BY <1>10, <1>11 DEF new, more

LEMMA StoreInitial == StoreInit => StoreInv
<1> SUFFICES ASSUME StoreInit PROVE StoreInv
  OBVIOUS
<1>1. \A g \in CgroupIds : workload[g] = WorkloadState /\ applied[g] = <<>>
  BY DEF StoreInit
<1>2. StoreTyped
  BY NothingTold DEF StoreInit, StoreTyped
<1> QED BY <1>1, <1>2, NothingTold DEF StoreInv

LEMMA ApplyKeeps ==
  ASSUME StoreInv, NEW g \in CgroupIds, NEW e \in StoreEvents, ApplyEvent(g, e)
  PROVE  StoreInv'
<1> DEFINE new == WithEvent(workload[g], e, Len(applied[g]) + 1)
           more == Append(applied[g], e)
<1>1. /\ workload \in [CgroupIds -> Workloads] /\ applied \in [CgroupIds -> Seq(StoreEvents)]
      /\ \A h \in CgroupIds : Tells(workload[h], applied[h])
  BY DEF StoreInv, StoreTyped
<1>2. workload[g] \in Workloads /\ applied[g] \in Seq(StoreEvents) /\ Tells(workload[g], applied[g])
  BY <1>1
<1>3. new \in Workloads /\ Tells(new, more)
  BY <1>2, WithEventTells
<1>4. more \in Seq(StoreEvents)
  BY <1>2, AppendProperties
<1>5. workload' = [workload EXCEPT ![g] = new] /\ applied' = [applied EXCEPT ![g] = more]
  BY DEF ApplyEvent
<1> HIDE DEF new, more
<1>6. StoreTyped'
  BY <1>1, <1>3, <1>4, <1>5 DEF StoreTyped
<1>7. ASSUME NEW h \in CgroupIds PROVE Tells(workload'[h], applied'[h])
  <2>1. CASE h = g
    <3>1. workload'[h] = new /\ applied'[h] = more
      BY <1>1, <1>5, <2>1
    <3> QED BY <1>3, <3>1
  <2>2. CASE h # g
    <3>1. workload'[h] = workload[h] /\ applied'[h] = applied[h]
      BY <1>1, <1>5, <2>2
    <3> QED BY <1>1, <3>1
  <2> QED BY <2>1, <2>2
<1>8. ASSUME NEW h \in CgroupIds PROVE Tells(workload[h], applied[h])'
  BY <1>7 DEF Tells
<1> QED BY <1>6, <1>8 DEF StoreInv

LEMMA StoreNextInv == StoreInv /\ [StoreNext]_storeVars => StoreInv'
<1> SUFFICES ASSUME StoreInv, [StoreNext]_storeVars PROVE StoreInv'
  OBVIOUS
<1>1. ASSUME NEW g \in CgroupIds, NEW e \in StoreEvents, ApplyEvent(g, e) PROVE StoreInv'
  BY <1>1, ApplyKeeps
<1>2. CASE ClearEvidence
  <2>1. \A g \in CgroupIds : workload'[g] = WorkloadState /\ applied'[g] = <<>>
    BY <1>2 DEF ClearEvidence
  <2>2. StoreTyped'
    BY <1>2, NothingTold DEF ClearEvidence, StoreTyped
  <2>3. ASSUME NEW g \in CgroupIds PROVE Tells(workload'[g], applied'[g])
    BY <2>1, NothingTold
  <2> QED BY <2>2, <2>3 DEF StoreInv
<1>3. CASE UNCHANGED storeVars
  BY <1>3 DEF StoreInv, StoreTyped, storeVars
<1> QED BY <1>1, <1>2, <1>3 DEF StoreNext

LEMMA StoreInvTells == StoreInv => EvidenceLostOnlyToLimits
<1> SUFFICES ASSUME StoreInv PROVE EvidenceLostOnlyToLimits
  OBVIOUS
<1>1. ASSUME NEW g \in CgroupIds, NEW n \in DOMAIN workload[g].signals,
             workload[g].signals[n].type = "LibraryLoaded",
             workload[g].signals[n].item \notin workload[g].loaded_libraries
      PROVE  Cardinality(workload[g].loaded_libraries) = MaxSetEntries
  <2> DEFINE w == workload[g]
             told == applied[g]
             s == w.signals[n]
  <2>1. told \in Seq(StoreEvents) /\ Tells(w, told)
    BY DEF StoreInv, StoreTyped
  <2>2. PICK k \in Nat : k = Len(Due(told))
    BY <2>1, DueTells
  <2>3. w.signals \in Seq(NoticesOf(told))
    <3>1. Due(told) \in Seq(NoticesOf(told))
      BY <2>1, DueTells
    <3>2. LastSignals(Due(told)) \in Seq(NoticesOf(told))
      BY <2>2, <3>1, LastSignalsAre
    <3> QED BY <2>1, <3>2 DEF Tells
  <2>4. s \in NoticesOf(told)
    BY <2>3
  <2>5. s.at \in DOMAIN told /\ LoadsLibrary(told[s.at]) /\ told[s.at].item = s.item
    BY <1>1, <2>4 DEF NoticesOf
  <2>6. told[s.at] \in StoreEvents
    BY <2>1, <2>5
  <2>7. s.at \in Telling(told, LibraryLoads)
    BY <2>5, <2>6 DEF Telling, LibraryLoads
  <2>8. FirstComeKept(w.loaded_libraries, told, LibraryLoads)
    BY <2>1 DEF Tells, FirstKept
  <2>9. told[s.at].item \notin w.loaded_libraries
    BY <1>1, <2>5
  <2> HIDE DEF w, told, s
  <2>10. Beyond(w.loaded_libraries, told, LibraryLoads, s.at)
    BY <2>7, <2>8, <2>9, FirstComeKeptIs
  <2> QED BY <2>10 DEF Beyond, w
<1>2. ASSUME NEW g \in CgroupIds
      PROVE  /\ FirstComeKept(workload[g].commands, applied[g], Execs)
             /\ FirstComeKept(workload[g].observed_paths, applied[g], FileEvents)
             /\ FirstComeKept(workload[g].network_flows, applied[g], NetEvents)
             /\ FirstComeKept(workload[g].loaded_libraries, applied[g], LibraryLoads)
             /\ workload[g].signals = LastSignals(Due(applied[g]))
             /\ workload[g].data_transferred_bytes =
                  AtMost(SumFunction(Sizes(applied[g])), MaxDataBytes)
  BY DEF StoreInv, Tells, FirstKept
<1> QED BY <1>1, <1>2 DEF EvidenceLostOnlyToLimits, Sizes

(* The two stores of state.rs lose only to their limits, for every limit,    *)
(* every set of workloads and of what their events tell, in any order of     *)
(* requests and events: the pages of a listing pass over no more findings    *)
(* than the ring evicted, each full set kept what came first, the signals    *)
(* are the last ones, and a library whose load is signalled is listed unless *)
(* its list was full. (state.rs)                                             *)
THEOREM LossesAreLimits == BoardSpec /\ StoreSpec => []StateLostOnlyToLimits
<1>1. BoardSpec => []PagesLoseOnlyToEviction
  BY PagesMissOnlyEvicted
<1>2. StoreSpec => []EvidenceLostOnlyToLimits
  <2>1. StoreInit => StoreInv
    BY StoreInitial
  <2>2. StoreInv /\ [StoreNext]_storeVars => StoreInv'
    BY StoreNextInv
  <2>3. StoreInv => EvidenceLostOnlyToLimits
    BY StoreInvTells
  <2> QED BY <2>1, <2>2, <2>3, PTL DEF StoreSpec
<1>3. PagesLoseOnlyToEviction /\ EvidenceLostOnlyToLimits => StateLostOnlyToLimits
  BY DEF StateLostOnlyToLimits
<1> QED BY <1>1, <1>2, <1>3, PTL
==============================================================================
