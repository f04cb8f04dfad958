----------------------------- MODULE RiskScoring -----------------------------
(***************************************************************************)
(* ExfRiskEngine of risk_engine.rs: the EXF score of a signal and the      *)
(* priority of the finding it makes, in hundredths of a point; cvss is in  *)
(* tenths, epss in percent, weight in hundredths.                          *)
(***************************************************************************)
EXTENDS Integers

CONSTANTS
  MinimumCvss,  (* of the configuration, in tenths                           *)
  MinimumEpss,  (* of the configuration, in percent                          *)
  CvssValues,   (* bound: the values a signal takes,                         *)
  EpssValues,   (* bound: some of them out of range, for the clamps          *)
  Weights       (* bound                                                     *)

ASSUME ScoringAssumption ==
  /\ MinimumCvss \in Int /\ MinimumEpss \in Int
  /\ CvssValues \subseteq Int /\ EpssValues \subseteq Int /\ Weights \subseteq Int

VARIABLE signal   (* what is known of one vulnerability of one workload      *)

Dispositions == {"Dormant", "Unknown", "Reachable"}

Signals == [cvss : CvssValues, epss : EpssValues, kev : BOOLEAN,
            runtime : Dispositions, weight : Weights]

Least(a, b) == IF a <= b THEN a ELSE b
Clamp(n, low, high) == IF n < low THEN low ELSE IF n > high THEN high ELSE n

Exposure(runtime) == CASE runtime = "Reachable" -> 200
                       [] runtime = "Dormant"   -> 50
                       [] runtime = "Unknown"   -> 75

Boost(weight) == IF weight > 0 THEN Least(weight, 300) ELSE 0

(* calculate_exf_score: 0.5 a point of cvss, 3 for epss, 1.5 for KEV.        *)
Score(s) ==
  Clamp(5 * Clamp(s.cvss, 0, 100) + 3 * Clamp(s.epss, 0, 100)
          + (IF s.kev THEN 150 ELSE 0) + Exposure(s.runtime) + Boost(s.weight),
        0, 1000)

(* The early returns of evaluate: KEV is the only way past them.             *)
Considered(s) ==
  s.kev \/ (s.cvss >= MinimumCvss /\ s.epss >= MinimumEpss /\ s.runtime = "Reachable")

(* Faulty: KEV is tested before the score.                                   *)
PriorityKevFirst(s) ==
  CASE s.kev -> 3
    [] Score(s) >= 900 -> 4
    [] Score(s) >= 800 -> 3
    [] Score(s) >= 600 -> 2
    [] Score(s) >= 400 -> 1
    [] OTHER -> 0

(* Critical 4, High 3, Medium 2, Low 1, Informational 0.                     *)
PriorityOf(s) ==
  CASE Score(s) >= 900 -> 4
    [] Score(s) < 900 /\ (s.kev \/ Score(s) >= 800) -> 3
    [] ~s.kev /\ Score(s) < 800 /\ Score(s) >= 600 -> 2
    [] ~s.kev /\ Score(s) < 600 /\ Score(s) >= 400 -> 1
    [] OTHER -> 0

(* evaluate: 0 is no finding.                                                *)
Evaluate(s) == IF Considered(s) THEN PriorityOf(s) ELSE 0
-----------------------------------------------------------------------------
ScoringInit == signal \in {s \in Signals : ~s.kev /\ s.runtime # "Reachable"}

(* What moves a signal between two rounds: the feeds (intel.rs), the scanner *)
(* (vuln_detector.rs) and the evidence of the workload (state.rs).           *)
KevListed == signal' = [signal EXCEPT !.kev = TRUE]
KevWithdrawn == signal' = [signal EXCEPT !.kev = FALSE]
EpssMoves == \E e \in EpssValues : signal' = [signal EXCEPT !.epss = e]
CvssMoves == \E c \in CvssValues : signal' = [signal EXCEPT !.cvss = c]
SeenAtRuntime == \E r \in Dispositions, w \in Weights :
  signal' = [signal EXCEPT !.runtime = r, !.weight = w]

ScoringNext == KevListed \/ KevWithdrawn \/ EpssMoves \/ CvssMoves \/ SeenAtRuntime

(* t is nowhere milder than s.                                               *)
Worsens(s, t) ==
  /\ s.cvss <= t.cvss /\ s.epss <= t.epss /\ s.weight <= t.weight
  /\ s.kev => t.kev
  /\ Exposure(s.runtime) <= Exposure(t.runtime)

(* A threat that only grows is never ranked lower, nor does its finding      *)
(* disappear: across the thresholds, the caps and the KEV rules.             *)
(* (calculate_exf_score, evaluate)                                           *)
WorseIsNeverRankedLower ==
  [][Worsens(signal, signal') => Evaluate(signal) <= Evaluate(signal')]_signal
=============================================================================
