------------------------------ MODULE Detectors ------------------------------
(***************************************************************************)
(* The statistics: the baseline and the z-score of anomaly_detector.rs for *)
(* one feature, and the score history and the trend of predictive_risk.rs  *)
(* for one CVE. Averages and variances are compared as fractions of whole  *)
(* numbers.                                                                *)
(***************************************************************************)
EXTENDS Integers, Sequences, FiniteSets, Functions

CONSTANTS
  Readings,        (* bound: values of the feature and scores, whole numbers *)
  ZThreshold,      (* threshold of the detector                              *)
  MinSamples,      (* min_samples of the detector                            *)
  Window,          (* scores averaged on each side of the trend: 5           *)
  TrendThreshold,  (* in tenths; 5, for 0.5, in the code                     *)
  MinPoints,       (* min_data_points: 5                                     *)
  MaxPoints,       (* max_history: 1000                                      *)
  MaxSamples       (* bound: readings in all                                 *)

ASSUME DetectorsAssumption ==
  /\ Readings \subseteq Nat /\ ZThreshold \in Nat \ {0} /\ MinSamples \in Nat \ {0}
  /\ Window \in Nat \ {0} /\ TrendThreshold \in Nat /\ MinPoints \in Nat
  /\ MaxPoints \in Nat \ {0} /\ MaxSamples \in Nat

VARIABLES
  samples,    (* history: the readings of the baseline since its reset       *)
  points      (* the score history of the CVE                                *)

baselineVars == <<samples>>
trendVars == <<points>>

DetectorsInit == samples = <<>> /\ points = <<>>
-----------------------------------------------------------------------------
Total(s) == SumFunction(s)
Squares(s) == SumFunction([i \in DOMAIN s |-> s[i] * s[i]])

(* n(n-1) times the variance of the samples; Welford's m2 is a part of it.   *)
Spread(s) == Len(s) * Squares(s) - Total(s) * Total(s)

(* |z_score| > threshold, which is 0 when there is no spread and takes the   *)
(* variance as 1 below two samples.                                          *)
FarFromBaseline(v, s) ==
  LET n == Len(s)
      off == n * v - Total(s)
  IN IF n < 2 THEN off * off > ZThreshold * ZThreshold
     ELSE /\ Spread(s) > 0
          /\ off * off * (n - 1) > ZThreshold * ZThreshold * Spread(s) * n

(* detect, for a reading v.                                                  *)
Anomalous(v) == Len(samples) >= MinSamples /\ FarFromBaseline(v, samples)

(* update_baseline and reset.                                                *)
Observe(v) ==
  /\ Len(samples) < MaxSamples
  /\ samples' = Append(samples, v)
  /\ UNCHANGED points

ResetBaseline == samples' = <<>> /\ UNCHANGED points

(* record, which drops the oldest score past the limit, and clear.           *)
RecordScore(v) ==
  /\ points' = IF Len(points) >= MaxPoints THEN Append(Tail(points), v) ELSE Append(points, v)
  /\ UNCHANGED samples

ClearHistory == points' = <<>> /\ UNCHANGED samples
-----------------------------------------------------------------------------
(* The last n of s after the last k are left out, fewer if there are not so  *)
(* many: iter().rev().skip(k).take(n).                                       *)
Latest(s, k, n) ==
  LET high == Len(s) - k
      low  == IF high > n THEN high - n + 1 ELSE 1
  IN IF high < 1 THEN <<>> ELSE SubSeq(s, low, high)

(* Faulty: the two windows overlap by one score.                             *)
TrendOverlapped(s) ==
  LET diff == Total(Latest(s, 0, Window)) - Total(Latest(s, Window - 1, Window - 1)) IN
    IF Len(s) < 2 THEN "Stable"
    ELSE CASE 10 * diff > TrendThreshold * Window -> "Rising"
           [] 10 * diff < -TrendThreshold * Window -> "Falling"
           [] OTHER -> "Stable"

(* calculate_trend: both sums are divided by the window, full or not.        *)
Trend(s) ==
  LET diff == Total(Latest(s, 0, Window)) - Total(Latest(s, Window, Window)) IN
    IF Len(s) < 2 THEN "Stable"
    ELSE CASE 10 * diff > TrendThreshold * Window -> "Rising"
           [] 10 * diff < -TrendThreshold * Window -> "Falling"
           [] OTHER -> "Stable"

(* get_early_warnings, for a CVE whose prediction passes the threshold.      *)
EarlyWarning == Len(points) >= MinPoints /\ Trend(points) = "Rising"

BaselineNext == (\E v \in Readings : Observe(v)) \/ ResetBaseline

TrendNext == (\E v \in Readings : RecordScore(v)) \/ ClearHistory

DetectorsSpec ==
  DetectorsInit /\ [][BaselineNext \/ TrendNext]_<<baselineVars, trendVars>>
-----------------------------------------------------------------------------
Steady(s) == Cardinality(Range(s)) <= 1

(* A workload that never changes raises nothing: with a baseline of one      *)
(* value no reading is anomalous, and scores that stay the same give no      *)
(* early warning once the history fills both windows of the trend. (Before,  *)
(* they do: the older window counts as scores of 0.)                         *)
(* (anomaly_detector.rs z_score, predictive_risk.rs calculate_trend)         *)
SteadyWorkloadsAreQuiet ==
  /\ Len(samples) >= 2 /\ Steady(samples) => \A v \in Readings : ~Anomalous(v)
  /\ Len(points) >= 2 * Window /\ Steady(Latest(points, 0, 2 * Window)) => ~EarlyWarning
=============================================================================
