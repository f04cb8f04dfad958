------------------------------ MODULE MCGuards ------------------------------
(* The parts that main builds and does not drive yet, on small instances:    *)
(* the circuit breaker, the health monitor with its metrics, the traffic     *)
(* enforcer, the safe enforcer and the seccomp response. They share no       *)
(* variable, and neither do metrics and watchdogs, so whatever one does says *)
(* nothing of another; a behaviour of this module exercises one of them and  *)
(* leaves the others at their start.                                         *)
EXTENDS CircuitBreaker, HealthMonitor, TrafficEnforcer, SafeEnforcement, SeccompResponse

VARIABLE subject

vars == <<subject, breakerVars, monitorVars, trafficVars, safeVars, responseVars>>

Init ==
  /\ BreakerInit /\ MonitorInit /\ TrafficInit /\ SafeInit /\ ResponseInit
  /\ subject \in {"breaker", "metrics", "monitor", "traffic", "safe", "response"}
  /\ subject # "traffic" => ~loaded /\ defined = {}
  /\ subject # "safe" => mode = "Audit"
  /\ subject # "response" => ~auto_seccomp

Only(name, action) ==
  /\ subject = name /\ action /\ UNCHANGED subject
  /\ name # "breaker" => UNCHANGED breakerVars
  /\ name # "metrics" => UNCHANGED metricVars
  /\ name # "monitor" => UNCHANGED <<watchVars, checkVars>>
  /\ name # "traffic" => UNCHANGED trafficVars
  /\ name # "safe" => UNCHANGED safeVars
  /\ name # "response" => UNCHANGED responseVars

(* The bound on records ends the metrics, the code never does.               *)
MetricsDone == records = MaxRecords /\ late = {} /\ UNCHANGED metricVars

Next ==
  \/ Only("breaker", BreakerNext)
  \/ Only("metrics", MetricsNext \/ MetricsDone)
  \/ Only("monitor", WatchNext)
  \/ Only("traffic", TrafficNext)
  \/ Only("safe", SafeNext)
  \/ Only("response", ResponseNext)

Spec ==
  /\ Init
  /\ [][Next]_vars
  /\ WF_vars(Only("breaker", TimePasses))
  /\ \A c \in Callers : WF_vars(Only("breaker", Caller(c)))
  /\ WF_vars(Only("monitor", Check))
  /\ WF_vars(Only("metrics", UpdateTable))

(* Two names that differ in a character that cleaning removes.               *)
McClean(c) == IF c = "CVE 1" THEN "CVE1" ELSE c

(* Room for more addresses in the first map than in the second.              *)
McSlots == [xdp |-> 2, tc |-> 1, deny |-> 1]

McWorkloadOf(f) == IF f = "f3" THEN "w2" ELSE "w1"

(* BreakerSettles, in the behaviours that exercise the circuit breaker: it   *)
(* closes for good once the service answers, and opens while it fails.       *)
BreakerConverges == subject = "breaker" => BreakerSettles

(* VerdictFollows and TableCatchesUp of HealthMonitor, in those that exercise *)
(* its watchdogs and its metrics: the verdict follows the components, and the *)
(* table the totals.                                                          *)
MonitorConverges ==
  /\ subject = "monitor" => VerdictFollows
  /\ subject = "metrics" => TableCatchesUp
=============================================================================
