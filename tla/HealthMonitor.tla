---------------------------- MODULE HealthMonitor ----------------------------
(***************************************************************************)
(* The reliability metrics, the watchdogs and the health check loop of     *)
(* reliability.rs. Components record what they do and send heartbeats; the *)
(* loop looks at one watchdog after the other and remembers a verdict.     *)
(* The totals of the metrics are atomics, written at once; the table per   *)
(* component is behind a lock and written by a task of its own, later.     *)
(***************************************************************************)
EXTENDS Naturals, FiniteSets, Functions

CONSTANTS
  Components,
  Amounts,       (* the counts record_dropped is called with                 *)
  Timeout,       (* watchdog_timeout_secs (60 in the code)                   *)
  MaxErrors,     (* max_consecutive_errors (5 in the code)                   *)
  MaxRecords     (* bound: calls of record_processed and record_dropped      *)

ASSUME MonitorAssumption ==
  /\ IsFiniteSet(Components)
  /\ Amounts \subseteq Nat
  /\ {Timeout, MaxErrors, MaxRecords} \subseteq Nat

VARIABLES
  total,        (* total_processed and total_dropped                         *)
  table,        (* metrics: the same per component                           *)
  late,         (* spawned updates of the table that have not run yet        *)
  records,      (* record_* calls so far                                     *)
  silence,      (* time since a component's last_heartbeat, at most Timeout+1 *)
  errors,       (* its consecutive_errors, at most MaxErrors                 *)
  beating,      (* components between the two writes of heartbeat            *)
  watched,      (* HealthMonitor.watchdogs                                   *)
  check,        (* check_health: [todo, fresh, worst]                        *)
  verdict       (* the status of the last finished check                     *)

metricVars == <<total, table, late, records>>
watchVars  == <<silence, errors, beating, watched>>
checkVars  == <<check, verdict>>
monitorVars == <<metricVars, watchVars, checkVars>>

Nothing == [processed |-> 0, dropped |-> 0]
NoCheck == [todo |-> {}, fresh |-> {}, worst |-> "none"]
-----------------------------------------------------------------------------
MonitorInit ==
  /\ total = Nothing
  /\ table = [k \in Components |-> Nothing]
  /\ late = {}
  /\ records = 0
  /\ silence = [k \in Components |-> 0]
  /\ errors = [k \in Components |-> 0]
  /\ beating = {}
  /\ watched = {}
  /\ check = NoCheck
  /\ verdict = "none"
-----------------------------------------------------------------------------
(* record_processed and record_dropped: the total now, the table by a task. *)
Record(k, field, amount) ==
  /\ records < MaxRecords
  /\ records' = records + 1
  /\ total' = [total EXCEPT ![field] = @ + amount]
  /\ late' = late \cup {[component |-> k, field |-> field, amount |-> amount,
                         call |-> records]}
  /\ UNCHANGED <<table, watchVars, checkVars>>

(* The tasks run in any order.                                              *)
UpdateTable ==
  \E u \in late :
    /\ late' = late \ {u}
    /\ table' = [table EXCEPT ![u.component][u.field] = @ + u.amount]
    /\ UNCHANGED <<total, records, watchVars, checkVars>>
-----------------------------------------------------------------------------
(* Watchdog: heartbeat in two writes; an error recorded between them is     *)
(* forgotten.                                                               *)
HeartbeatTime(k) ==
  /\ k \notin beating
  /\ beating' = beating \cup {k}
  /\ silence' = [silence EXCEPT ![k] = 0]
  /\ UNCHANGED <<metricVars, errors, watched, checkVars>>

HeartbeatErrors(k) ==
  /\ k \in beating
  /\ beating' = beating \ {k}
  /\ errors' = [errors EXCEPT ![k] = 0]
  /\ UNCHANGED <<metricVars, silence, watched, checkVars>>

RecordError(k) ==
  /\ errors' = [errors EXCEPT ![k] = IF @ < MaxErrors THEN @ + 1 ELSE @]
  /\ UNCHANGED <<metricVars, silence, beating, watched, checkVars>>

Silence ==
  /\ \E k \in Components : silence[k] <= Timeout
  /\ silence' = [k \in Components |-> IF silence[k] <= Timeout THEN silence[k] + 1
                                                              ELSE silence[k]]
  /\ UNCHANGED <<metricVars, errors, beating, watched, checkVars>>
-----------------------------------------------------------------------------
(* HealthMonitor. The check holds a read lock on the table of watchdogs     *)
(* until it is done; registering needs the write lock.                      *)
Register(k) ==
  /\ check = NoCheck
  /\ watched' = watched \cup {k}
  /\ UNCHANGED <<metricVars, silence, errors, beating, checkVars>>

BeginCheck ==
  /\ check = NoCheck
  /\ check' = [todo |-> watched, fresh |-> {}, worst |-> "healthy"]
  /\ UNCHANGED <<metricVars, watchVars, verdict>>

(* Faulty: the component looked at last decides. *)
WorstLast(bad) == IF bad THEN "unhealthy" ELSE "healthy"

Worst(bad) == IF bad THEN "unhealthy" ELSE check.worst

Judged(k, bad) ==
  /\ check' = [todo |-> check.todo \ {k}, fresh |-> {}, worst |-> Worst(bad)]
  /\ UNCHANGED <<metricVars, watchVars, verdict>>

(* is_healthy, first the heartbeat, then the errors.                        *)
LookAtHeartbeat(k) ==
  /\ k \in check.todo
  /\ check.fresh = {}
  /\ IF silence[k] > Timeout
       THEN Judged(k, TRUE)
       ELSE /\ check' = [check EXCEPT !.fresh = {k}]
            /\ UNCHANGED <<metricVars, watchVars, verdict>>

LookAtErrors(k) ==
  /\ k \in check.fresh
  /\ Judged(k, errors[k] >= MaxErrors)

EndCheck ==
  /\ check # NoCheck
  /\ check.todo = {}
  /\ check' = NoCheck
  /\ verdict' = check.worst
  /\ UNCHANGED <<metricVars, watchVars>>

Check == BeginCheck \/ EndCheck \/ \E k \in Components : LookAtHeartbeat(k) \/ LookAtErrors(k)
-----------------------------------------------------------------------------
MetricsNext ==
  \/ \E k \in Components :
       Record(k, "processed", 1) \/ \E n \in Amounts : Record(k, "dropped", n)
  \/ UpdateTable

WatchNext ==
  \/ \E k \in Components :
       HeartbeatTime(k) \/ HeartbeatErrors(k) \/ RecordError(k) \/ Register(k)
  \/ Silence
  \/ Check

MonitorNext == MetricsNext \/ WatchNext

(* The loop is polled, and a spawned update runs.                           *)
MonitorSpec ==
  MonitorInit /\ [][MonitorNext]_monitorVars /\ WF_monitorVars(Check) /\ WF_monitorVars(UpdateTable)
-----------------------------------------------------------------------------
(* Properties                                                              *)
TableSum(field) == SumFunction([k \in Components |-> table[k][field]])

LateSum(field) == SumFunction([u \in late |-> IF u.field = field THEN u.amount ELSE 0])

(* The totals and the table are written at different times by different     *)
(* tasks; they tell the same story: a total is the sum over the components  *)
(* and the updates still to run.                                            *)
MetricsAgree ==
  \A field \in DOMAIN total : total[field] = TableSum(field) + LateSum(field)

(* Once nothing more is recorded, every update runs and the table adds up to *)
(* the totals: nothing is recorded for good in one of them only.             *)
(* (record_processed, record_dropped)                                        *)
TableCatchesUp == <>[](\A field \in DOMAIN total : total[field] = TableSum(field))

Silent(k)  == silence[k] > Timeout
Failing(k) == errors[k] >= MaxErrors

(* The verdict follows the components, although a check looks at one value  *)
(* after the other while heartbeats and errors come in: a component that is *)
(* silent or failing for good makes it unhealthy for good, whatever the     *)
(* others do, and when all that are watched are well it is healthy. It does *)
(* not say that each error counts: one recorded between the two writes of a *)
(* heartbeat is gone. (check_health, is_healthy, heartbeat)                 *)
VerdictFollows ==
  /\ \A k \in Components :
       <>[](k \in watched /\ Silent(k)) \/ <>[](k \in watched /\ Failing(k))
         => <>[](verdict = "unhealthy")
  /\ <>[](\A k \in watched : ~Silent(k) /\ ~Failing(k)) => <>[](verdict = "healthy")
=============================================================================
