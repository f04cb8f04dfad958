---------------------------- MODULE CircuitBreaker ----------------------------
(***************************************************************************)
(* The circuit breaker of reliability.rs, shared by several callers. Each   *)
(* asks should_proceed, calls the service if it may, and records how that   *)
(* went. State, failure count and time of the last failure are three        *)
(* separate variables behind a lock or an atomic each, so every read and    *)
(* every write of one of them is a step of its own.                         *)
(*                                                                         *)
(* Nothing is bounded by counting: all that matters of the failure count is *)
(* how far it is below the threshold, and of the last failure whether it is *)
(* younger than the recovery time, as old or older, so both stop there.     *)
(***************************************************************************)
EXTENDS Naturals

CONSTANTS
  Callers,
  Threshold,   (* circuit_breaker_threshold (10 in the code)                 *)
  Recovery     (* circuit_breaker_recovery_secs (60 in the code)             *)

ASSUME BreakerAssumption ==
  /\ Threshold \in Nat \ {0}
  /\ Recovery \in Nat

Never == Recovery + 2

VARIABLES
  circuit,    (* state: "closed", "open" or "half-open"                      *)
  failures,   (* failure_count, up to Threshold                              *)
  age,        (* time since last_failure, up to Recovery + 1, or Never       *)
  at,         (* where each caller is, see Stages                            *)
  healthy     (* environment: does the service answer                        *)

breakerVars == <<circuit, failures, age, at, healthy>>

Stages ==
  {"idle",
   "age", "probe",                            (* in should_proceed           *)
   "call",                                    (* in the call itself          *)
   "succeeded", "close", "reset",             (* in record_success           *)
   "failed", "stamp", "last stamp", "trip"}   (* in record_failure           *)
-----------------------------------------------------------------------------
BreakerInit ==
  /\ circuit = "closed"
  /\ failures = 0
  /\ age = Never
  /\ at = [c \in Callers |-> "idle"]
  /\ healthy \in BOOLEAN

Step(c, from, to) ==
  /\ at[c] = from
  /\ at' = [at EXCEPT ![c] = to]
-----------------------------------------------------------------------------
(* should_proceed reads the state ...                                       *)
ReadState(c) ==
  /\ Step(c, "idle", IF circuit = "open" THEN "age" ELSE "call")
  /\ UNCHANGED <<circuit, failures, age, healthy>>

OldEnough == age >= Recovery

(* Faulty: a caller may try, and the circuit stays open. *)
ReadLastFailureOnly(c) ==
  /\ at[c] = "age"
  /\ at' = [at EXCEPT ![c] = IF OldEnough THEN "call" ELSE "idle"]
  /\ UNCHANGED <<circuit, failures, age, healthy>>

(* ... if it was open, the time of the last failure; without one it lets    *)
(* the caller proceed and leaves the state alone ...                        *)
ReadLastFailure(c) ==
  /\ at[c] = "age"
  /\ at' = [at EXCEPT ![c] = IF age = Never THEN "call"
                             ELSE IF OldEnough THEN "probe" ELSE "idle"]
  /\ UNCHANGED <<circuit, failures, age, healthy>>

(* ... and writes half-open, whatever the state is by then.                 *)
WriteHalfOpen(c) ==
  /\ Step(c, "probe", "call")
  /\ circuit' = "half-open"
  /\ UNCHANGED <<failures, age, healthy>>

Call(c) ==
  /\ Step(c, "call", IF healthy THEN "succeeded" ELSE "failed")
  /\ UNCHANGED <<circuit, failures, age, healthy>>
-----------------------------------------------------------------------------
(* record_success: two writes, and failures of others between them.        *)
ReadHalfOpen(c) ==
  /\ Step(c, "succeeded", IF circuit = "half-open" THEN "close" ELSE "idle")
  /\ UNCHANGED <<circuit, failures, age, healthy>>

WriteClosed(c, from, to) ==
  /\ Step(c, from, to)
  /\ circuit' = "closed"
  /\ UNCHANGED <<failures, age, healthy>>

ResetCount(c, from, to) ==
  /\ Step(c, from, to)
  /\ failures' = 0
  /\ UNCHANGED <<circuit, age, healthy>>

(* Faulty: the count is reset before the circuit is closed. *)
CloseAfterReset(c) == ResetCount(c, "close", "reset") \/ WriteClosed(c, "reset", "idle")

CloseAndReset(c) == WriteClosed(c, "close", "reset") \/ ResetCount(c, "reset", "idle")
-----------------------------------------------------------------------------
(* record_failure: what fetch_add returned decides, after the time has been *)
(* written, whether the circuit is opened.                                  *)
CountFailure(c) ==
  /\ Step(c, "failed", IF failures + 1 >= Threshold THEN "last stamp" ELSE "stamp")
  /\ failures' = IF failures < Threshold THEN failures + 1 ELSE failures
  /\ UNCHANGED <<circuit, age, healthy>>

Stamp(c) ==
  /\ \/ Step(c, "stamp", "idle")
     \/ Step(c, "last stamp", "trip")
  /\ age' = 0
  /\ UNCHANGED <<circuit, failures, healthy>>

Trip(c) ==
  /\ Step(c, "trip", "idle")
  /\ circuit' = "open"
  /\ UNCHANGED <<failures, age, healthy>>
-----------------------------------------------------------------------------
Caller(c) ==
  \/ ReadState(c) \/ ReadLastFailure(c) \/ WriteHalfOpen(c)
  \/ Call(c)
  \/ ReadHalfOpen(c) \/ CloseAndReset(c)
  \/ CountFailure(c) \/ Stamp(c) \/ Trip(c)

TimePasses ==
  /\ age <= Recovery
  /\ age' = age + 1
  /\ UNCHANGED <<circuit, failures, at, healthy>>

ServiceChanges ==
  /\ healthy' = ~healthy
  /\ UNCHANGED <<circuit, failures, age, at>>

BreakerNext == (\E c \in Callers : Caller(c)) \/ TimePasses \/ ServiceChanges

(* A caller that has begun goes on, and callers keep coming.                *)
BreakerSpec ==
  /\ BreakerInit
  /\ [][BreakerNext]_breakerVars
  /\ WF_breakerVars(TimePasses)
  /\ \A c \in Callers : WF_breakerVars(Caller(c))
-----------------------------------------------------------------------------
(* Properties                                                              *)

(* The state is well formed, and an open circuit has a last failure whose   *)
(* age will let it be tried again.                                          *)
BreakerTypeOK ==
  /\ circuit \in {"closed", "open", "half-open"}
  /\ failures \in 0 .. Threshold
  /\ age \in 0 .. Never
  /\ at \in [Callers -> Stages]
  /\ healthy \in BOOLEAN
  /\ circuit # "closed" => age # Never

(* A closed circuit has seen fewer failures than the threshold, unless a    *)
(* caller is just about to open it or to reset the count: however           *)
(* successes and failures interleave, no burst of failures is let through   *)
(* for good.                                                                *)
ClosedMeansBelowThreshold ==
  circuit = "closed" /\ failures >= Threshold =>
    \E c \in Callers : at[c] \in {"last stamp", "trip", "reset"}

(* Whatever races came before, once the service answers for good the        *)
(* circuit closes for good, and while it fails the circuit keeps being      *)
(* opened.                                                                  *)
BreakerSettles ==
  /\ <>[]healthy => <>[](circuit = "closed")
  /\ <>[]~healthy => []<>(circuit = "open")
=============================================================================
