----------------------------- MODULE Guards_proofs -----------------------------
(***************************************************************************)
(* What main starts and builds. For any number of callers, any threshold   *)
(* and any recovery time: the breaker is well formed and no burst of       *)
(* failures leaves it closed. For any findings: an enforced action can be  *)
(* undone, and the record of the applied profiles is complete. For any     *)
(* addresses and any maps: the kernel drops what the traffic enforcer      *)
(* lists. For every mode and every signal: the shutdown loses no work.     *)
(***************************************************************************)
EXTENDS AgentLifecycle, CircuitBreaker, HealthMonitor, TrafficEnforcer, SafeEnforcement,
        SeccompResponse, InductionFacts, SequenceTheorems, FiniteSetTheorems, TLAPS

(* A caller that is about to open the circuit, or to make it half-open, has  *)
(* seen a last failure; once there is one, it stays.                         *)
Dated == \A c \in Callers : at[c] \in {"probe", "trip"} => age # Never

BreakerInv == BreakerTypeOK /\ Dated /\ ClosedMeansBelowThreshold

LEMMA AgeFacts == Never \in Nat /\ Never > Recovery /\ Recovery \in Nat /\ 0 # Never
  BY BreakerAssumption DEF Never

LEMMA BreakerInitInv == BreakerInit => BreakerInv
<1> SUFFICES ASSUME BreakerInit PROVE BreakerInv
  OBVIOUS
<1>1. BreakerTypeOK
  BY AgeFacts, BreakerAssumption DEF BreakerInit, BreakerTypeOK, Stages
<1>2. Dated
  BY DEF BreakerInit, Dated
<1>3. ClosedMeansBelowThreshold
  BY BreakerAssumption DEF BreakerInit, ClosedMeansBelowThreshold
<1> QED BY <1>1, <1>2, <1>3 DEF BreakerInv

(* A step of a caller to another stage.                                      *)
LEMMA StepTyped ==
  ASSUME BreakerTypeOK, NEW c \in Callers, NEW from, NEW to \in Stages, Step(c, from, to)
  PROVE  /\ at' \in [Callers -> Stages]
         /\ at[c] = from /\ at'[c] = to
         /\ \A d \in Callers : d # c => at'[d] = at[d]
  BY DEF BreakerTypeOK, Step

(* Nothing changes but where c is, and not to or from a stage that matters.  *)
LEMMA QuietStep ==
  ASSUME BreakerInv, NEW c \in Callers, NEW from, NEW to \in Stages, Step(c, from, to),
         UNCHANGED <<circuit, failures, age, healthy>>,
         from \notin {"last stamp", "trip", "reset"},
         to \in {"probe", "trip"} => age # Never
  PROVE  BreakerInv'
<1>1. BreakerTypeOK /\ Dated /\ ClosedMeansBelowThreshold
  BY DEF BreakerInv
<1>2. /\ at' \in [Callers -> Stages] /\ at[c] = from /\ at'[c] = to
      /\ \A d \in Callers : d # c => at'[d] = at[d]
  BY <1>1, StepTyped
<1>3. BreakerTypeOK'
  BY <1>1, <1>2 DEF BreakerTypeOK, Never
<1>4. Dated'
  BY <1>1, <1>2 DEF Dated, Never
<1>5. ClosedMeansBelowThreshold'
  BY <1>1, <1>2 DEF ClosedMeansBelowThreshold
<1> QED BY <1>3, <1>4, <1>5 DEF BreakerInv

LEMMA ReadStateInv ==
  ASSUME BreakerInv, NEW c \in Callers, ReadState(c)
  PROVE  BreakerInv'
<1> DEFINE to == IF circuit = "open" THEN "age" ELSE "call"
<1>1. Step(c, "idle", to) /\ UNCHANGED <<circuit, failures, age, healthy>>
  BY Zenon DEF ReadState
<1>2. to \in Stages /\ to \notin {"probe", "trip"}
  BY DEF Stages
<1> HIDE DEF to
<1> QED BY <1>1, <1>2, QuietStep

LEMMA ReadLastFailureInv ==
  ASSUME BreakerInv, NEW c \in Callers, ReadLastFailure(c)
  PROVE  BreakerInv'
<1> DEFINE to == IF age = Never THEN "call" ELSE IF OldEnough THEN "probe" ELSE "idle"
<1>1. Step(c, "age", to) /\ UNCHANGED <<circuit, failures, age, healthy>>
  BY Zenon DEF ReadLastFailure, Step
<1>2. to \in Stages /\ (to \in {"probe", "trip"} => age # Never)
  BY DEF Stages
<1> HIDE DEF to
<1> QED BY <1>1, <1>2, QuietStep

LEMMA WriteHalfOpenInv ==
  ASSUME BreakerInv, NEW c \in Callers, WriteHalfOpen(c)
  PROVE  BreakerInv'
<1>1. BreakerTypeOK /\ Dated
  BY DEF BreakerInv
<1>2. /\ at' \in [Callers -> Stages] /\ at[c] = "probe" /\ at'[c] = "call"
      /\ \A d \in Callers : d # c => at'[d] = at[d]
  BY <1>1, StepTyped DEF WriteHalfOpen, Stages
<1>3. circuit' = "half-open" /\ failures' = failures /\ age' = age /\ healthy' = healthy
  BY DEF WriteHalfOpen
<1>4. BreakerTypeOK'
  BY <1>1, <1>2, <1>3 DEF BreakerTypeOK, Dated, Never
<1>5. Dated'
  BY <1>1, <1>2, <1>3 DEF Dated, Never
<1>6. ClosedMeansBelowThreshold'
  BY <1>3 DEF ClosedMeansBelowThreshold
<1> QED BY <1>4, <1>5, <1>6 DEF BreakerInv

LEMMA CallInv ==
  ASSUME BreakerInv, NEW c \in Callers, Call(c)
  PROVE  BreakerInv'
<1> DEFINE to == IF healthy THEN "succeeded" ELSE "failed"
<1>1. Step(c, "call", to) /\ UNCHANGED <<circuit, failures, age, healthy>>
  BY Zenon DEF Call
<1>2. to \in Stages /\ to \notin {"probe", "trip"}
  BY Zenon DEF Stages
<1> HIDE DEF to
<1> QED BY <1>1, <1>2, QuietStep

LEMMA ReadHalfOpenInv ==
  ASSUME BreakerInv, NEW c \in Callers, ReadHalfOpen(c)
  PROVE  BreakerInv'
<1> DEFINE to == IF circuit = "half-open" THEN "close" ELSE "idle"
<1>1. Step(c, "succeeded", to) /\ UNCHANGED <<circuit, failures, age, healthy>>
  BY Zenon DEF ReadHalfOpen
<1>2. to \in Stages /\ to \notin {"probe", "trip"}
  BY DEF Stages
<1> HIDE DEF to
<1> QED BY <1>1, <1>2, QuietStep

(* Between closing the circuit and resetting the count the caller itself is  *)
(* the witness; the reset leaves no failures.                                *)
LEMMA CloseAndResetInv ==
  ASSUME BreakerInv, NEW c \in Callers, CloseAndReset(c)
  PROVE  BreakerInv'
<1>1. BreakerTypeOK /\ Dated /\ ClosedMeansBelowThreshold
  BY DEF BreakerInv
<1>2. CASE WriteClosed(c, "close", "reset")
  <2>1. /\ at' \in [Callers -> Stages] /\ at'[c] = "reset"
        /\ \A d \in Callers : d # c => at'[d] = at[d]
    BY <1>1, <1>2, StepTyped DEF WriteClosed, Stages
  <2>2. circuit' = "closed" /\ failures' = failures /\ age' = age /\ healthy' = healthy
    BY <1>2 DEF WriteClosed
  <2>3. BreakerTypeOK'
    BY <1>1, <2>1, <2>2 DEF BreakerTypeOK, Never
  <2>4. Dated'
    BY <1>1, <2>1, <2>2 DEF Dated, Never
  <2>5. ClosedMeansBelowThreshold'
    BY <2>1 DEF ClosedMeansBelowThreshold
  <2> QED BY <2>3, <2>4, <2>5 DEF BreakerInv
<1>3. CASE ResetCount(c, "reset", "idle")
  <2>1. /\ at' \in [Callers -> Stages] /\ at'[c] = "idle"
        /\ \A d \in Callers : d # c => at'[d] = at[d]
    BY <1>1, <1>3, StepTyped DEF ResetCount, Stages
  <2>2. circuit' = circuit /\ failures' = 0 /\ age' = age /\ healthy' = healthy
    BY <1>3 DEF ResetCount
  <2>3. BreakerTypeOK'
    BY <1>1, <2>1, <2>2, BreakerAssumption DEF BreakerTypeOK, Never
  <2>4. Dated'
    BY <1>1, <2>1, <2>2 DEF Dated, Never
  <2>5. ClosedMeansBelowThreshold'
    <3>1. ~(0 >= Threshold)
      BY BreakerAssumption
    <3> QED BY <2>2, <3>1 DEF ClosedMeansBelowThreshold
  <2> QED BY <2>3, <2>4, <2>5 DEF BreakerInv
<1> QED BY <1>2, <1>3 DEF CloseAndReset

(* The failure that reaches the threshold makes its caller the witness.      *)
LEMMA CountFailureInv ==
  ASSUME BreakerInv, NEW c \in Callers, CountFailure(c)
  PROVE  BreakerInv'
<1> DEFINE to == IF failures + 1 >= Threshold THEN "last stamp" ELSE "stamp"
<1>1. BreakerTypeOK /\ Dated /\ ClosedMeansBelowThreshold
  BY DEF BreakerInv
<1>2. to \in {"last stamp", "stamp"} /\ to \in Stages
  BY DEF Stages
<1>3. Step(c, "failed", to)
  BY DEF CountFailure
<1> HIDE DEF to
<1>4. /\ at' \in [Callers -> Stages] /\ at[c] = "failed" /\ at'[c] = to
      /\ \A d \in Callers : d # c => at'[d] = at[d]
  BY <1>1, <1>2, <1>3, StepTyped
<1>5. /\ failures' = (IF failures < Threshold THEN failures + 1 ELSE failures)
      /\ circuit' = circuit /\ age' = age /\ healthy' = healthy
  BY DEF CountFailure
<1>6. failures \in 0 .. Threshold /\ failures' \in 0 .. Threshold
  BY <1>1, <1>5, BreakerAssumption DEF BreakerTypeOK
<1>7. BreakerTypeOK'
  BY <1>1, <1>4, <1>5, <1>6 DEF BreakerTypeOK, Never
<1>8. Dated'
  BY <1>1, <1>2, <1>4, <1>5 DEF Dated, Never
<1>9. ClosedMeansBelowThreshold'
  <2> SUFFICES ASSUME failures' >= Threshold
               PROVE  \E d \in Callers : at'[d] \in {"last stamp", "trip", "reset"}
    BY DEF ClosedMeansBelowThreshold
  <2>1. failures + 1 >= Threshold
    BY <1>5, <1>6, BreakerAssumption
  <2>2. to = "last stamp"
    BY <2>1 DEF to
  <2> QED BY <2>2, <1>4
<1> QED BY <1>7, <1>8, <1>9 DEF BreakerInv

LEMMA StampInv ==
  ASSUME BreakerInv, NEW c \in Callers, Stamp(c)
  PROVE  BreakerInv'
<1>1. BreakerTypeOK /\ Dated /\ ClosedMeansBelowThreshold
  BY DEF BreakerInv
<1>2. age' = 0 /\ circuit' = circuit /\ failures' = failures /\ healthy' = healthy
  BY DEF Stamp
<1>3. /\ at' \in [Callers -> Stages]
      /\ at[c] = "last stamp" => at'[c] = "trip"
      /\ at[c] \in {"stamp", "last stamp"}
      /\ \A d \in Callers : d # c => at'[d] = at[d]
  <2>1. CASE Step(c, "stamp", "idle")
    <3>1. "idle" \in Stages
      BY DEF Stages
    <3>2. /\ at' \in [Callers -> Stages] /\ at[c] = "stamp"
          /\ \A d \in Callers : d # c => at'[d] = at[d]
      BY <1>1, <2>1, <3>1, StepTyped, Zenon
    <3> QED BY <3>2
  <2>2. CASE Step(c, "last stamp", "trip")
    <3>1. "trip" \in Stages
      BY DEF Stages
    <3>2. /\ at' \in [Callers -> Stages] /\ at[c] = "last stamp" /\ at'[c] = "trip"
          /\ \A d \in Callers : d # c => at'[d] = at[d]
      BY <1>1, <2>2, <3>1, StepTyped, Zenon
    <3> QED BY <3>2
  <2> QED BY <2>1, <2>2 DEF Stamp
<1>4. age' # Never' /\ age' \in 0 .. Never'
  BY <1>2, AgeFacts DEF Never
<1>5. BreakerTypeOK'
  BY <1>1, <1>2, <1>3, <1>4 DEF BreakerTypeOK
<1>6. Dated'
  BY <1>4 DEF Dated
<1>7. ClosedMeansBelowThreshold'
  BY <1>1, <1>2, <1>3 DEF ClosedMeansBelowThreshold
<1> QED BY <1>5, <1>6, <1>7 DEF BreakerInv

LEMMA TripInv ==
  ASSUME BreakerInv, NEW c \in Callers, Trip(c)
  PROVE  BreakerInv'
<1>1. BreakerTypeOK /\ Dated
  BY DEF BreakerInv
<1>2. /\ at' \in [Callers -> Stages] /\ at[c] = "trip" /\ at'[c] = "idle"
      /\ \A d \in Callers : d # c => at'[d] = at[d]
  BY <1>1, StepTyped DEF Trip, Stages
<1>3. circuit' = "open" /\ failures' = failures /\ age' = age /\ healthy' = healthy
  BY DEF Trip
<1>4. BreakerTypeOK'
  BY <1>1, <1>2, <1>3 DEF BreakerTypeOK, Dated, Never
<1>5. Dated'
  BY <1>1, <1>2, <1>3 DEF Dated, Never
<1>6. ClosedMeansBelowThreshold'
  BY <1>3 DEF ClosedMeansBelowThreshold
<1> QED BY <1>4, <1>5, <1>6 DEF BreakerInv

LEMMA TimePassesInv == ASSUME BreakerInv, TimePasses PROVE BreakerInv'
<1>1. BreakerTypeOK /\ Dated /\ ClosedMeansBelowThreshold
  BY DEF BreakerInv
<1>2. /\ circuit' = circuit /\ failures' = failures /\ at' = at /\ healthy' = healthy
      /\ age <= Recovery /\ age' = age + 1
  BY DEF TimePasses
<1>3. age' \in 0 .. Never' /\ age' # Never'
  BY <1>1, <1>2, AgeFacts DEF BreakerTypeOK, Never
<1>4. BreakerTypeOK'
  BY <1>1, <1>2, <1>3 DEF BreakerTypeOK
<1>5. Dated'
  BY <1>3 DEF Dated
<1>6. ClosedMeansBelowThreshold'
  BY <1>1, <1>2 DEF ClosedMeansBelowThreshold
<1> QED BY <1>4, <1>5, <1>6 DEF BreakerInv

LEMMA ServiceChangesInv == ASSUME BreakerInv, ServiceChanges PROVE BreakerInv'
<1>1. BreakerTypeOK /\ Dated /\ ClosedMeansBelowThreshold
  BY DEF BreakerInv
<1>2. circuit' = circuit /\ failures' = failures /\ at' = at /\ age' = age
  BY DEF ServiceChanges
<1>3. healthy' \in BOOLEAN
  BY DEF ServiceChanges
<1>4. BreakerTypeOK'
  BY <1>1, <1>2, <1>3 DEF BreakerTypeOK, Never
<1>5. Dated'
  BY <1>1, <1>2 DEF Dated, Never
<1>6. ClosedMeansBelowThreshold'
  BY <1>1, <1>2 DEF ClosedMeansBelowThreshold
<1> QED BY <1>4, <1>5, <1>6 DEF BreakerInv

LEMMA StutterInv == ASSUME BreakerInv, UNCHANGED breakerVars PROVE BreakerInv'
  BY DEF BreakerInv, breakerVars, BreakerTypeOK, Dated, ClosedMeansBelowThreshold, Never

LEMMA BreakerStepInv == BreakerInv /\ [BreakerNext]_breakerVars => BreakerInv'
<1> SUFFICES ASSUME BreakerInv, [BreakerNext]_breakerVars PROVE BreakerInv'
  OBVIOUS
<1>1. ASSUME NEW c \in Callers, Caller(c) PROVE BreakerInv'
  BY <1>1, ReadStateInv, ReadLastFailureInv, WriteHalfOpenInv, CallInv, ReadHalfOpenInv,
     CloseAndResetInv, CountFailureInv, StampInv, TripInv DEF Caller
<1>2. CASE TimePasses BY <1>2, TimePassesInv
<1>3. CASE ServiceChanges BY <1>3, ServiceChangesInv
<1>4. CASE UNCHANGED breakerVars BY <1>4, StutterInv
<1> QED BY <1>1, <1>2, <1>3, <1>4 DEF BreakerNext

LEMMA BreakerInvariant == BreakerSpec => []BreakerInv
  BY BreakerInitInv, BreakerStepInv, PTL DEF BreakerSpec

(* An open or half-open circuit has a last failure whose age will let a      *)
(* caller try again, whatever the callers have read and not yet written.     *)
THEOREM BreakerTyped == BreakerSpec => []BreakerTypeOK
<1>1. BreakerInv => BreakerTypeOK
  BY DEF BreakerInv
<1> QED BY <1>1, BreakerInvariant, PTL

(* However the reads and writes of any number of callers interleave, a       *)
(* closed circuit with a full count has a caller about to open it or to      *)
(* reset the count.                                                          *)
THEOREM NoBurstStaysClosed == BreakerSpec => []ClosedMeansBelowThreshold
<1>1. BreakerInv => ClosedMeansBelowThreshold
  BY DEF BreakerInv
<1> QED BY <1>1, BreakerInvariant, PTL
-----------------------------------------------------------------------------
(* SafeEnforcer.                                                             *)
SafeSpec == SafeInit /\ [][SafeNext]_safeVars

Action == [cve : Cves, gap : Nat, gate : Checks]

SafeTypeOK ==
  /\ mode \in {"Audit", "Warn", "Enforce"}
  /\ applied \in [Names -> Nat]
  /\ taken \in Seq(Action)
  /\ remaining \in Nat /\ idle \in Nat

(* The cooldown runs out when the time since the last action has grown to    *)
(* it, so an action that is let through comes a cooldown after the last one. *)
CooldownIsIdleTime == remaining + idle = Cooldown

SafeInv == SafeTypeOK /\ CooldownIsIdleTime /\ LostOnlyToALaterAction

LEMMA NamesClean == \A c \in Cves : CleanName(c) \in Names
  BY DEF Names

LEMMA SafeInitInv == SafeInit => SafeInv
<1> SUFFICES ASSUME SafeInit PROVE SafeInv
  OBVIOUS
<1>1. SafeTypeOK /\ CooldownIsIdleTime
  BY SafeAssumption DEF SafeInit, SafeTypeOK, CooldownIsIdleTime
<1>2. LostOnlyToALaterAction
  BY DEF SafeInit, LostOnlyToALaterAction
<1> QED BY <1>1, <1>2 DEF SafeInv

LEMMA TakenAppended ==
  ASSUME SafeTypeOK, NEW a \in Action, taken' = Append(taken, a)
  PROVE  /\ Len(taken) \in Nat /\ Len(taken') = Len(taken) + 1
         /\ taken'[Len(taken) + 1] = a
         /\ \A n \in 1 .. Len(taken) : taken'[n] = taken[n] /\ taken[n] \in Action
         /\ taken' \in Seq(Action)
  BY DEF SafeTypeOK

(* An action that is taken.                                                  *)
LEMMA ActionInv ==
  ASSUME SafeInv, NEW c \in Cves, NEW f \in Checks, Enforce(c, f), ShouldEnforce(f), CooledDown
  PROVE  SafeInv'
<1> DEFINE action == [cve |-> c, gap |-> idle, gate |-> f]
           last == Len(taken) + 1
           name == CleanName(c)
<1>1. /\ taken' = Append(taken, action)
      /\ applied' = [applied EXCEPT ![name] = last]
      /\ remaining' = Cooldown /\ idle' = 0 /\ mode' = mode
  BY DEF Enforce, Recorded
<1>2. action \in Action
  BY DEF SafeInv, SafeTypeOK, Action
<1>3. action.cve = c /\ action.gap = idle /\ action.gate = f
  OBVIOUS
<1> HIDE DEF action
<1>4. /\ Len(taken) \in Nat /\ Len(taken') = last
      /\ taken'[last] = action
      /\ \A n \in 1 .. Len(taken) : taken'[n] = taken[n] /\ taken[n] \in Action
      /\ taken' \in Seq(Action)
  BY <1>1, <1>2, TakenAppended DEF SafeInv
<1>5. name \in Names
  BY NamesClean
<1>6. SafeTypeOK'
  BY <1>1, <1>4, <1>5, SafeAssumption DEF SafeInv, SafeTypeOK
<1>7. CooldownIsIdleTime'
  BY <1>1, SafeAssumption DEF CooldownIsIdleTime
<1>8. /\ applied'[name] = last
      /\ \A n \in Names : n # name => applied'[n] = applied[n]
  BY <1>1, <1>5 DEF SafeInv, SafeTypeOK
<1>9. idle = Cooldown
  BY SafeAssumption DEF SafeInv, SafeTypeOK, CooldownIsIdleTime, CooledDown
<1> HIDE DEF name, last
<1>10. ASSUME NEW n \in 1 .. Len(taken')
       PROVE  /\ n > 1 => taken'[n].gap >= Cooldown
              /\ ProductionSafe(taken'[n].gate) /\ taken'[n].gate.critical
  <2>1. CASE n = last
    BY <1>3, <1>4, <1>9, <2>1, SafeAssumption DEF ShouldEnforce
  <2>2. CASE n # last
    <3>1. n \in 1 .. Len(taken) /\ taken'[n] = taken[n]
      BY <1>4, <2>2 DEF last
    <3> QED BY <3>1 DEF SafeInv, LostOnlyToALaterAction
  <2> QED BY <2>1, <2>2
<1>11. ASSUME NEW n \in 1 .. Len(taken'),
              NEW later, later = {m \in (n + 1) .. Len(taken') :
                                    CleanName(taken'[m].cve) = CleanName(taken'[n].cve)}
       PROVE  IF later = {} THEN applied'[CleanName(taken'[n].cve)] = n
                            ELSE applied'[CleanName(taken'[n].cve)] \in later
  <2>1. CASE n = last
    <3>1. later = {}
      BY <1>4, <1>11, <2>1 DEF last
    <3> QED BY <1>3, <1>4, <1>8, <2>1, <3>1 DEF name
  <2>2. CASE n # last /\ CleanName(taken'[n].cve) = name
    <3>1. last \in later
      BY <1>3, <1>4, <1>11, <2>2 DEF last, name
    <3> QED BY <1>8, <2>2, <3>1
  <2>3. CASE n # last /\ CleanName(taken'[n].cve) # name
    <3> DEFINE before == {m \in (n + 1) .. Len(taken) :
                            CleanName(taken[m].cve) = CleanName(taken[n].cve)}
    <3>1. n \in 1 .. Len(taken) /\ taken'[n] = taken[n] /\ taken[n] \in Action
      BY <1>4, <2>3 DEF last
    <3>2. later = before
      <4>1. CleanName(taken'[last].cve) = name
        BY <1>3, <1>4 DEF name
      <4>2. (n + 1) .. Len(taken') = ((n + 1) .. Len(taken)) \cup {last}
        BY <1>4, <3>1 DEF last
      <4>3. \A m \in (n + 1) .. Len(taken) : taken'[m] = taken[m]
        BY <1>4, <3>1
      <4> QED BY <1>11, <2>3, <3>1, <4>1, <4>2, <4>3
    <3>3. CleanName(taken[n].cve) \in Names
      BY <3>1, NamesClean DEF Action
    <3>4. IF before = {} THEN applied[CleanName(taken[n].cve)] = n
                         ELSE applied[CleanName(taken[n].cve)] \in before
      BY <3>1 DEF SafeInv, LostOnlyToALaterAction, Rollback
    <3> HIDE DEF before
    <3> QED BY <1>8, <2>3, <3>1, <3>2, <3>3, <3>4
  <2> QED BY <2>1, <2>2, <2>3
<1>12. LostOnlyToALaterAction'
  BY <1>10, <1>11 DEF LostOnlyToALaterAction, Rollback
<1> QED BY <1>6, <1>7, <1>12 DEF SafeInv

LEMMA SafeStepInv == SafeInv /\ [SafeNext]_safeVars => SafeInv'
<1> SUFFICES ASSUME SafeInv, [SafeNext]_safeVars PROVE SafeInv'
  OBVIOUS
<1>1. ASSUME NEW c \in Cves, NEW f \in Checks, Enforce(c, f), ShouldEnforce(f) /\ CooledDown
      PROVE  SafeInv'
  BY <1>1, ActionInv
<1>2. ASSUME UNCHANGED <<mode, applied, taken>>, remaining' \in Nat, idle' \in Nat,
             remaining' + idle' = Cooldown
      PROVE  SafeInv'
  BY <1>2 DEF SafeInv, SafeTypeOK, CooldownIsIdleTime, LostOnlyToALaterAction, Rollback
<1>3. ASSUME NEW c \in Cves, NEW f \in Checks, Enforce(c, f), ~(ShouldEnforce(f) /\ CooledDown)
      PROVE  SafeInv'
  BY <1>2, <1>3 DEF Enforce, SafeInv, SafeTypeOK, CooldownIsIdleTime
<1>4. ASSUME SafeTick PROVE SafeInv'
  <2>1. idle < Cooldown /\ remaining \in Nat /\ idle \in Nat /\ remaining > 0
    BY <1>4, SafeAssumption DEF SafeTick, SafeInv, SafeTypeOK, CooldownIsIdleTime
  <2> QED BY <1>2, <1>4, <2>1, SafeAssumption DEF SafeTick, SafeInv, CooldownIsIdleTime
<1>5. CASE UNCHANGED safeVars
  BY <1>2, <1>5 DEF safeVars, SafeInv, SafeTypeOK, CooldownIsIdleTime
<1> QED BY <1>1, <1>3, <1>4, <1>5 DEF SafeNext

(* For any findings, any way of cleaning names that is stable, and any       *)
(* cooldown: rollback undoes the last action of a name; an earlier one is    *)
(* lost to a later one at least a cooldown after it. (enforce, rollback)     *)
THEOREM ActionsCanBeUndone == SafeSpec => []LostOnlyToALaterAction
<1>1. SafeInv => LostOnlyToALaterAction
  BY DEF SafeInv
<1> QED BY <1>1, SafeInitInv, SafeStepInv, PTL DEF SafeSpec
-----------------------------------------------------------------------------
(* EnforcementController.                                                    *)
ResponseSpec == ResponseInit /\ [][ResponseNext]_responseVars

Words == {"Generate", "Apply", "Profile", "BlockEgress", "Notify"}

(* A status is stored right before its profile, and a profile is generated   *)
(* as an application right after its status.                                 *)
Paired(todo) ==
  /\ todo \in Seq(Words)
  /\ \A i \in 1 .. Len(todo) : todo[i] = "Apply" =>
       i + 1 \in 1 .. Len(todo) /\ todo[i + 1] = "Profile"
  /\ \A i \in 1 .. Len(todo) : i > 1 /\ todo[i] = "Profile" => todo[i - 1] = "Apply"

ResponseTypeOK ==
  /\ auto_seccomp \in BOOLEAN
  /\ baseline \in [Workloads -> SUBSET (Essential \cup Syscalls)]
  /\ statuses \in [Workloads -> Seq({"Applying"})]
  /\ response \in [Findings -> [todo : Seq(Words), floor : SUBSET (Essential \cup Syscalls)]]
  /\ applications \in [Workloads -> Nat]

(* What a response began from is still part of the baseline.                 *)
FloorsHold ==
  \A f \in Findings : response[f].floor \subseteq baseline[WorkloadOf(f)]

Between(f) == response[f].todo # <<>> /\ Head(response[f].todo) = "Profile"

Underway(w) == {f \in Findings : WorkloadOf(f) = w /\ Between(f)}

StatusesCount ==
  \A w \in Workloads : Len(statuses[w]) = applications[w] + Cardinality(Underway(w))

ProfilesAllow == \A p \in profiles : Essential \union p.floor \subseteq p.names

ResponseInv ==
  /\ ResponseTypeOK
  /\ \A f \in Findings : Paired(response[f].todo)
  /\ FloorsHold /\ StatusesCount /\ ProfilesAllow

LEMMA InvIsRecord == ResponseInv => ApplicationsOnRecord
<1> SUFFICES ASSUME ResponseInv, NEW w \in Workloads
             PROVE  /\ Len(statuses[w]) = applications[w] + Cardinality(Underway(w))
                    /\ \A i \in 1 .. Len(statuses[w]) : statuses[w][i] = "Applying"
                    /\ ProfilesAllow
  BY DEF ApplicationsOnRecord, Underway, Between, ProfilesAllow
<1>1. statuses[w] \in Seq({"Applying"})
  BY DEF ResponseInv, ResponseTypeOK
<1> QED BY <1>1 DEF ResponseInv, StatusesCount

LEMMA UnderwayFinite == \A w : IsFiniteSet(Underway(w)) /\ Cardinality(Underway(w)) \in Nat
<1> SUFFICES ASSUME NEW w
             PROVE  IsFiniteSet(Underway(w)) /\ Cardinality(Underway(w)) \in Nat
  OBVIOUS
<1>1. Underway(w) \in SUBSET Findings /\ IsFiniteSet(Findings)
  BY ResponseAssumption DEF Underway
<1> QED BY <1>1, FS_Subset, FS_CardinalityType

LEMMA TailPaired ==
  ASSUME NEW todo, Paired(todo), todo # <<>>
  PROVE  /\ Paired(Tail(todo))
         /\ Head(todo) \in Words
         /\ Head(todo) = "Apply" => Tail(todo) # <<>> /\ Head(Tail(todo)) = "Profile"
         /\ Head(todo) # "Apply" /\ Tail(todo) # <<>> => Head(Tail(todo)) # "Profile"
<1>1. todo \in Seq(Words) /\ Len(todo) \in Nat /\ Len(todo) > 0
  BY DEF Paired
<1>2. /\ Tail(todo) \in Seq(Words) /\ Len(Tail(todo)) = Len(todo) - 1
      /\ \A i \in 1 .. Len(todo) - 1 : Tail(todo)[i] = todo[i + 1]
      /\ Head(todo) = todo[1]
  BY <1>1
<1>3. Paired(Tail(todo))
  <2>1. ASSUME NEW i \in 1 .. Len(todo) - 1, Tail(todo)[i] = "Apply"
        PROVE  i + 1 \in 1 .. Len(todo) - 1 /\ Tail(todo)[i + 1] = "Profile"
    <3>1. i + 1 \in 1 .. Len(todo) /\ todo[i + 1] = "Apply"
      BY <1>1, <1>2, <2>1
    <3>2. (i + 1) + 1 \in 1 .. Len(todo) /\ todo[(i + 1) + 1] = "Profile"
      BY <3>1 DEF Paired
    <3>3. i + 1 \in 1 .. Len(todo) - 1
      BY <1>1, <3>2
    <3> QED BY <1>2, <3>2, <3>3
  <2>2. ASSUME NEW i \in 1 .. Len(todo) - 1, i > 1, Tail(todo)[i] = "Profile"
        PROVE  Tail(todo)[i - 1] = "Apply"
    <3>1. i + 1 \in 1 .. Len(todo) /\ i + 1 > 1 /\ todo[i + 1] = "Profile"
      BY <1>1, <1>2, <2>2
    <3>2. todo[(i + 1) - 1] = "Apply"
      BY <3>1 DEF Paired
    <3>3. i - 1 \in 1 .. Len(todo) - 1 /\ (i - 1) + 1 = (i + 1) - 1
      BY <1>1, <2>2
    <3> QED BY <1>2, <3>2, <3>3
  <2> QED BY <1>2, <2>1, <2>2 DEF Paired
<1>4. Head(todo) = "Apply" => Tail(todo) # <<>> /\ Head(Tail(todo)) = "Profile"
  <2> SUFFICES ASSUME todo[1] = "Apply" PROVE Tail(todo) # <<>> /\ Tail(todo)[1] = "Profile"
    BY <1>2
  <2>1. 2 \in 1 .. Len(todo) /\ todo[2] = "Profile"
    BY <1>1 DEF Paired
  <2>2. 1 \in 1 .. Len(todo) - 1
    BY <1>1, <2>1
  <2>3. Tail(todo)[1] = todo[2]
    BY <1>1, <2>2
  <2>4. Tail(todo) # <<>>
    <3>1. Len(Tail(todo)) = Len(todo) - 1 /\ Len(todo) >= 2
      BY <1>1, <1>2, <2>1
    <3>2. Len(Tail(todo)) # 0
      BY <1>1, <3>1
    <3>3. Len(<<>>) = 0
      OBVIOUS
    <3> QED BY <3>2, <3>3
  <2> QED BY <2>1, <2>3, <2>4
<1>5. Head(todo) # "Apply" /\ Tail(todo) # <<>> => Head(Tail(todo)) # "Profile"
  <2> SUFFICES ASSUME todo[1] # "Apply", Tail(todo) # <<>> PROVE Tail(todo)[1] # "Profile"
    BY <1>2
  <2>1. 2 \in 1 .. Len(todo) /\ Tail(todo)[1] = todo[2]
    BY <1>1, <1>2
  <2>2. todo[2] # "Profile"
    BY <1>1, <2>1 DEF Paired
  <2> QED BY <2>1, <2>2
<1> QED BY <1>1, <1>2, <1>3, <1>4, <1>5

LEMMA ActionsPaired ==
  ASSUME NEW p
  PROVE  Paired(Actions(p)) /\ Actions(p) # <<>> /\ Head(Actions(p)) # "Profile"
<1>1. CASE p = "Critical" /\ auto_seccomp
  <2>1. Actions(p) = <<"Generate", "Apply", "Profile", "BlockEgress">>
    BY <1>1 DEF Actions
  <2> QED BY <2>1 DEF Paired, Words
<1>2. CASE p = "Critical" /\ ~auto_seccomp
  <2>1. Actions(p) = <<"Generate", "BlockEgress">>
    BY <1>2 DEF Actions
  <2> QED BY <2>1 DEF Paired, Words
<1>3. CASE p = "High"
  <2>1. Actions(p) = <<"Generate", "Notify">>
    BY <1>3 DEF Actions
  <2> QED BY <2>1 DEF Paired, Words
<1>4. CASE p \notin {"Critical", "High"}
  <2>1. Actions(p) = <<"Notify">>
    BY <1>4 DEF Actions
  <2> QED BY <2>1 DEF Paired, Words
<1> QED BY <1>1, <1>2, <1>3, <1>4

(* A step of the response to f that leaves every list of statuses, of        *)
(* applications and of profiles as it is, and no other finding between.      *)
LEMMA UnderwaySame ==
  ASSUME NEW w, \A g \in Findings : Between(g)' <=> Between(g)
  PROVE  Underway(w)' = Underway(w)
  BY DEF Underway

LEMMA AdvanceFacts ==
  ASSUME ResponseInv, NEW f \in Findings, response[f].todo # <<>>, Advance(f)
  PROVE  /\ response' \in [Findings -> [todo : Seq(Words), floor : SUBSET (Essential \cup Syscalls)]]
         /\ response'[f].todo = Tail(response[f].todo)
         /\ \A g \in Findings : response'[g].floor = response[g].floor
         /\ \A g \in Findings : g # f => response'[g] = response[g]
         /\ \A g \in Findings : Paired(response'[g].todo)
         /\ Head(response[f].todo) = "Apply" => Between(f)'
         /\ Head(response[f].todo) # "Apply" => ~Between(f)'
<1>1. response \in [Findings -> [todo : Seq(Words), floor : SUBSET (Essential \cup Syscalls)]]
  BY DEF ResponseInv, ResponseTypeOK
<1>2. /\ Paired(Tail(response[f].todo))
      /\ Head(response[f].todo) = "Apply" =>
           Tail(response[f].todo) # <<>> /\ Head(Tail(response[f].todo)) = "Profile"
      /\ Head(response[f].todo) # "Apply" /\ Tail(response[f].todo) # <<>> =>
           Head(Tail(response[f].todo)) # "Profile"
  BY TailPaired DEF ResponseInv
<1>3. Tail(response[f].todo) \in Seq(Words)
  BY <1>2 DEF Paired
<1>4. /\ response' \in [Findings -> [todo : Seq(Words), floor : SUBSET (Essential \cup Syscalls)]]
      /\ response'[f].todo = Tail(response[f].todo)
      /\ response'[f].floor = response[f].floor
      /\ \A g \in Findings : g # f => response'[g] = response[g]
  BY <1>1, <1>3 DEF Advance
<1>5. \A g \in Findings : Paired(response'[g].todo)
  BY <1>2, <1>4 DEF ResponseInv
<1> QED BY <1>2, <1>4, <1>5 DEF Between

(* A generated profile allows what the baseline holds.                       *)
LEMMA GenerateInv ==
  ASSUME ResponseInv, NEW f \in Findings, Generate(f) PROVE ResponseInv'
<1> DEFINE w == WorkloadOf(f)
<1>1. /\ response[f].todo # <<>> /\ Advance(f)
      /\ Head(response[f].todo) \in {"Generate", "Profile"}
      /\ profiles' = profiles \union
           {[workload |-> w, floor |-> response[f].floor, names |-> Allowed(w)]}
      /\ auto_seccomp' = auto_seccomp /\ baseline' = baseline /\ statuses' = statuses
  BY DEF Generate
<1>2. w \in Workloads
  BY ResponseAssumption
<1>3. applications' = IF Between(f) THEN [applications EXCEPT ![w] = @ + 1] ELSE applications
  BY <1>1 DEF Generate, Between
<1> HIDE DEF w
<1>4. /\ response' \in [Findings -> [todo : Seq(Words), floor : SUBSET (Essential \cup Syscalls)]]
      /\ \A g \in Findings : response'[g].floor = response[g].floor
      /\ \A g \in Findings : g # f => response'[g] = response[g]
      /\ \A g \in Findings : Paired(response'[g].todo)
      /\ ~Between(f)'
  BY <1>1, AdvanceFacts
<1>5. \A g \in Findings : g # f => (Between(g)' <=> Between(g))
  BY <1>4 DEF Between
<1>6. applications' \in [Workloads -> Nat]
  BY <1>2, <1>3 DEF ResponseInv, ResponseTypeOK
<1>7. ResponseTypeOK'
  BY <1>1, <1>4, <1>6 DEF ResponseInv, ResponseTypeOK
<1>8. FloorsHold'
  BY <1>1, <1>4 DEF ResponseInv, FloorsHold
<1>9. ProfilesAllow'
  <2>1. Essential \union response[f].floor \subseteq Allowed(w)
    BY DEF ResponseInv, FloorsHold, Allowed, w
  <2> QED BY <1>1, <2>1 DEF ResponseInv, ProfilesAllow
<1>10. StatusesCount'
  <2> SUFFICES ASSUME NEW v \in Workloads
               PROVE  Len(statuses[v]) = applications'[v] + Cardinality(Underway(v)')
    BY <1>1 DEF StatusesCount
  <2>0. /\ Len(statuses[v]) = applications[v] + Cardinality(Underway(v))
        /\ IsFiniteSet(Underway(v)) /\ Cardinality(Underway(v)) \in Nat
        /\ applications[v] \in Nat
    BY UnderwayFinite DEF ResponseInv, StatusesCount, ResponseTypeOK
  <2>1. CASE Between(f) /\ v = w
    <3>1. Underway(v)' = Underway(v) \ {f} /\ f \in Underway(v)
      BY <1>4, <1>5, <2>1 DEF Underway, w
    <3>2. Cardinality(Underway(v)') = Cardinality(Underway(v)) - 1
      BY <2>0, <3>1, FS_RemoveElement
    <3>3. applications'[v] = applications[v] + 1
      BY <1>2, <1>3, <2>1 DEF ResponseInv, ResponseTypeOK
    <3> QED BY <2>0, <3>2, <3>3
  <2>2. CASE ~(Between(f) /\ v = w)
    <3>1. Underway(v)' = Underway(v)
      BY <1>4, <1>5, <2>2 DEF Underway, w
    <3>2. applications'[v] = applications[v]
      BY <1>3, <2>2 DEF ResponseInv, ResponseTypeOK
    <3> QED BY <2>0, <3>1, <3>2
  <2> QED BY <2>1, <2>2
<1> QED BY <1>4, <1>7, <1>8, <1>9, <1>10 DEF ResponseInv

(* The status that is stored is one application under way more.              *)
LEMMA StoreStatusInv ==
  ASSUME ResponseInv, NEW f \in Findings, StoreStatus(f) PROVE ResponseInv'
<1> DEFINE w == WorkloadOf(f)
<1>1. /\ response[f].todo # <<>> /\ Advance(f) /\ Head(response[f].todo) = "Apply"
      /\ statuses' = [statuses EXCEPT ![w] = Append(@, "Applying")]
      /\ auto_seccomp' = auto_seccomp /\ baseline' = baseline
      /\ applications' = applications /\ profiles' = profiles
  BY DEF StoreStatus, Stored
<1>2. w \in Workloads
  BY ResponseAssumption
<1> HIDE DEF w
<1>3. /\ response' \in [Findings -> [todo : Seq(Words), floor : SUBSET (Essential \cup Syscalls)]]
      /\ \A g \in Findings : response'[g].floor = response[g].floor
      /\ \A g \in Findings : g # f => response'[g] = response[g]
      /\ \A g \in Findings : Paired(response'[g].todo)
      /\ Between(f)' /\ ~Between(f)
  BY <1>1, AdvanceFacts DEF Between
<1>4. \A g \in Findings : g # f => (Between(g)' <=> Between(g))
  BY <1>3 DEF Between
<1>5. /\ statuses' \in [Workloads -> Seq({"Applying"})]
      /\ Len(statuses'[w]) = Len(statuses[w]) + 1
      /\ \A v \in Workloads : v # w => statuses'[v] = statuses[v]
  <2>1. /\ Append(statuses[w], "Applying") \in Seq({"Applying"})
        /\ Len(Append(statuses[w], "Applying")) = Len(statuses[w]) + 1
    BY <1>2 DEF ResponseInv, ResponseTypeOK
  <2> QED BY <1>1, <1>2, <2>1 DEF ResponseInv, ResponseTypeOK
<1>6. ResponseTypeOK'
  BY <1>1, <1>3, <1>5 DEF ResponseInv, ResponseTypeOK
<1>7. FloorsHold' /\ ProfilesAllow'
  BY <1>1, <1>3 DEF ResponseInv, FloorsHold, ProfilesAllow
<1>8. StatusesCount'
  <2> SUFFICES ASSUME NEW v \in Workloads
               PROVE  Len(statuses'[v]) = applications[v] + Cardinality(Underway(v)')
    BY <1>1 DEF StatusesCount
  <2>0. /\ Len(statuses[v]) = applications[v] + Cardinality(Underway(v))
        /\ IsFiniteSet(Underway(v)) /\ Cardinality(Underway(v)) \in Nat
        /\ applications[v] \in Nat
    BY UnderwayFinite DEF ResponseInv, StatusesCount, ResponseTypeOK
  <2>1. CASE v = w
    <3>1. Underway(v)' = Underway(v) \cup {f} /\ f \notin Underway(v)
      BY <1>3, <1>4, <2>1 DEF Underway, w
    <3>2. Cardinality(Underway(v)') = Cardinality(Underway(v)) + 1
      BY <2>0, <3>1, FS_AddElement
    <3> QED BY <1>5, <2>0, <2>1, <3>2
  <2>2. CASE v # w
    <3>1. Underway(v)' = Underway(v)
      BY <1>3, <1>4, <2>2 DEF Underway, w
    <3> QED BY <1>5, <2>0, <2>2, <3>1
  <2> QED BY <2>1, <2>2
<1> QED BY <1>3, <1>6, <1>7, <1>8 DEF ResponseInv

LEMMA ReportInv ==
  ASSUME ResponseInv, NEW f \in Findings, Report(f) PROVE ResponseInv'
<1>1. /\ response[f].todo # <<>> /\ Advance(f)
      /\ Head(response[f].todo) \in {"BlockEgress", "Notify"}
      /\ auto_seccomp' = auto_seccomp /\ baseline' = baseline /\ statuses' = statuses
      /\ applications' = applications /\ profiles' = profiles
  BY DEF Report
<1>2. /\ response' \in [Findings -> [todo : Seq(Words), floor : SUBSET (Essential \cup Syscalls)]]
      /\ \A g \in Findings : response'[g].floor = response[g].floor
      /\ \A g \in Findings : g # f => response'[g] = response[g]
      /\ \A g \in Findings : Paired(response'[g].todo)
      /\ ~Between(f)' /\ ~Between(f)
  BY <1>1, AdvanceFacts DEF Between
<1>3. \A g \in Findings : Between(g)' <=> Between(g)
  BY <1>2 DEF Between
<1>4. ResponseTypeOK' /\ FloorsHold' /\ ProfilesAllow'
  BY <1>1, <1>2 DEF ResponseInv, ResponseTypeOK, FloorsHold, ProfilesAllow
<1>5. StatusesCount'
  BY <1>1, <1>3, UnderwaySame DEF ResponseInv, StatusesCount
<1> QED BY <1>2, <1>4, <1>5 DEF ResponseInv

LEMMA RespondInv ==
  ASSUME ResponseInv, NEW f \in Findings, NEW p, Respond(f, p) PROVE ResponseInv'
<1> DEFINE new == [todo |-> Actions(p), floor |-> baseline[WorkloadOf(f)]]
<1>1. /\ response[f].todo = <<>>
      /\ response' = [response EXCEPT ![f] = new]
      /\ auto_seccomp' = auto_seccomp /\ baseline' = baseline /\ statuses' = statuses
      /\ applications' = applications /\ profiles' = profiles
  BY DEF Respond
<1>2. Paired(new.todo) /\ new.todo # <<>> /\ Head(new.todo) # "Profile"
  BY ActionsPaired
<1>3. new.floor = baseline[WorkloadOf(f)] /\ new.floor \in SUBSET (Essential \cup Syscalls)
  BY ResponseAssumption DEF ResponseInv, ResponseTypeOK
<1>4. new \in [todo : Seq(Words), floor : SUBSET (Essential \cup Syscalls)]
  BY <1>2, <1>3 DEF Paired
<1> HIDE DEF new
<1>5. /\ response' \in [Findings -> [todo : Seq(Words), floor : SUBSET (Essential \cup Syscalls)]]
      /\ response'[f] = new
      /\ \A g \in Findings : g # f => response'[g] = response[g]
  BY <1>1, <1>4 DEF ResponseInv, ResponseTypeOK
<1>6. \A g \in Findings : Paired(response'[g].todo)
  BY <1>2, <1>5 DEF ResponseInv
<1>7. \A g \in Findings : Between(g)' <=> Between(g)
  BY <1>1, <1>2, <1>5 DEF Between
<1>8. ResponseTypeOK' /\ ProfilesAllow'
  BY <1>1, <1>5 DEF ResponseInv, ResponseTypeOK, ProfilesAllow
<1>9. FloorsHold'
  BY <1>1, <1>3, <1>5 DEF ResponseInv, FloorsHold
<1>10. StatusesCount'
  BY <1>1, <1>7, UnderwaySame DEF ResponseInv, StatusesCount
<1> QED BY <1>6, <1>8, <1>9, <1>10 DEF ResponseInv

LEMMA RecordSyscallsInv ==
  ASSUME ResponseInv, NEW w \in Workloads, NEW s \in Syscalls, RecordSyscalls(w, {s})
  PROVE  ResponseInv'
<1>1. /\ baseline' = [baseline EXCEPT ![w] = @ \union {s}]
      /\ UNCHANGED <<auto_seccomp, statuses, response, applications, profiles>>
  BY DEF RecordSyscalls
<1>2. baseline[w] \union {s} \in SUBSET (Essential \cup Syscalls)
  BY DEF ResponseInv, ResponseTypeOK
<1>3. /\ baseline' \in [Workloads -> SUBSET (Essential \cup Syscalls)]
      /\ \A v \in Workloads : baseline[v] \subseteq baseline'[v]
  BY <1>1, <1>2 DEF ResponseInv, ResponseTypeOK
<1>4. ResponseTypeOK' /\ ProfilesAllow'
  BY <1>1, <1>3 DEF ResponseInv, ResponseTypeOK, ProfilesAllow
<1>5. FloorsHold'
  BY <1>1, <1>3, ResponseAssumption DEF ResponseInv, FloorsHold
<1>6. StatusesCount' /\ \A f \in Findings : Paired(response'[f].todo)
  BY <1>1, UnderwaySame DEF ResponseInv, StatusesCount, Between
<1> QED BY <1>4, <1>5, <1>6 DEF ResponseInv

LEMMA ResponseInitInv == ResponseInit => ResponseInv
<1> SUFFICES ASSUME ResponseInit PROVE ResponseInv
  OBVIOUS
<1>1. /\ \A f \in Findings : response[f].todo = <<>> /\ response[f].floor = {}
      /\ \A w \in Workloads : Len(statuses[w]) = 0 /\ applications[w] = 0
  BY DEF ResponseInit, NoResponse
<1>2. ResponseTypeOK
  BY DEF ResponseInit, NoResponse, ResponseTypeOK
<1>3. \A f \in Findings : Paired(response[f].todo)
  <2>1. Paired(<<>>)
    BY DEF Paired
  <2> QED BY <1>1, <2>1
<1>4. \A w : Underway(w) = {}
  BY <1>1 DEF Underway, Between
<1>5. StatusesCount
  <2>1. \A w \in Workloads : Cardinality(Underway(w)) = 0
    BY <1>4, FS_EmptySet
  <2> QED BY <1>1, <2>1 DEF StatusesCount
<1>6. FloorsHold /\ ProfilesAllow
  BY <1>1 DEF ResponseInit, FloorsHold, ProfilesAllow
<1> QED BY <1>2, <1>3, <1>5, <1>6 DEF ResponseInv

LEMMA ResponseStepInv == ResponseInv /\ [ResponseNext]_responseVars => ResponseInv'
<1>1. ASSUME ResponseInv, ResponseNext PROVE ResponseInv'
  BY <1>1, GenerateInv, StoreStatusInv, ReportInv, RespondInv, RecordSyscallsInv
     DEF ResponseNext
<1>2. ASSUME ResponseInv, UNCHANGED responseVars PROVE ResponseInv'
  <2>1. UNCHANGED <<auto_seccomp, baseline, statuses, response, applications, profiles>>
    BY <1>2 DEF responseVars
  <2>2. ResponseTypeOK' /\ FloorsHold' /\ ProfilesAllow'
    BY <1>2, <2>1 DEF ResponseInv, ResponseTypeOK, FloorsHold, ProfilesAllow
  <2>3. StatusesCount' /\ \A f \in Findings : Paired(response'[f].todo)
    BY <1>2, <2>1, UnderwaySame DEF ResponseInv, StatusesCount, Between
  <2> QED BY <2>2, <2>3 DEF ResponseInv
<1> QED BY <1>1, <1>2

(* For any findings, workloads and syscalls, however the responses and the   *)
(* recording of syscalls interleave: each application of a profile has left  *)
(* its status, and no profile forbids what was known when its response       *)
(* began. (apply_seccomp, generate_seccomp_profile, record_syscalls)         *)
THEOREM EveryApplicationRecorded == ResponseSpec => []ApplicationsOnRecord
  BY InvIsRecord, ResponseInitInv, ResponseStepInv, PTL DEF ResponseSpec
-----------------------------------------------------------------------------
(* The traffic enforcer. The rules of addresses, domains, ports and cgroups  *)
(* of its own; an address that a map has no place for is in no map.          *)
RuleSets ==
  [xdp : SUBSET Addresses, tc : SUBSET Addresses, deny : SUBSET Cgroups,
   ips : SUBSET Addresses, ports : SUBSET Ports, domains : SUBSET Domains,
   cgroups : SUBSET Cgroups, failed : SUBSET Addresses]

Matched(r) ==
  loaded => /\ r.tc = r.ips
            /\ r.ips \subseteq r.xdp
            /\ r.xdp \ r.ips \subseteq r.failed
            /\ r.ips \intersect r.failed = {}
            /\ r.ips # {} => {"xdp", "tc"} \subseteq defined

(* What is denied is what was quarantined and not released, however many     *)
(* timers have fired; and only a quarantine starts one.                      *)
DeniedUntilReleased == loaded => rules.deny = rules.cgroups \ released

Timed(waiting, quarantined) ==
  /\ waiting \in [Cgroups -> Nat]
  /\ \A c \in Cgroups : waiting[c] > 0 => c \in quarantined

TrafficInv ==
  /\ loaded \in BOOLEAN
  /\ rules \in RuleSets
  /\ feed \in [ips : SUBSET Addresses, domains : SUBSET Domains]
  /\ IsFiniteSet(feed.ips) /\ IsFiniteSet(feed.domains)
  /\ Matched(rules)
  /\ DeniedUntilReleased
  /\ Timed(timers, rules.cgroups)

(* A block writes one map after the other and leaves the three agreeing.     *)
LEMMA BlockIpKeeps ==
  ASSUME NEW r \in RuleSets, Matched(r), NEW ip \in Addresses
  PROVE  /\ BlockIp(r, ip) \in RuleSets
         /\ Matched(BlockIp(r, ip))
         /\ BlockIp(r, ip).deny = r.deny /\ BlockIp(r, ip).cgroups = r.cgroups
<1>1. CASE ~loaded \/ ~Accepts(r, "xdp", ip)
  <2>1. BlockIp(r, ip) = [r EXCEPT !.failed = @ \union {ip}]
    BY <1>1 DEF BlockIp
  <2>2. loaded => ip \notin r.ips
    BY <1>1 DEF Accepts, Matched
  <2>3. BlockIp(r, ip) \in RuleSets
    BY <2>1 DEF RuleSets
  <2>4. /\ BlockIp(r, ip).failed = r.failed \union {ip}
        /\ BlockIp(r, ip).xdp = r.xdp
        /\ BlockIp(r, ip).tc = r.tc /\ BlockIp(r, ip).ips = r.ips
        /\ BlockIp(r, ip).deny = r.deny /\ BlockIp(r, ip).cgroups = r.cgroups
    BY <2>1 DEF RuleSets
  <2> QED BY <2>2, <2>3, <2>4 DEF Matched
<1>2. CASE loaded /\ Accepts(r, "xdp", ip) /\ ~Accepts(r, "tc", ip)
  <2>1. BlockIp(r, ip) = [r EXCEPT !.xdp = @ \union {ip}, !.failed = @ \union {ip}]
    BY <1>2 DEF BlockIp
  <2>2. ip \notin r.tc /\ ip \notin r.ips
    BY <1>2 DEF Accepts, Matched
  <2>3. BlockIp(r, ip) \in RuleSets
    BY ZenonT(60), <2>1 DEF RuleSets
  <2>4. /\ BlockIp(r, ip).xdp = r.xdp \union {ip}
        /\ BlockIp(r, ip).failed = r.failed \union {ip}
        /\ BlockIp(r, ip).tc = r.tc /\ BlockIp(r, ip).ips = r.ips
        /\ BlockIp(r, ip).deny = r.deny /\ BlockIp(r, ip).cgroups = r.cgroups
    BY <2>1 DEF RuleSets
  <2> QED BY <1>2, <2>2, <2>3, <2>4 DEF Matched
<1>3. CASE loaded /\ Accepts(r, "xdp", ip) /\ Accepts(r, "tc", ip)
  <2>1. BlockIp(r, ip) = [r EXCEPT !.xdp = @ \union {ip}, !.tc = @ \union {ip},
                                   !.ips = @ \union {ip}, !.failed = @ \ {ip}]
    BY <1>3 DEF BlockIp
  <2>2. {"xdp", "tc"} \subseteq defined
    BY <1>3 DEF Accepts
  <2>3. BlockIp(r, ip) \in RuleSets
    <3>1. /\ r.xdp \union {ip} \in SUBSET Addresses /\ r.tc \union {ip} \in SUBSET Addresses
          /\ r.ips \union {ip} \in SUBSET Addresses /\ r.failed \ {ip} \in SUBSET Addresses
      BY DEF RuleSets
    <3> QED BY <2>1, <3>1, Zenon DEF RuleSets
  <2>4. /\ BlockIp(r, ip).xdp = r.xdp \union {ip}
        /\ BlockIp(r, ip).failed = r.failed \ {ip}
        /\ BlockIp(r, ip).tc = r.tc \union {ip} /\ BlockIp(r, ip).ips = r.ips \union {ip}
        /\ BlockIp(r, ip).deny = r.deny /\ BlockIp(r, ip).cgroups = r.cgroups
    BY <2>1 DEF RuleSets
  <2> QED BY <1>3, <2>2, <2>3, <2>4 DEF Matched
<1> QED BY <1>1, <1>2, <1>3

LEMMA RemoveIpsKeeps ==
  ASSUME NEW r \in RuleSets, Matched(r), NEW ips \in SUBSET Addresses
  PROVE  /\ RemoveIps(r, ips) \in RuleSets
         /\ Matched(RemoveIps(r, ips))
         /\ RemoveIps(r, ips).deny = r.deny /\ RemoveIps(r, ips).cgroups = r.cgroups
<1>1. CASE ~loaded
  BY <1>1 DEF RemoveIps, RuleSets, Matched
<1>2. CASE loaded /\ "xdp" \notin defined
  BY <1>2 DEF RemoveIps
<1>3. CASE loaded /\ "xdp" \in defined /\ "tc" \notin defined
  <2>1. RemoveIps(r, ips) = [r EXCEPT !.xdp = @ \ ips]
    BY <1>3 DEF RemoveIps
  <2>2. r.ips = {}
    BY <1>3 DEF Matched
  <2> QED BY <1>3, <2>1, <2>2 DEF RuleSets, Matched
<1>4. CASE loaded /\ "xdp" \in defined /\ "tc" \in defined
  <2>1. RemoveIps(r, ips) = [r EXCEPT !.xdp = @ \ ips, !.tc = @ \ ips,
                                      !.ips = @ \ ips, !.failed = @ \ ips]
    BY <1>4 DEF RemoveIps
  <2>2. /\ r.xdp \ ips \in SUBSET Addresses /\ r.tc \ ips \in SUBSET Addresses
        /\ r.ips \ ips \in SUBSET Addresses /\ r.failed \ ips \in SUBSET Addresses
    BY DEF RuleSets
  <2>3. RemoveIps(r, ips) \in RuleSets
    BY <2>1, <2>2, Zenon DEF RuleSets
  <2>4. /\ RemoveIps(r, ips).xdp = r.xdp \ ips /\ RemoveIps(r, ips).tc = r.tc \ ips
        /\ RemoveIps(r, ips).ips = r.ips \ ips /\ RemoveIps(r, ips).failed = r.failed \ ips
        /\ RemoveIps(r, ips).deny = r.deny /\ RemoveIps(r, ips).cgroups = r.cgroups
    BY <2>1 DEF RuleSets
  <2> QED BY <1>4, <2>3, <2>4 DEF Matched
<1> QED BY <1>1, <1>2, <1>3, <1>4

(* What get_indicators and a port of block_c2_indicators can be.             *)
Indicated ==
  ({"ip"} \X Addresses) \union ({"domain"} \X Domains) \union ({"port"} \X Ports)

LEMMA BlockIndicatorKeeps ==
  ASSUME NEW r \in RuleSets, Matched(r), NEW indicator \in Indicated
  PROVE  /\ BlockIndicator(r, indicator) \in RuleSets
         /\ Matched(BlockIndicator(r, indicator))
         /\ BlockIndicator(r, indicator).deny = r.deny
         /\ BlockIndicator(r, indicator).cgroups = r.cgroups
<1>1. CASE indicator \in {"ip"} \X Addresses
  <2>1. BlockIndicator(r, indicator) = BlockIp(r, indicator[2]) /\ indicator[2] \in Addresses
    BY <1>1 DEF BlockIndicator
  <2> QED BY <2>1, BlockIpKeeps
<1>2. CASE indicator \in {"domain"} \X Domains
  <2>1. /\ BlockIndicator(r, indicator) = [r EXCEPT !.domains = @ \union {indicator[2]}]
        /\ indicator[2] \in Domains
    BY <1>2 DEF BlockIndicator
  <2> QED BY <2>1 DEF RuleSets, Matched
<1>3. CASE indicator \in {"port"} \X Ports
  <2>1. /\ BlockIndicator(r, indicator) = [r EXCEPT !.ports = @ \union {indicator[2]}]
        /\ indicator[2] \in Ports
    BY <1>3 DEF BlockIndicator
  <2> QED BY <2>1 DEF RuleSets, Matched
<1> QED BY <1>1, <1>2, <1>3 DEF Indicated

(* However many indicators: the loop keeps what each of its steps keeps.     *)
LEMMA AfterIndicatorsKeeps ==
  ASSUME NEW r \in RuleSets, Matched(r), NEW s \in Seq(Indicated)
  PROVE  /\ AfterIndicators(r, s) \in RuleSets
         /\ Matched(AfterIndicators(r, s))
         /\ AfterIndicators(r, s).deny = r.deny
         /\ AfterIndicators(r, s).cgroups = r.cgroups
<1> DEFINE n == Len(s)
           V == {q \in RuleSets : Matched(q) /\ q.deny = r.deny /\ q.cgroups = r.cgroups}
           step == [x \in (1 .. n) \X V |-> BlockIndicator(x[2], s[x[1]])]
<1>1. n \in Nat /\ \A i \in 1 .. n : s[i] \in Indicated
  OBVIOUS
<1>2. r \in V
  OBVIOUS
<1>3. \A i \in 1 .. n, v \in V : BlockIndicator(v, s[i]) \in V
  BY <1>1, BlockIndicatorKeeps
<1> HIDE DEF V
<1>4. step \in [(1 .. n) \X V -> V]
  BY <1>3
<1>5. \A i \in 1 .. n, v \in V : step[<<i, v>>] = BlockIndicator(v, s[i])
  OBVIOUS
<1> HIDE DEF step
<1>6. PICK h \in [0 .. n -> V] : Follows(h, n, r, step)
  BY <1>1, <1>2, <1>4, StepwiseExists
<1> DEFINE Eq(f) == f = [k \in 0 .. n |-> IF k = 0 THEN r ELSE BlockIndicator(f[k - 1], s[k])]
<1>7. Eq(h)
  <2>1. ASSUME NEW k \in 0 .. n
        PROVE  h[k] = IF k = 0 THEN r ELSE BlockIndicator(h[k - 1], s[k])
    <3>1. k # 0 => k \in 1 .. n /\ h[k - 1] \in V
      BY <1>1
    <3> QED BY <1>5, <1>6, <3>1 DEF Follows
  <2> HIDE DEF n
  <2> QED BY <2>1
<1> DEFINE after == CHOOSE f : Eq(f)
<1>8. Eq(after)
  <2> HIDE DEF Eq
  <2> QED BY <1>7, Zenon
<1>9. AfterIndicators(r, s) = after[n]
  BY DEF AfterIndicators
<1>10. \A k \in 0 .. n : after[k] = IF k = 0 THEN r ELSE BlockIndicator(after[k - 1], s[k])
  <2> HIDE DEF after, n
  <2> QED BY <1>8
<1> HIDE DEF after, Eq, n
<1>11. FollowsWithin(after, n, V, r, step)
  BY <1>1, <1>5, <1>10 DEF FollowsWithin
<1>12. n \in Nat
  BY <1>1
<1>13. \A k \in 0 .. n : after[k] \in V
  BY <1>2, <1>4, <1>11, <1>12, StepwiseTyped
<1> QED BY <1>9, <1>12, <1>13 DEF V

(* What the feed lists are sequences of indicators.                          *)
LEMMA ListingTyped ==
  ASSUME NEW S, IsFiniteSet(S), NEW l \in SetToSeqs(S)
  PROVE  l \in Seq(S)
<1>1. Cardinality(S) \in Nat
  BY FS_CardinalityType
<1>2. l \in [1 .. Cardinality(S) -> S]
  BY DEF SetToSeqs
<1> QED BY <1>1, <1>2

LEMMA SeqWithin ==
  ASSUME NEW S, NEW T, S \subseteq T, NEW l \in Seq(S)
  PROVE  l \in Seq(T)
  OBVIOUS

LEMMA IndicatorsTyped ==
  ASSUME TrafficInv, NEW s \in Indicators
  PROVE  s \in Seq(Indicated)
<1> DEFINE I == {<<"ip", a>> : a \in feed.ips}
           D == {<<"domain", d>> : d \in feed.domains}
<1>1. PICK l \in SetToSeqs(I) \X SetToSeqs(D) : s = l[1] \o l[2]
  BY Zenon DEF Indicators
<1>2. IsFiniteSet(I) /\ IsFiniteSet(D)
  <2>1. IsFiniteSet(feed.ips) /\ IsFiniteSet(feed.domains)
    BY DEF TrafficInv
  <2> DEFINE toI == [a \in feed.ips |-> <<"ip", a>>]
             toD == [b \in feed.domains |-> <<"domain", b>>]
  <2>2. toI \in Surjection(feed.ips, I) /\ toD \in Surjection(feed.domains, D)
    BY DEF Surjection
  <2> QED BY <2>1, <2>2, FS_Surjection
<1>3. I \subseteq Indicated /\ D \subseteq Indicated
  BY DEF TrafficInv, Indicated
<1> HIDE DEF I, D
<1>4. l[1] \in Seq(I) /\ l[2] \in Seq(D)
  BY <1>1, <1>2, ListingTyped
<1>5. l[1] \in Seq(Indicated) /\ l[2] \in Seq(Indicated)
  BY <1>3, <1>4, SeqWithin
<1> QED BY <1>1, <1>5

LEMMA TrafficStep == TrafficInv /\ [TrafficNext]_trafficVars => TrafficInv'
<1> SUFFICES ASSUME TrafficInv, [TrafficNext]_trafficVars PROVE TrafficInv'
  OBVIOUS
<1>1. /\ rules \in RuleSets /\ Matched(rules) /\ DeniedUntilReleased
      /\ Timed(timers, rules.cgroups)
      /\ feed \in [ips : SUBSET Addresses, domains : SUBSET Domains]
      /\ IsFiniteSet(feed.ips) /\ IsFiniteSet(feed.domains) /\ loaded \in BOOLEAN
  BY DEF TrafficInv
<1>2. ASSUME NEW r \in RuleSets, Matched(r), rules' = r,
             r.deny = rules.deny, r.cgroups = rules.cgroups,
             UNCHANGED <<loaded, defined, feed, released, timers>>
      PROVE  TrafficInv'
  <2>1. Matched(rules)' /\ DeniedUntilReleased'
    BY <1>1, <1>2 DEF Matched, DeniedUntilReleased
  <2>2. Timed(timers, rules.cgroups)'
    BY <1>1, <1>2 DEF Timed
  <2> QED BY <1>1, <1>2, <2>1, <2>2 DEF TrafficInv
<1>3. ASSUME NEW ip \in Addresses, Block(ip) PROVE TrafficInv'
  BY <1>1, <1>2, <1>3, BlockIpKeeps DEF Block, Keep
<1>4. ASSUME NEW ip \in Addresses, Unblock(ip) PROVE TrafficInv'
  BY <1>1, <1>2, <1>4, RemoveIpsKeeps DEF Unblock, Keep
<1>5. ASSUME NEW s \in Seq(Indicated), BlockIndicators(s) PROVE TrafficInv'
  BY <1>1, <1>2, <1>5, AfterIndicatorsKeeps DEF BlockIndicators, Keep
<1>6. ASSUME NEW p \in Ports, BlockIndicators(<<<<"port", p>>>>) PROVE TrafficInv'
  <2>1. <<<<"port", p>>>> \in Seq(Indicated)
    BY DEF Indicated
  <2> QED BY <1>5, <1>6, <2>1
<1>7. CASE Flush
  <2> DEFINE q == RemoveIps(rules, rules.ips)
  <2>1. rules.ips \in SUBSET Addresses
    BY <1>1 DEF RuleSets
  <2>2. q \in RuleSets /\ Matched(q) /\ q.deny = rules.deny /\ q.cgroups = rules.cgroups
    BY <1>1, <2>1, RemoveIpsKeeps
  <2> HIDE DEF q
  <2>3. [q EXCEPT !.ports = {}, !.domains = {}] \in RuleSets
    BY <2>2 DEF RuleSets
  <2>4. Matched([q EXCEPT !.ports = {}, !.domains = {}])
    BY <2>2 DEF RuleSets, Matched
  <2>5. /\ [q EXCEPT !.ports = {}, !.domains = {}].deny = rules.deny
        /\ [q EXCEPT !.ports = {}, !.domains = {}].cgroups = rules.cgroups
    BY <2>2 DEF RuleSets
  <2>6. rules' = q \/ rules' = [q EXCEPT !.ports = {}, !.domains = {}]
    BY <1>7 DEF Flush, q
  <2>7. UNCHANGED <<loaded, defined, feed, released, timers>>
    BY <1>7 DEF Flush, Keep
  <2> QED BY <1>2, <2>2, <2>3, <2>4, <2>5, <2>6, <2>7
<1>8. ASSUME NEW c \in Cgroups, Quarantine(c) PROVE TrafficInv'
  <2>1. CASE loaded /\ ~Accepts(rules, "deny", c)
    BY <1>1, <1>2, <1>8, <2>1 DEF Quarantine, Keep
  <2>2. CASE ~(loaded /\ ~Accepts(rules, "deny", c))
    <3> DEFINE d == IF loaded THEN rules.deny \union {c} ELSE rules.deny
    <3>1. /\ rules' = [rules EXCEPT !.deny = d, !.cgroups = @ \union {c}]
          /\ released' = released \ {c} /\ UNCHANGED <<loaded, defined, feed>>
          /\ timers' = [timers EXCEPT ![c] = @ + 1]
      BY <1>8, <2>2 DEF Quarantine, Keep
    <3>2. d \in SUBSET Cgroups /\ rules.cgroups \union {c} \in SUBSET Cgroups
      BY <1>1 DEF RuleSets
    <3>3. loaded => d = rules.deny \union {c}
      OBVIOUS
    <3> HIDE DEF d
    <3>4. /\ rules' \in RuleSets /\ rules'.deny = d
          /\ rules'.cgroups = rules.cgroups \union {c}
          /\ rules'.tc = rules.tc /\ rules'.xdp = rules.xdp /\ rules'.ips = rules.ips
          /\ rules'.failed = rules.failed
      BY <1>1, <3>1, <3>2 DEF RuleSets
    <3>5. Matched(rules)'
      BY <1>1, <3>1, <3>4 DEF Matched
    <3>6. DeniedUntilReleased'
      BY <1>1, <3>1, <3>3, <3>4 DEF DeniedUntilReleased
    <3>7. Timed(timers, rules.cgroups)'
      <4>1. rules.cgroups \subseteq rules'.cgroups /\ c \in rules'.cgroups
        BY <3>4
      <4> QED BY <1>1, <3>1, <4>1 DEF Timed
    <3> QED BY <1>1, <3>1, <3>4, <3>5, <3>6, <3>7 DEF TrafficInv
  <2> QED BY <2>1, <2>2
<1>9. ASSUME NEW c \in Cgroups, TimerFires(c) PROVE TrafficInv'
  <2>1. UNCHANGED <<loaded, defined, rules, feed, released>>
    BY <1>9 DEF TimerFires, Keep
  <2>2. Timed(timers, rules.cgroups)'
    BY <1>1, <1>9, <2>1 DEF Timed, TimerFires
  <2>3. Matched(rules)' /\ DeniedUntilReleased'
    BY <1>1, <2>1 DEF Matched, DeniedUntilReleased
  <2> QED BY <1>1, <2>1, <2>2, <2>3 DEF TrafficInv
<1>10. ASSUME NEW c \in Cgroups, Release(c) PROVE TrafficInv'
  <2>1. CASE loaded /\ ("deny" \notin defined \/ c \notin rules.deny)
    BY <1>1, <1>2, <1>10, <2>1 DEF Release, Keep
  <2>2. CASE ~(loaded /\ ("deny" \notin defined \/ c \notin rules.deny))
    <3>1. /\ rules' = [rules EXCEPT !.deny = @ \ {c}]
          /\ released' = released \union {c} /\ UNCHANGED <<loaded, defined, feed, timers>>
      BY <1>10, <2>2 DEF Release, Keep
    <3>2. /\ rules' \in RuleSets /\ rules'.deny = rules.deny \ {c}
          /\ rules'.cgroups = rules.cgroups
          /\ rules'.tc = rules.tc /\ rules'.xdp = rules.xdp /\ rules'.ips = rules.ips
          /\ rules'.failed = rules.failed
      BY <1>1, <3>1 DEF RuleSets
    <3>3. Matched(rules)'
      BY <1>1, <3>1, <3>2 DEF Matched
    <3>4. DeniedUntilReleased'
      BY <1>1, <3>1, <3>2 DEF DeniedUntilReleased
    <3>5. Timed(timers, rules.cgroups)'
      BY <1>1, <3>1, <3>2 DEF Timed
    <3> QED BY <1>1, <3>1, <3>2, <3>3, <3>4, <3>5 DEF TrafficInv
  <2> QED BY <2>1, <2>2
<1>11. ASSUME NEW ip \in Addresses, NEW d \in Domains, FeedUpdate({ip}, {d}) PROVE TrafficInv'
  <2>1. /\ feed' = [ips |-> feed.ips \union {ip}, domains |-> feed.domains \union {d}]
        /\ UNCHANGED <<loaded, defined, rules, released, timers>>
    BY <1>11 DEF FeedUpdate, Keep
  <2>2. IsFiniteSet(feed.ips \union {ip}) /\ IsFiniteSet(feed.domains \union {d})
    BY <1>1, FS_AddElement
  <2>3. Matched(rules)' /\ DeniedUntilReleased' /\ Timed(timers, rules.cgroups)'
    BY <1>1, <2>1 DEF Matched, DeniedUntilReleased, Timed
  <2> QED BY <1>1, <2>1, <2>2, <2>3 DEF TrafficInv
<1>12. CASE UNCHANGED trafficVars
  BY <1>1, <1>2, <1>12 DEF trafficVars
<1> QED
  BY <1>3, <1>4, <1>5, <1>6, <1>7, <1>8, <1>9, <1>10, <1>11, <1>12, IndicatorsTyped
     DEF TrafficNext

(* Whatever map fills up or is missing, what the enforcer lists is dropped   *)
(* by both maps, what is dropped besides was refused to the caller and is    *)
(* dropped by one, and no older timer ends a later quarantine.               *)
(* (block_ip, unblock_ip, quarantine_workload)                               *)
THEOREM KernelBlocksAsListed == TrafficSpec => []BlocksHold
<1>1. TrafficInit => TrafficInv
  BY FS_EmptySet DEF TrafficInit, TrafficInv, NoRules, RuleSets, Matched, DeniedUntilReleased, Timed
<1>2. TrafficInv => BlocksHold
  <2>1. TrafficInv => DroppedAsListed
    BY DEF TrafficInv, Matched, DroppedAsListed
  <2>2. TrafficInv => DeniedWhileQuarantined
    BY DEF TrafficInv, DeniedUntilReleased, Timed, DeniedWhileQuarantined
  <2> QED BY <2>1, <2>2 DEF BlocksHold
<1> QED BY <1>1, <1>2, TrafficStep, PTL DEF TrafficSpec

-----------------------------------------------------------------------------
(* The metrics: an update that waits is of one call, and no two calls are    *)
(* the same; what a task adds to the table it takes from what waits.         *)
Fields == {"processed", "dropped"}
Updates == [component : Components, field : Fields, amount : Nat, call : Nat]

MetricsInv ==
  /\ total \in [Fields -> Nat]
  /\ table \in [Components -> [Fields -> Nat]]
  /\ late \subseteq Updates /\ IsFiniteSet(late)
  /\ records \in Nat /\ \A u \in late : u.call < records
  /\ MetricsAgree

Column(t, field) == [k \in Components |-> t[k][field]]
Waiting(l, field) == [u \in l |-> IF u.field = field THEN u.amount ELSE 0]

LEMMA SumsAsColumns ==
  ASSUME NEW field
  PROVE  /\ TableSum(field) = SumFunctionOnSet(Column(table, field), Components)
         /\ LateSum(field) = SumFunctionOnSet(Waiting(late, field), late)
  BY DEF TableSum, LateSum, SumFunction, Column, Waiting

LEMMA RecordKeepsMetrics ==
  ASSUME MetricsInv, NEW k \in Components, NEW fld \in Fields, NEW amount \in Nat,
         Record(k, fld, amount)
  PROVE  MetricsInv'
<1> DEFINE new == [component |-> k, field |-> fld, amount |-> amount, call |-> records]
<1>1. /\ late' = late \cup {new} /\ table' = table /\ records' = records + 1
      /\ total' = [total EXCEPT ![fld] = @ + amount]
  BY DEF Record
<1>2. new \notin late /\ new \in Updates /\ new.field = fld /\ new.amount = amount
  BY DEF MetricsInv, Updates
<1>3. late' \subseteq Updates /\ IsFiniteSet(late')
  BY <1>1, <1>2, FS_AddElement DEF MetricsInv
<1>4. records' \in Nat /\ \A u \in late' : u.call < records'
  <2>1. new.call = records /\ records \in Nat
    BY DEF MetricsInv
  <2>2. ASSUME NEW u \in late PROVE u.call \in Nat /\ u.call < records
    BY DEF MetricsInv, Updates
  <2> HIDE DEF new
  <2> QED BY <1>1, <2>1, <2>2
<1>5. total' \in [Fields -> Nat] /\ \A f \in Fields : total'[f] = IF f = fld THEN total[f] + amount ELSE total[f]
  BY <1>1 DEF MetricsInv
<1> HIDE DEF new
<1>6. ASSUME NEW f \in Fields PROVE total'[f] = TableSum(f)' + LateSum(f)'
  <2> DEFINE w == Waiting(late', f)
  <2>1. \A u \in late' : w[u] \in Nat /\ w[u] \in Int
    BY <1>3 DEF Waiting, Updates
  <2>2. w[new] = IF f = fld THEN amount ELSE 0
    BY <1>1, <1>2 DEF Waiting
  <2>3. \A u \in late : w[u] \in Int /\ w[u] = Waiting(late, f)[u]
    BY <1>1, <2>1 DEF Waiting
  <2>4. IsFiniteSet(late)
    BY DEF MetricsInv
  <2> HIDE DEF w
  <2>5. SumFunctionOnSet(w, late) = SumFunctionOnSet(Waiting(late, f), late)
    BY <2>3, <2>4, SumSame
  <2>6. SumFunctionOnSet(w, late') = w[new] + SumFunctionOnSet(w, late)
    BY <1>1, <1>2, <2>1, <2>4, SumAdd
  <2>7. LateSum(f)' = SumFunctionOnSet(w, late') /\ TableSum(f)' = TableSum(f)
    BY <1>1 DEF w, LateSum, TableSum, SumFunction, Waiting
  <2>8. LateSum(f)' = w[new] + LateSum(f)
    BY <2>5, <2>6, <2>7, SumsAsColumns
  <2>9. LateSum(f) \in Int /\ TableSum(f) \in Int
    <3>1. SumFunctionOnSet(w, late) \in Int
      BY <2>3, <2>4, SumInt
    <3>2. \A c \in Components : Column(table, f)[c] \in Int
      BY DEF Column, MetricsInv
    <3>3. SumFunctionOnSet(Column(table, f), Components) \in Int
      BY <3>2, SumInt, MonitorAssumption
    <3> QED BY <2>5, <3>1, <3>3, SumsAsColumns
  <2>10. total[f] = TableSum(f) + LateSum(f)
    <3>1. DOMAIN total = Fields
      BY DEF MetricsInv
    <3> QED BY <3>1 DEF MetricsInv, MetricsAgree
  <2>11. total[f] \in Nat
    BY DEF MetricsInv
  <2> QED BY <1>5, <2>2, <2>7, <2>8, <2>9, <2>10, <2>11
<1>7. MetricsAgree'
  BY <1>5, <1>6 DEF MetricsAgree
<1> QED BY <1>1, <1>3, <1>4, <1>5, <1>7 DEF MetricsInv

LEMMA UpdateKeepsMetrics ==
  ASSUME MetricsInv, UpdateTable
  PROVE  MetricsInv'
<1>1. PICK u \in late :
        /\ late' = late \ {u}
        /\ table' = [table EXCEPT ![u.component][u.field] = @ + u.amount]
        /\ UNCHANGED <<total, records>>
  BY DEF UpdateTable
<1>2. /\ u.component \in Components /\ u.field \in Fields /\ u.amount \in Nat
      /\ table \in [Components -> [Fields -> Nat]] /\ total \in [Fields -> Nat]
      /\ late \subseteq Updates /\ IsFiniteSet(late)
  BY DEF MetricsInv, Updates
<1>3. /\ table' \in [Components -> [Fields -> Nat]]
      /\ \A c \in Components, f \in Fields :
            table'[c][f] = IF c = u.component /\ f = u.field THEN table[c][f] + u.amount
                                                            ELSE table[c][f]
  BY <1>1, <1>2
<1>4. late' \subseteq Updates /\ IsFiniteSet(late') /\ \A v \in late' : v.call < records'
  BY <1>1, <1>2, FS_RemoveElement DEF MetricsInv
<1>5. ASSUME NEW f \in Fields PROVE total'[f] = TableSum(f)' + LateSum(f)'
  <2> DEFINE w == Waiting(late, f)
             c == Column(table, f)
             d == Column(table', f)
             x == u.component
             add == IF u.field = f THEN u.amount ELSE 0
  <2>1. \A v \in late : w[v] \in Int
    BY <1>2 DEF Waiting, Updates
  <2>2. w[u] = add /\ add \in Int
    BY <1>2 DEF Waiting
  <2>3. \A k \in Components : c[k] \in Int /\ d[k] \in Int
    BY <1>2, <1>3 DEF Column
  <2>4. \A k \in Components \ {x} : c[k] = d[k]
    BY <1>2, <1>3 DEF Column
  <2>5. d[x] = c[x] + add
    BY <1>2, <1>3 DEF Column
  <2>6. \A v \in late \ {u} : w[v] \in Int /\ w[v] = Waiting(late \ {u}, f)[v]
    BY <2>1 DEF Waiting
  <2>7. x \in Components /\ IsFiniteSet(Components) /\ IsFiniteSet(late) /\ IsFiniteSet(late \ {u})
    BY <1>2, MonitorAssumption, FS_RemoveElement
  <2>8. /\ TableSum(f) = SumFunctionOnSet(c, Components)
        /\ TableSum(f)' = SumFunctionOnSet(d, Components)
        /\ LateSum(f) = SumFunctionOnSet(w, late)
        /\ LateSum(f)' = SumFunctionOnSet(Waiting(late', f), late')
    BY DEF LateSum, TableSum, SumFunction, Column, Waiting
  <2> HIDE DEF w, c, d, x, add
  <2>9. SumFunctionOnSet(d, Components) = SumFunctionOnSet(c, Components) - c[x] + d[x]
    BY <2>3, <2>4, <2>7, SumChange
  <2>10. SumFunctionOnSet(w, late) = w[u] + SumFunctionOnSet(w, late \ {u})
    BY <2>1, <2>7, SumRemove
  <2>11. SumFunctionOnSet(w, late \ {u}) = SumFunctionOnSet(Waiting(late \ {u}, f), late \ {u})
    BY <2>6, <2>7, SumSame
  <2>12. SumFunctionOnSet(c, Components) \in Int /\ SumFunctionOnSet(w, late \ {u}) \in Int
    BY <2>3, <2>6, <2>7, SumInt
  <2>13. total[f] = TableSum(f) + LateSum(f)
    BY <1>2 DEF MetricsInv, MetricsAgree
  <2>14. c[x] \in Int
    BY <2>3, <2>7
  <2>15. LateSum(f)' = SumFunctionOnSet(w, late \ {u})
    BY <1>1, <2>8, <2>11
  <2>16. TableSum(f)' = TableSum(f) + add
    BY <2>2, <2>5, <2>8, <2>9, <2>12, <2>14
  <2>17. LateSum(f) = add + LateSum(f)'
    BY <2>2, <2>8, <2>10, <2>15
  <2> QED BY <1>1, <2>2, <2>8, <2>12, <2>13, <2>15, <2>16, <2>17
<1>6. MetricsAgree'
  BY <1>1, <1>2, <1>5 DEF MetricsAgree
<1> QED BY <1>1, <1>2, <1>3, <1>4, <1>6 DEF MetricsInv

LEMMA MetricsStep == MetricsInv /\ [MonitorNext]_monitorVars => MetricsInv'
<1> SUFFICES ASSUME MetricsInv, [MonitorNext]_monitorVars PROVE MetricsInv'
  OBVIOUS
<1>1. ASSUME UNCHANGED metricVars PROVE MetricsInv'
  BY <1>1 DEF metricVars, MetricsInv, MetricsAgree, TableSum, LateSum
<1>2. ASSUME NEW k \in Components, Record(k, "processed", 1) PROVE MetricsInv'
  BY <1>2, RecordKeepsMetrics DEF Fields
<1>3. ASSUME NEW k \in Components, NEW n \in Amounts, Record(k, "dropped", n) PROVE MetricsInv'
  BY <1>3, RecordKeepsMetrics, MonitorAssumption DEF Fields
<1>4. ASSUME NEW k \in Components,
             HeartbeatTime(k) \/ HeartbeatErrors(k) \/ RecordError(k) \/ Register(k)
      PROVE  MetricsInv'
  BY <1>1, <1>4 DEF HeartbeatTime, HeartbeatErrors, RecordError, Register
<1>5. CASE UpdateTable
  BY <1>5, UpdateKeepsMetrics
<1>6. CASE Silence \/ Check \/ UNCHANGED monitorVars
  BY <1>1, <1>6
     DEF Silence, Check, BeginCheck, EndCheck, LookAtHeartbeat, LookAtErrors, Judged, monitorVars
<1> QED BY <1>2, <1>3, <1>4, <1>5, <1>6 DEF MonitorNext, MetricsNext, WatchNext

(* However many components record, and in whatever order the spawned updates *)
(* run: each total is what the table of the components holds and what still  *)
(* waits to be added to it.                                                  *)
THEOREM TotalsMatchTheTable == MonitorSpec => []MetricsAgree
<1>1. MonitorInit => MetricsInv
  <2> SUFFICES ASSUME MonitorInit PROVE MetricsInv
    OBVIOUS
  <2>1. /\ total \in [Fields -> Nat] /\ table \in [Components -> [Fields -> Nat]]
        /\ late = {} /\ IsFiniteSet(late) /\ records = 0
        /\ \A f \in Fields : total[f] = 0 /\ \A k \in Components : table[k][f] = 0
    BY FS_EmptySet DEF MonitorInit, Nothing, Fields
  <2>2. ASSUME NEW f \in Fields PROVE total[f] = TableSum(f) + LateSum(f)
    <3> DEFINE c == Column(table, f)
    <3>1. \A k \in Components : c[k] = 0
      BY <2>1 DEF Column
    <3> HIDE DEF c
    <3>2. SumFunctionOnSet(c, Components) = 0
      BY <3>1, SumZero, MonitorAssumption
    <3>3. SumFunctionOnSet(Waiting(late, f), late) = 0
      BY <2>1, SumEmpty
    <3> QED BY <2>1, <3>2, <3>3, SumsAsColumns DEF c
  <2>3. MetricsAgree
    BY <2>1, <2>2 DEF MetricsAgree
  <2> QED BY <2>1, <2>3 DEF MetricsInv
<1>2. MetricsInv => MetricsAgree
  BY DEF MetricsInv
<1> QED BY <1>1, <1>2, MetricsStep, PTL DEF MonitorSpec

-----------------------------------------------------------------------------
(* The shutdown sequence: the steps of main before the analysis task exists. *)
Before == {"start", "intel", "k8s", "engine", "bpf", "attach", "degraded", "pipeline"}

(* What main knows of its tasks at each step: nothing was dropped while it  *)
(* lives, the analysis task is spawned last, and each await has passed only *)
(* when its task was over. Rounds exist in batch mode only.                 *)
Progress ==
  /\ main \in Before => task["analysis"] = "none"
  /\ main \notin Ended => \A t \in Tasks : task[t] # "cancelled"
  /\ main \in {"consumer", "cleanup"} => ~Running("analysis")
  /\ main = "cleanup" => ~Running("consumer")
  /\ main \in Ended => \A t \in Tasks : ~Running(t)
  /\ inRound => cli.mode = "batch"

LifecycleInv == TypeOK /\ Progress /\ RoundsAreWhole /\ NothingCutShort

LEMMA LifecycleInitInv == Init => LifecycleInv
  BY DEF Init, LifecycleInv, TypeOK, Progress, RoundsAreWhole, NothingCutShort, Running,
         Before, Steps, Ended, Tasks

(* A task map stays one.                                                    *)
LEMMA TaskMaps ==
  ASSUME TypeOK
  PROVE  /\ \A t \in Tasks, w \in {"running"} \cup Endings :
              [task EXCEPT ![t] = w] \in [Tasks -> {"none", "running"} \cup Endings]
         /\ [t \in Tasks |-> IF Running(t) THEN "cancelled" ELSE task[t]]
              \in [Tasks -> {"none", "running"} \cup Endings]
  BY DEF TypeOK, Endings

(* CancelAll leaves no task running and touches only those that were.       *)
LEMMA AfterCancel ==
  ASSUME TypeOK, CancelAll
  PROVE  /\ \A t \in Tasks : ~Running(t)'
         /\ \A t \in Tasks : ~Running(t) => task'[t] = task[t]
  BY DEF CancelAll, Running

(* Become changes one task.                                                 *)
LEMMA AfterBecome ==
  ASSUME TypeOK, NEW t \in Tasks, NEW w, Become(t, w)
  PROVE  /\ task'[t] = w
         /\ \A u \in Tasks \ {t} : task'[u] = task[u]
  BY DEF Become, TypeOK

LEMMA LifecycleStepInv == LifecycleInv /\ [Next]_vars => LifecycleInv'
<1> SUFFICES ASSUME LifecycleInv, [Next]_vars PROVE LifecycleInv'
  OBVIOUS
<1> USE DEF LifecycleInv, Go, Steps, Before, Ended, Tasks, Endings
<1>1. CASE StartServer
  BY <1>1, TaskMaps, AfterBecome
     DEF StartServer, TypeOK, Progress, RoundsAreWhole, NothingCutShort, Running, Become
<1>2. CASE StartIntel
  BY <1>2, TaskMaps, AfterBecome
     DEF StartIntel, TypeOK, Progress, RoundsAreWhole, NothingCutShort, Running, Become
<1>3. CASE FillPodCache
  BY <1>3, TaskMaps, AfterBecome
     DEF FillPodCache, TypeOK, Progress, RoundsAreWhole, NothingCutShort, Running, Become
<1>4. CASE PodCacheFails
  BY <1>4, TaskMaps, AfterCancel
     DEF PodCacheFails, TypeOK, Progress, RoundsAreWhole, NothingCutShort, Running, CancelAll
<1>5. CASE StartEngine
  BY <1>5, TaskMaps, AfterBecome
     DEF StartEngine, TypeOK, Progress, RoundsAreWhole, NothingCutShort, Running, Become
<1>6. CASE NoEbpf
  BY <1>6, TaskMaps, AfterBecome
     DEF NoEbpf, TypeOK, Progress, RoundsAreWhole, NothingCutShort, Running, Become
<1>7. CASE Attach
  BY <1>7, TaskMaps, AfterBecome
     DEF Attach, TypeOK, Progress, RoundsAreWhole, NothingCutShort, Running, Become
<1>8. CASE StartConsumer
  BY <1>8, TaskMaps, AfterBecome
     DEF StartConsumer, TypeOK, Progress, RoundsAreWhole, NothingCutShort, Running, Become
<1>9. CASE EbpfFails
  BY <1>9, TaskMaps, AfterBecome
     DEF EbpfFails, TypeOK, Progress, RoundsAreWhole, NothingCutShort, Running, Become
<1>10. CASE Degraded
  BY <1>10, TaskMaps, AfterBecome
     DEF Degraded, TypeOK, Progress, RoundsAreWhole, NothingCutShort, Running, Become
<1>11. CASE DegradedFails
  BY <1>11, TaskMaps, AfterCancel
     DEF DegradedFails, TypeOK, Progress, RoundsAreWhole, NothingCutShort, Running, CancelAll
<1>12. CASE StartAnalysis
  BY <1>12, TaskMaps, AfterBecome
     DEF StartAnalysis, TypeOK, Progress, RoundsAreWhole, NothingCutShort, Running, Become
<1>26. CASE InstallHandlers
  BY <1>26, TaskMaps, AfterBecome
     DEF InstallHandlers, TypeOK, Progress, RoundsAreWhole, NothingCutShort, Running, Become
<1>13. CASE TellAnalysis
  BY <1>13, TaskMaps, AfterBecome
     DEF TellAnalysis, TypeOK, Progress, RoundsAreWhole, NothingCutShort, Running, Become
<1>14. CASE AwaitAnalysis
  BY <1>14, TaskMaps, AfterBecome
     DEF AwaitAnalysis, TypeOK, Progress, RoundsAreWhole, NothingCutShort, Running, Become
<1>15. CASE AwaitConsumer
  BY <1>15, TaskMaps, AfterBecome
     DEF AwaitConsumer, TypeOK, Progress, RoundsAreWhole, NothingCutShort, Running, Become
<1>16. CASE Cleanup
  BY <1>16, TaskMaps, AfterCancel
     DEF Cleanup, TypeOK, Progress, RoundsAreWhole, NothingCutShort, Running, CancelAll
<1>17. CASE EarlySignal
  BY <1>17, TaskMaps, AfterCancel
     DEF EarlySignal, TypeOK, Progress, RoundsAreWhole, NothingCutShort, Running, CancelAll
<1>18. CASE Signal
  BY <1>18, TaskMaps, AfterBecome
     DEF Signal, TypeOK, Progress, RoundsAreWhole, NothingCutShort, Running, Become
<1>19. CASE ServerEnds
  BY <1>19, TaskMaps, AfterBecome
     DEF ServerEnds, TypeOK, Progress, RoundsAreWhole, NothingCutShort, Running, Become
<1>20. CASE BeginRound
  BY <1>20, TaskMaps, AfterBecome
     DEF BeginRound, TypeOK, Progress, RoundsAreWhole, NothingCutShort, Running, Become
<1>21. CASE EndRound
  BY <1>21, TaskMaps, AfterBecome
     DEF EndRound, TypeOK, Progress, RoundsAreWhole, NothingCutShort, Running, Become
<1>22. CASE AnalysisStops
  BY <1>22, TaskMaps, AfterBecome
     DEF AnalysisStops, TypeOK, Progress, RoundsAreWhole, NothingCutShort, Running, Become
<1>23. CASE ForwarderEnds
  BY <1>23, TaskMaps, AfterBecome
     DEF ForwarderEnds, TypeOK, Progress, RoundsAreWhole, NothingCutShort, Running, Become
<1>24. ASSUME NEW t \in {"engine", "consumer", "analysis"}, Panics(t) PROVE LifecycleInv'
  <2>1. /\ task' \in [Tasks -> {"none", "running"} \cup Endings]
        /\ task'[t] = "panicked"
        /\ \A u \in Tasks \ {t} : task'[u] = task[u]
    BY <1>24, TaskMaps, AfterBecome DEF Panics, Become
  <2>2. UNCHANGED <<main, cli, told, attached>> /\ Running(t)
    BY <1>24 DEF Panics
  <2>3. inRound' = IF t = "analysis" THEN FALSE ELSE inRound
    BY <1>24 DEF Panics
  <2>4. \A u \in Tasks : Running(u)' => Running(u) /\ u # t
    BY <2>1 DEF Running
  <2>5. \A u \in Tasks : task'[u] # task[u] => task'[u] = "panicked"
    BY <2>1
  <2>6. TypeOK'
    BY <2>1, <2>2, <2>3 DEF TypeOK
  <2>7. task'["analysis"] = "none" <=> task["analysis"] = "none"
    BY <2>1, <2>2 DEF Running
  <2>8. Progress'
    BY <2>2, <2>3, <2>4, <2>5, <2>7 DEF Progress
  <2>9. RoundsAreWhole'
    BY <2>1, <2>2, <2>3, <2>5 DEF RoundsAreWhole, Running
  <2>10. NothingCutShort'
    BY <2>2, <2>5 DEF NothingCutShort
  <2> QED BY <2>6, <2>8, <2>9, <2>10
<1>25. CASE UNCHANGED vars
  BY <1>25 DEF vars, TypeOK, Progress, RoundsAreWhole, NothingCutShort, Running
<1> QED
  BY <1>1, <1>2, <1>3, <1>4, <1>5, <1>6, <1>7, <1>8, <1>9, <1>10, <1>11, <1>12, <1>13, <1>14, <1>15, <1>16, <1>17, <1>18, <1>19, <1>20, <1>21, <1>22, <1>23, <1>24, <1>25, <1>26 DEF Next, Main

(* No shutdown cuts a round of the analysis in two, though a signal that    *)
(* comes before main waits for one may; and when main returns, the consumer *)
(* and the analysis task are over by themselves.                            *)
(* (wait_for_shutdown and main of main.rs)                                  *)
THEOREM ShutdownLosesNoWork == Spec => []ShutdownKeepsWork
<1>1. LifecycleInv => ShutdownKeepsWork
  BY DEF LifecycleInv, ShutdownKeepsWork
<1> QED
  BY <1>1, LifecycleInitInv, LifecycleStepInv, PTL DEF Spec

(* The server goes down last: the step in which main aborts it is taken     *)
(* when both awaits have passed.                                            *)
THEOREM ServerGoesLast == Spec => ServedUntilDrained
<1>1. ASSUME LifecycleInv, [Next]_vars,
             Running("server"), task'["server"] = "cancelled", main' = "done"
      PROVE  ~Running("consumer") /\ ~Running("analysis")
  <2>1. CASE Cleanup
    BY <1>1, <2>1 DEF Cleanup, Go, LifecycleInv, Progress
  <2>2. CASE ~Cleanup
    <3>1. main = "done"
      BY <1>1, <2>2
         DEF Next, Main, vars, Go, StartServer, StartIntel, FillPodCache,
             PodCacheFails, StartEngine, NoEbpf, Attach, StartConsumer, EbpfFails,
             Degraded, DegradedFails, StartAnalysis, InstallHandlers, TellAnalysis, AwaitAnalysis,
             AwaitConsumer, EarlySignal, Signal, ServerEnds, Panics, BeginRound,
             EndRound, AnalysisStops, ForwarderEnds
    <3> QED
      BY <1>1, <3>1 DEF LifecycleInv, Progress, Ended, Tasks
  <2> QED
    BY <2>1, <2>2
<1>2. LifecycleInv /\ [Next]_vars
        => [Running("server") /\ task'["server"] = "cancelled" /\ main' = "done"
              => ~Running("consumer") /\ ~Running("analysis")]_vars
  BY <1>1
<1> QED
  BY <1>2, LifecycleInitInv, LifecycleStepInv, PTL DEF Spec, ServedUntilDrained
=============================================================================
