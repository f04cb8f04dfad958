--------------------------- MODULE SafeEnforcement ---------------------------
(***************************************************************************)
(* SafeEnforcer of safe_enforcement.rs: an action is taken only past the   *)
(* gate of evaluate and a cooldown, and is recorded under the cleaned name *)
(* of its CVE so that it can be undone.                                    *)
(***************************************************************************)
EXTENDS Naturals, Sequences

CONSTANTS
  Cves,           (* the names that findings carry                           *)
  CleanName(_),   (* sanitize_shell_arg: the name without unsafe characters  *)
  Cooldown,       (* the 300 seconds                                         *)
  MaxActions      (* bound: actions taken                                    *)

ASSUME SafeAssumption ==
  /\ Cooldown \in Nat /\ MaxActions \in Nat
  /\ \A c \in Cves : CleanName(CleanName(c)) = CleanName(c)

VARIABLES
  mode,           (* Audit, Warn or Enforce                                  *)
  applied,        (* applied_actions: cleaned name -> number of the action   *)
  remaining,      (* time until cooldown_until, 0 when there is none         *)
  taken,          (* history: [cve, gap] of the actions in their order, gap  *)
                  (* the time since the action before                        *)
  idle            (* history: time since the last action, at most Cooldown   *)

safeVars == <<mode, applied, remaining, taken, idle>>

Names == Cves \union {CleanName(c) : c \in Cves}

SafeInit ==
  /\ mode \in {"Audit", "Warn", "Enforce"}
  /\ applied = [n \in Names |-> 0]
  /\ remaining = 0
  /\ taken = <<>>
  /\ idle = Cooldown
-----------------------------------------------------------------------------
(* What evaluate looks at: a score above 8, EPSS at its minimum, the KEV     *)
(* list and the priority. A rollback plan is always held to exist.           *)
Checks == [proven : BOOLEAN, epss : BOOLEAN, kev : BOOLEAN, critical : BOOLEAN]

ProductionSafe(f) == f.proven /\ f.epss /\ f.kev

ShouldEnforce(f) == mode = "Enforce" /\ ProductionSafe(f) /\ f.critical

CooledDown == remaining = 0

(* Faulty: as entry().or_insert would do, which keeps the first action.      *)
RecordedOnce(name, n) == [applied EXCEPT ![name] = IF @ = 0 THEN n ELSE @]

(* The record an action leaves under its name.                               *)
Recorded(name, n) == [applied EXCEPT ![name] = n]

(* enforce: refused by the gate or the cooldown with an error.               *)
Enforce(c, f) ==
  /\ IF ShouldEnforce(f) /\ CooledDown
     THEN /\ Len(taken) < MaxActions
          /\ taken' = Append(taken, [cve |-> c, gap |-> idle, gate |-> f])
          /\ applied' = Recorded(CleanName(c), Len(taken) + 1)
          /\ remaining' = Cooldown
          /\ idle' = 0
     ELSE UNCHANGED <<taken, applied, remaining, idle>>
  /\ UNCHANGED mode

(* rollback: the command on record for exactly this name; it stays there.    *)
Rollback(name) == applied[name]

SafeTick ==
  /\ remaining > 0
  /\ remaining' = remaining - 1
  /\ idle' = IF idle < Cooldown THEN idle + 1 ELSE idle
  /\ UNCHANGED <<mode, applied, taken>>

SafeNext ==
  \/ \E c \in Cves, f \in Checks : Enforce(c, f)
  \/ SafeTick
-----------------------------------------------------------------------------
(* An action is lost to rollback only when a later one was taken for a CVE   *)
(* of the same cleaned name, a cooldown or more after it; else the rollback  *)
(* of the cleaned name undoes it. Every action was let through by all of     *)
(* the checks. (enforce, rollback; the record is keyed by CVE, so the second *)
(* action of a CVE replaces the command that undoes the first.)              *)
LostOnlyToALaterAction ==
  \A n \in 1..Len(taken) :
    /\ n > 1 => taken[n].gap >= Cooldown
    /\ ProductionSafe(taken[n].gate) /\ taken[n].gate.critical
    /\ LET name == CleanName(taken[n].cve)
           later == {m \in (n + 1)..Len(taken) : CleanName(taken[m].cve) = name}
       IN IF later = {} THEN Rollback(name) = n ELSE Rollback(name) \in later
=============================================================================
