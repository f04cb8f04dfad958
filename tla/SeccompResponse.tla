--------------------------- MODULE SeccompResponse ---------------------------
(***************************************************************************)
(* EnforcementController of enforcement.rs: the response to a finding is a *)
(* list of actions fixed by its priority. Clones of the controller share   *)
(* the syscall baselines and the statuses, each behind a lock of its own,  *)
(* so responses to several findings and the recording of syscalls          *)
(* interleave between the locks.                                           *)
(***************************************************************************)
EXTENDS Naturals, Sequences, FiniteSets

CONSTANTS
  Findings,       (* responses under way: a task for each finding            *)
  Workloads,
  WorkloadOf(_),  (* the workload a finding is about                         *)
  Syscalls,       (* that workloads make                                     *)
  Essential,      (* the syscalls that every profile allows                  *)
  MaxResponses    (* bound: process_finding calls                            *)

ASSUME ResponseAssumption ==
  /\ IsFiniteSet(Findings) /\ MaxResponses \in Nat
  /\ \A f \in Findings : WorkloadOf(f) \in Workloads

VARIABLES
  auto_seccomp,   (* of the configuration                                    *)
  baseline,       (* syscall_baselines                                       *)
  statuses,       (* per workload, the status words of apply_seccomp         *)
  response,       (* per finding: [todo, floor], see NoResponse              *)
  applications,   (* history: apply_seccomp results with "Applied"           *)
  profiles,       (* history: [workload, floor, names] of the generated ones *)
  responses       (* process_finding calls so far                            *)

responseVars ==
  <<auto_seccomp, baseline, statuses, response, applications, profiles, responses>>

(* todo: the actions left. floor: history, the baseline when the call began. *)
NoResponse == [todo |-> <<>>, floor |-> {}]

ResponseInit ==
  /\ auto_seccomp \in BOOLEAN
  /\ baseline = [w \in Workloads |-> {}]
  /\ statuses = [w \in Workloads |-> <<>>]
  /\ response = [f \in Findings |-> NoResponse]
  /\ applications = [w \in Workloads |-> 0]
  /\ profiles = {}
  /\ responses = 0
-----------------------------------------------------------------------------
(* from_priority, less what process_finding skips. "Apply" is the status     *)
(* that apply_seccomp stores, "Profile" the profile it generates after.      *)
Actions(priority) ==
  CASE priority = "Critical" /\ auto_seccomp ->
         <<"Generate", "Apply", "Profile", "BlockEgress">>
    [] priority = "Critical" /\ ~auto_seccomp -> <<"Generate", "BlockEgress">>
    [] priority = "High" -> <<"Generate", "Notify">>
    [] OTHER -> <<"Notify">>

RecordSyscalls(w, calls) ==
  /\ baseline' = [baseline EXCEPT ![w] = @ \union calls]
  /\ UNCHANGED <<auto_seccomp, statuses, response, applications, profiles, responses>>

Respond(f, priority) ==
  /\ response[f].todo = <<>>
  /\ responses < MaxResponses
  /\ responses' = responses + 1
  /\ response' = [response EXCEPT ![f] =
       [todo |-> Actions(priority), floor |-> baseline[WorkloadOf(f)]]]
  /\ UNCHANGED <<auto_seccomp, baseline, statuses, applications, profiles>>

Advance(f) == response' = [response EXCEPT ![f].todo = Tail(@)]

(* generate_seccomp_profile: the baseline is copied under its lock and       *)
(* merged with the essential syscalls.                                       *)
Allowed(w) == Essential \union baseline[w]

Generate(f) ==
  LET w == WorkloadOf(f) IN
    /\ response[f].todo # <<>> /\ Head(response[f].todo) \in {"Generate", "Profile"}
    /\ profiles' = profiles \union
         {[workload |-> w, floor |-> response[f].floor, names |-> Allowed(w)]}
    /\ applications' = IF Head(response[f].todo) = "Profile"
                       THEN [applications EXCEPT ![w] = @ + 1] ELSE applications
    /\ Advance(f)
    /\ UNCHANGED <<auto_seccomp, baseline, statuses, responses>>

(* Faulty: the list of a workload is replaced, not extended.                 *)
StoredAfresh(w) == [statuses EXCEPT ![w] = <<"Applying">>]

(* The status apply_seccomp stores, once for all: what it returns later is a *)
(* changed copy.                                                             *)
Stored(w) == [statuses EXCEPT ![w] = Append(@, "Applying")]

StoreStatus(f) ==
  /\ response[f].todo # <<>> /\ Head(response[f].todo) = "Apply"
  /\ statuses' = Stored(WorkloadOf(f))
  /\ Advance(f)
  /\ UNCHANGED <<auto_seccomp, baseline, applications, profiles, responses>>

(* block_egress and a notification: a result and no state.                   *)
Report(f) ==
  /\ response[f].todo # <<>> /\ Head(response[f].todo) \in {"BlockEgress", "Notify"}
  /\ Advance(f)
  /\ UNCHANGED <<auto_seccomp, baseline, statuses, applications, profiles, responses>>

ResponseNext ==
  \/ \E f \in Findings : Generate(f) \/ StoreStatus(f) \/ Report(f)
  \/ \E f \in Findings, p \in {"Critical", "High", "Medium"} : Respond(f, p)
  \/ \E w \in Workloads, s \in Syscalls : RecordSyscalls(w, {s})
-----------------------------------------------------------------------------
(* Every application of a profile is on record, and for ever as under way:   *)
(* the statuses of a workload are as many as the applications that returned  *)
(* "Applied" and those between their status and their profile, and none of   *)
(* them ever changes. No profile forbids what the workload was known to do   *)
(* when the response to the finding began. (enforcement.rs apply_seccomp,    *)
(* get_status, record_syscalls, generate_seccomp_profile)                    *)
ApplicationsOnRecord ==
  \A w \in Workloads :
    /\ Len(statuses[w]) =
         applications[w] + Cardinality({f \in Findings :
           WorkloadOf(f) = w /\ response[f].todo # <<>> /\ Head(response[f].todo) = "Profile"})
    /\ \A i \in 1 .. Len(statuses[w]) : statuses[w][i] = "Applying"
    /\ \A p \in profiles : Essential \union p.floor \subseteq p.names
=============================================================================
