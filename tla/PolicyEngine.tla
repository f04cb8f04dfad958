----------------------------- MODULE PolicyEngine -----------------------------
(***************************************************************************)
(* PolicyEngine of policy_engine.rs behind the RwLock of the AppState: the *)
(* list of policies is what the last reload read, the policies themselves  *)
(* are read by OPA from their files at each evaluation, one process per    *)
(* policy while the read guard is held.                                    *)
(***************************************************************************)
EXTENDS Naturals, SequencesExt

CONSTANT PolicyFiles   (* the .rego paths of the policy directory            *)

ASSUME PolicyAssumption == IsFiniteSet(PolicyFiles)

(* What a file is: "invalid" loads and fails in OPA, "silent" has no         *)
(* decision for the input.                                                   *)
FileStates == {"absent", "unreadable", "invalid", "silent", "allow", "deny"}

VARIABLES
  directory,   (* "ok", "missing" or "unreadable"                            *)
  files,       (* [PolicyFiles -> FileStates]                                *)
  policies,    (* the list loaded, in the order of read_dir                  *)
  reloaded,    (* the count the last reload answered                         *)
  skipped,     (* history: the last reload found no directory                *)
  evaluation,  (* [running, left]: policies still to ask                     *)
  asked,       (* history: the list when the evaluation began                *)
  decision     (* of the last evaluation: [by, verdict], or NoDecision       *)

policyVars ==
  <<directory, files, policies, reloaded, skipped, evaluation, asked, decision>>

NoDecision == [by |-> "none", verdict |-> "none"]

PolicyInit ==
  /\ directory \in {"ok", "missing"}
  /\ files \in [PolicyFiles -> {"absent", "deny"}]
  /\ policies = <<>> /\ reloaded = 0 /\ skipped = FALSE
  /\ evaluation = [running |-> FALSE, left |-> <<>>] /\ asked = <<>>
  /\ decision = NoDecision
-----------------------------------------------------------------------------
(* Somebody edits the directory.                                             *)
EditFile ==
  /\ \E f \in PolicyFiles, s \in FileStates : files' = [files EXCEPT ![f] = s]
  /\ UNCHANGED <<directory, policies, reloaded, skipped, evaluation, asked, decision>>

MoveDirectory ==
  /\ directory' \in {"ok", "missing", "unreadable"}
  /\ UNCHANGED <<files, policies, reloaded, skipped, evaluation, asked, decision>>

Loadable == {f \in PolicyFiles : files[f] \notin {"absent", "unreadable"}}

(* Faulty: the list is replaced while an evaluation reads it.                *)
ReloadUnlocked ==
  /\ \/ /\ directory = "missing" /\ policies' = policies /\ reloaded' = 0
     \/ /\ directory = "unreadable" /\ policies' = <<>> /\ reloaded' = 0
     \/ /\ directory = "ok" /\ policies' \in SetToSeqs(Loadable) /\ reloaded' = Len(policies')
  /\ skipped' = (directory = "missing")
  /\ UNCHANGED <<directory, files, evaluation, asked, decision>>

(* reload, under the write lock: no directory leaves the list as it is, one  *)
(* that cannot be read empties it, a file that cannot be read is left out.   *)
Reload ==
  /\ ~evaluation.running
  /\ \/ /\ directory = "missing" /\ policies' = policies /\ reloaded' = 0
     \/ /\ directory = "unreadable" /\ policies' = <<>> /\ reloaded' = 0
     \/ /\ directory = "ok" /\ policies' \in SetToSeqs(Loadable) /\ reloaded' = Len(policies')
  /\ skipped' = (directory = "missing")
  /\ UNCHANGED <<directory, files, evaluation, asked, decision>>

BeginEvaluation ==
  /\ ~evaluation.running
  /\ evaluation' = [running |-> policies # <<>>, left |-> policies]
  /\ asked' = policies
  /\ decision' = NoDecision
  /\ UNCHANGED <<directory, files, policies, reloaded, skipped>>

(* One run of OPA: the first decision ends the evaluation; a policy that has *)
(* none, or that fails, is passed over.                                      *)
AskPolicy ==
  LET f == Head(evaluation.left)
      decides == files[f] \in {"allow", "deny"} /\ directory # "missing"
  IN
    /\ evaluation.running
    /\ decision' = IF decides THEN [by |-> f, verdict |-> files[f]] ELSE decision
    /\ evaluation' = IF decides \/ Tail(evaluation.left) = <<>>
                     THEN [running |-> FALSE, left |-> <<>>]
                     ELSE [running |-> TRUE, left |-> Tail(evaluation.left)]
    /\ UNCHANGED <<directory, files, policies, reloaded, skipped, asked>>

PolicyNext ==
  EditFile \/ MoveDirectory \/ Reload \/ BeginEvaluation \/ AskPolicy

PolicySpec == PolicyInit /\ [][PolicyNext]_policyVars
-----------------------------------------------------------------------------
(* An evaluation asks one list from its first policy to its last, however    *)
(* long OPA takes; and what a reload answered is how many policies decide    *)
(* since, unless it found no directory and left the old ones in force.       *)
(* (policy_engine.rs reload and evaluate, api/policies.rs reload_policies)   *)
PoliciesAsReported ==
  /\ evaluation.running =>
       /\ asked = policies
       /\ \E n \in DOMAIN policies : evaluation.left = SubSeq(policies, n, Len(policies))
  /\ skipped \/ reloaded = Len(policies)
=============================================================================
