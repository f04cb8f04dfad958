---------------------------- MODULE ExecutionProof ----------------------------
(***************************************************************************)
(* Evidence that a CVE is being exploited (execution_proof.rs): events of  *)
(* processes are compared with the CVEs registered so far, and each match  *)
(* becomes one piece of evidence for that CVE.                             *)
(***************************************************************************)
EXTENDS Integers, Sequences, FiniteSets, Functions

CONSTANTS
  ProofCves,    (* ids, the one of Log4Shell among them                      *)
  Packages,     (* what extract_package_name makes of a path                 *)
  Actors,       (* processes                                                 *)
  Java,         (* those whose name holds "java" or "log4j"                  *)
  MaxCalls      (* bound: calls of the collector                             *)

Log4Shell == "CVE-2021-44228"

(* ConfidenceLevel as #[derive(PartialOrd)] orders it: High is the first     *)
(* variant and therefore the least, though it is meant as the most.          *)
High == 1  Medium == 2  Low == 3
Levels == {High, Medium, Low}

FileKinds == {"open", "mmap", "exec"}

ASSUME ProofAssumption ==
  /\ Log4Shell \in ProofCves /\ Java \subseteq Actors /\ MaxCalls \in Nat

VARIABLES
  packageCves,  (* <<package, cve>> registered                               *)
  proof,        (* [cve -> Seq([actor, level])]                              *)
  witnessed     (* history: the registrations and the events, in order       *)

proofVars == <<packageCves, proof, witnessed>>

ProofInit ==
  /\ packageCves = {} /\ proof = [c \in ProofCves |-> <<>>] /\ witnessed = <<>>

Witness(call) == Len(witnessed) < MaxCalls /\ witnessed' = Append(witnessed, call)

(* Faulty: a package keeps the CVE registered last.                          *)
RegisterCveLast(package, c) ==
  /\ Witness([type |-> "register", package |-> package, cve |-> c])
  /\ packageCves' = {p \in packageCves : p[1] # package} \cup {<<package, c>>}
  /\ UNCHANGED proof

RegisterCve(package, c) ==
  /\ Witness([type |-> "register", package |-> package, cve |-> c])
  /\ packageCves' = packageCves \cup {<<package, c>>}
  /\ UNCHANGED proof

(* add_evidence, for each CVE of a set.                                      *)
AddEvidence(cves, actor, level) ==
  /\ proof' = [c \in ProofCves |-> IF c \in cves
                 THEN Append(proof[c], [actor |-> actor, level |-> level]) ELSE proof[c]]
  /\ UNCHANGED packageCves

(* An address of 10/8, 172.16/12, 192.168/16 or 127/8 is not external.       *)
External(address) == address \notin {"ten", "oneSevenTwo", "oneNineTwo", "loopback"}

(* A connection to LDAP, LDAPS or RMI of the outside by a Java process.      *)
Jndi(event) ==
  event.port \in {389, 636, 1099} /\ External(event.address) /\ event.actor \in Java

ProcessNetworkEvent(event) ==
  /\ Witness(event)
  /\ AddEvidence(IF Jndi(event) THEN {Log4Shell} ELSE {}, event.actor, High)

CvesForPath(package) == {c \in ProofCves : <<package, c>> \in packageCves}

ProcessFileEvent(event) ==
  /\ Witness(event)
  /\ AddEvidence(CvesForPath(event.package), event.actor,
                 IF event.kind \in {"mmap", "exec"} THEN Medium ELSE Low)

(* The command of the exec is the process.                                   *)
ProcessExecEvent(event) ==
  /\ Witness(event)
  /\ AddEvidence(IF event.named THEN {Log4Shell} ELSE {}, event.actor, Medium)

(* get_execution_summary and has_execution_proof, which only read.           *)
OfLevel(c, l) == Cardinality({i \in DOMAIN proof[c] : proof[c][i].level = l})

Summary(c) ==
  [total |-> Len(proof[c]), high |-> OfLevel(c, High), medium |-> OfLevel(c, Medium),
   low |-> OfLevel(c, Low), actors |-> {e.actor : e \in Range(proof[c])},
   exploited |-> OfLevel(c, High) > 0]

HasExecutionProof(c, min) == \E e \in Range(proof[c]) : e.level >= min

Query == UNCHANGED proofVars

ProofNext ==
  \/ \E package \in Packages, c \in ProofCves : RegisterCve(package, c)
  \/ \E a \in Actors, port \in {389, 443}, address \in {"ten", "outside"} :
       ProcessNetworkEvent([type |-> "net", actor |-> a, port |-> port, address |-> address])
  \/ \E a \in Actors, package \in Packages, kind \in FileKinds :
       ProcessFileEvent([type |-> "file", actor |-> a, package |-> package, kind |-> kind])
  \/ \E a \in Actors, named \in BOOLEAN :
       ProcessExecEvent([type |-> "exec", actor |-> a, named |-> named])
  \/ Query

ProofSpec == ProofInit /\ [][ProofNext]_proofVars
-----------------------------------------------------------------------------
(* The events that speak for c: a file for the CVEs that were registered for *)
(* its package before it; a connection and an exec for Log4Shell alone, and  *)
(* that whether it was registered or not.                                    *)
Speaks(i, c) ==
  LET call == witnessed[i]
  IN  \/ call.type = "net" /\ c = Log4Shell /\ Jndi(call)
      \/ call.type = "file" /\ \E j \in 1 .. i - 1 :
           witnessed[j] = [type |-> "register", package |-> call.package, cve |-> c]
      \/ call.type = "exec" /\ c = Log4Shell /\ call.named

For(c) == {i \in DOMAIN witnessed : Speaks(i, c)}

(* The proof of a CVE is the events that spoke for it, no more and no less,  *)
(* and nothing that is registered or happens later takes any of it away: as  *)
(* many pieces as there were, of the processes that caused them, their       *)
(* levels adding up; it counts as exploited exactly from the connection on.  *)
(* A level that has evidence of its own is proved, and without any evidence  *)
(* none is. Which other levels a piece is enough for is left open: the code  *)
(* and its comments disagree (execution_proof.rs:34-38 and 228-233).         *)
(* (execution_proof.rs)                                                      *)
ProofIsWhatHappened ==
  \A c \in ProofCves :
    LET s == Summary(c)
    IN  /\ s.total = Cardinality(For(c)) /\ s.actors = {witnessed[i].actor : i \in For(c)}
        /\ s.total = s.high + s.medium + s.low
        /\ s.exploited <=> \E i \in For(c) : witnessed[i].type = "net"
        /\ \A l \in Levels : /\ OfLevel(c, l) > 0 => HasExecutionProof(c, l)
                            /\ HasExecutionProof(c, l) => s.total > 0
=============================================================================
