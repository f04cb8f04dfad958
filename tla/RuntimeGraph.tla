----------------------------- MODULE RuntimeGraph -----------------------------
(***************************************************************************)
(* The first attack graph (runtime_attack_graph.rs): processes, libraries, *)
(* endpoints and CVEs, the paths built for findings, and what is attached  *)
(* to them. Every call adds edges, and a CVE is joined to the libraries    *)
(* that are known when it comes.                                           *)
(*                                                                         *)
(* A node is its kind and its name. process_libraries,                     *)
(* process_connections and cve_to_library are written and never read, and  *)
(* are left out.                                                           *)
(***************************************************************************)
EXTENDS Naturals, SequencesExt, FiniteSets

CONSTANTS
  LibraryPaths,
  Advisories,    (* <<cve, package>>                                         *)
  Matching,      (* <<library, package>>: library_matches_package            *)
  CveOf,         (* [finding -> cve]                                         *)
  ReachableOnes, (* findings whose runtime disposition is Reachable          *)
  MaxSteps       (* bound: calls                                             *)

ASSUME RuntimeGraphAssumption == MaxSteps \in Nat /\ ReachableOnes \subseteq DOMAIN CveOf

VARIABLES
  items,     (* nodes: <<kind, name>>                                        *)
  joins,     (* edges [from, to, kind], oldest first                         *)
  attached,  (* per finding, the confidences of its attack_path signals      *)
  made       (* history: the calls                                           *)

runtimeVars == <<items, joins, attached, made>>

RuntimeInit ==
  /\ items = {} /\ joins = <<>> /\ made = <<>>
  /\ attached = [f \in DOMAIN CveOf |-> <<>>]

Join(from, to, kind) == [from |-> from, to |-> to, kind |-> kind]

(* process_library_load.                                                     *)
LoadLibraryPath(path) ==
  LET process == <<"proc", "p">>  library == <<"lib", path>>
  IN  /\ items' = items \cup {process, library}
      /\ joins' = Append(joins, Join(process, library, "LibraryLoaded"))
      /\ made' = Append(made, [call |-> "load", arg |-> path])
      /\ UNCHANGED attached

(* process_network_event.                                                    *)
ConnectOut ==
  LET process == <<"proc", "p">>  endpoint == <<"net", "n">>
  IN  /\ items' = items \cup {process, endpoint}
      /\ joins' = Append(joins, Join(process, endpoint, "NetworkConnection"))
      /\ made' = Append(made, [call |-> "connect", arg |-> "n"])
      /\ UNCHANGED attached

(* The libraries a CVE is joined to.                                         *)
VulnerableLibraries(a) == {i \in items : i[1] = "lib" /\ <<i[2], a[2]>> \in Matching}

(* associate_cve_with_library.                                               *)
AssociateCve(a) ==
  LET libraries == SetToSeq(VulnerableLibraries(a))
  IN  /\ items' = items \cup {<<"vuln", a[1]>>}
      /\ joins' = joins \o [i \in DOMAIN libraries |->
                              Join(<<"vuln", a[1]>>, libraries[i], "Vulnerable")]
      /\ made' = Append(made, [call |-> "associate", arg |-> a])
      /\ UNCHANGED attached

(* The edges that put libraries on the path of a CVE.                        *)
OnPath(cve) ==
  {i \in DOMAIN joins : joins[i].from = <<"vuln", cve>> /\ joins[i].kind = "Vulnerable"}

(* Of a path with n libraries: with the CVE, it has n + 1 nodes. Hundredths. *)
PathConfidence(n) == IF n >= 3 THEN 85 ELSE IF n >= 2 THEN 70 ELSE 50

(* build_attack_paths: a path for each finding that is reachable.            *)
PathsOf(findings) == {CveOf[f] : f \in findings \cap ReachableOnes}

(* attach_attack_paths_to_findings: one signal per indicator, by CVE; the    *)
(* paths of a CVE differ in their risk only.                                 *)
AttachPaths(findings) ==
  /\ attached' = [f \in DOMAIN CveOf |->
       IF f \in findings /\ CveOf[f] \in PathsOf(findings)
         THEN LET n == Cardinality(OnPath(CveOf[f]))
              IN  attached[f] \o [i \in 1 .. n |-> PathConfidence(n)]
         ELSE attached[f]]
  /\ made' = Append(made, [call |-> "attach", arg |-> findings])
  /\ UNCHANGED <<items, joins>>

(* get_attack_path_summaries, to_dot: they read.                             *)
Summarise == UNCHANGED runtimeVars

RuntimeNext ==
  \/ /\ Len(made) < MaxSteps
     /\ \/ \E path \in LibraryPaths : LoadLibraryPath(path)
        \/ ConnectOut
        \/ \E a \in Advisories : AssociateCve(a)
        \/ \E findings \in SUBSET DOMAIN CveOf : AttachPaths(findings)
  \/ Summarise

RuntimeSpec == RuntimeInit /\ [][RuntimeNext]_runtimeVars
-----------------------------------------------------------------------------
(* The sightings of vulnerable libraries before the n-th call: an advisory   *)
(* of the CVE that came when the library was loaded.                         *)
Sightings(cve, n) ==
  {s \in (1 .. n - 1) \X LibraryPaths :
     /\ made[s[1]].call = "associate" /\ made[s[1]].arg[1] = cve
     /\ <<s[2], made[s[1]].arg[2]>> \in Matching
     /\ \E k \in 1 .. s[1] - 1 : made[k].call = "load" /\ made[k].arg = s[2]}

(* What the i-th call tells a finding.                                       *)
Told(f, i) ==
  IF /\ made[i].call = "attach" /\ f \in made[i].arg
     /\ \E g \in made[i].arg \cap ReachableOnes : CveOf[g] = CveOf[f]
    THEN LET n == Cardinality(Sightings(CveOf[f], i))
         IN  [j \in 1 .. n |-> PathConfidence(n)]
    ELSE <<>>

(* A finding is told of the libraries that were loaded when its CVE was      *)
(* associated, each time it was, and of no other, and only together with a   *)
(* reachable finding of its CVE. Connections are no part of it: they are in  *)
(* no path that the code builds, though runtime_attack_graph.rs:2-10 draws   *)
(* them into one. Whether they should be is not asked here.                  *)
(* (process_library_load, associate_cve_with_library,                        *)
(* build_path_for_finding, attach_attack_paths_to_findings)                  *)
FindingsToldOfSightings ==
  \A f \in DOMAIN CveOf : attached[f] = FlattenSeq([i \in 1 .. Len(made) |-> Told(f, i)])
=============================================================================
