--------------------------- MODULE ObservedGraphs ---------------------------
(***************************************************************************)
(* The two graphs that are drawn from what was observed: the services,     *)
(* findings and connections of attack_graph.rs, and the processes,         *)
(* libraries and CVEs of runtime_attack_graph.rs. They share no state.     *)
(***************************************************************************)
EXTENDS AttackChains, RuntimeGraph

(* The two graphs tell what was seen: the chains of attack_graph.rs          *)
(* (ChainsFollowWhatWasSeen), and the findings that runtime_attack_graph.rs  *)
(* attaches its paths to (FindingsToldOfSightings).                          *)
GraphsTellWhatWasSeen == ChainsFollowWhatWasSeen /\ FindingsToldOfSightings
=============================================================================
