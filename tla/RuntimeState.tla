---------------------------- MODULE RuntimeState ----------------------------
(***************************************************************************)
(* The two stores of state.rs side by side: FindingStore (FindingBoard)    *)
(* and the workloads of StateStore (WorkloadEvidence). They share nothing, *)
(* so that a behaviour of both satisfies the specification of each.        *)
(***************************************************************************)
EXTENDS FindingBoard, WorkloadEvidence

(* state.rs loses only to its limits: the ring of findings to those it       *)
(* evicted (PagesLoseOnlyToEviction), the evidence of a workload to full     *)
(* sets and lists (EvidenceLostOnlyToLimits).                                *)
StateLostOnlyToLimits == PagesLoseOnlyToEviction /\ EvidenceLostOnlyToLimits
=============================================================================
