----------------------------- MODULE BatchExport -----------------------------
(***************************************************************************)
(* The batch exporter of webhook.rs: findings are collected and sent in    *)
(* one request, with the retries of a single finding. It is used through   *)
(* &mut self, so nothing is pushed while a flush waits for its endpoint.   *)
(* Findings are numbered in the order the exporter accepted them.          *)
(***************************************************************************)
EXTENDS FindingPath

CONSTANTS
  BatchSize,    (* batch_size; 0 flushes as soon as there is a finding       *)
  BatchTimeout, (* batch_timeout_secs                                        *)
  MaxPushed     (* bound: findings accepted                                  *)

ASSUME BatchAssumption == {BatchSize, BatchTimeout, MaxPushed} \subseteq Nat

VARIABLES
  batch,        (* the findings collected                                    *)
  waited,       (* time since last_flush, up to BatchTimeout                 *)
  flushing,     (* the findings the running flush took, <<>> when none runs  *)
  flush,        (* its export, see NoExport                                  *)
  pushed,       (* history: findings accepted                                *)
  ended,        (* history: findings of the flushes that ended, in order     *)
  outcome       (* history: how the last of those flushes ended              *)

batchVars == <<batch, waited, flushing, flush, pushed, ended, outcome>>

BatchInit ==
  /\ batch = <<>> /\ waited = 0 /\ flushing = <<>> /\ flush = NoExport
  /\ pushed = 0 /\ ended = <<>> /\ outcome = NoExport

(* A finding below the endpoint's priority is dropped here.                  *)
Push ==
  /\ flushing = <<>> /\ pushed < MaxPushed
  /\ \E rank \in 0 .. 4 :
       /\ Accepts([rank |-> rank])
       /\ batch' = Append(batch, pushed + 1) /\ pushed' = pushed + 1
  /\ UNCHANGED <<waited, flushing, flush, ended, outcome>>

ShouldFlush ==
  /\ batch # <<>>
  /\ Len(batch) >= BatchSize \/ waited >= BatchTimeout

(* flush takes the batch and restarts the clock before it sends anything.    *)
StartFlush ==
  /\ flushing = <<>> /\ ShouldFlush
  /\ flushing' = batch /\ batch' = <<>> /\ waited' = 0
  /\ UNCHANGED <<flush, pushed, ended, outcome>>

(* One request of export_batch. A batch that is not delivered in the end is  *)
(* given up: its findings do not return to the batch.                        *)
SendBatch(reply) ==
  LET x == [tries  |-> flush.tries + 1,
            taken  |-> flush.taken + (IF reply \in {"ok", "silent"} THEN 1 ELSE 0),
            silent |-> flush.silent + (IF reply = "silent" THEN 1 ELSE 0),
            last   |-> reply]
  IN
    /\ flushing # <<>>
    /\ IF LastAttempt(x)
       THEN /\ flush' = NoExport /\ outcome' = x
            /\ ended' = ended \o flushing /\ flushing' = <<>>
       ELSE flush' = x /\ UNCHANGED <<flushing, ended, outcome>>
    /\ UNCHANGED <<batch, waited, pushed>>

BatchTick ==
  /\ waited' = IF waited < BatchTimeout THEN waited + 1 ELSE waited
  /\ UNCHANGED <<batch, flushing, flush, pushed, ended, outcome>>

BatchNext ==
  \/ Push \/ StartFlush \/ BatchTick
  \/ \E reply \in {"ok", "refused", "failed", "lost", "silent"} : SendBatch(reply)
-----------------------------------------------------------------------------
(* Every finding the batch exporter accepted is in exactly one place, sent,  *)
(* on its way or still collected, in the order of its arrival.               *)
BatchesKeepTheirFindings ==
  ended \o flushing \o batch = [i \in 1 .. pushed |-> i]

(* No finding is exported behind the endpoint's back: one it got more than   *)
(* once it had let go unanswered, one it never took it refused or all the    *)
(* attempts were spent on, alone (webhook.rs export_finding) or in a batch   *)
(* (export_batch), and a batch keeps what it was given.                      *)
ExportsAccounted ==
  Accounted(settled) /\ Accounted(outcome) /\ BatchesKeepTheirFindings
=============================================================================
