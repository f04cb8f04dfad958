---------------------------- MODULE AlertDelivery ----------------------------
(***************************************************************************)
(* From an attack path to the webhooks: the streaming engine decides when  *)
(* a path is worth an alert (streaming_engine.rs), the webhook manager     *)
(* suppresses repeats, and each sender filters, limits, sends and retries  *)
(* (webhook_sender.rs).                                                    *)
(*                                                                         *)
(* The engine handles one event to its end, all senders and retries        *)
(* included, before it receives the next; time passes at every await.      *)
(***************************************************************************)
EXTENDS Naturals, Sequences, FiniteSets

CONSTANTS
  Paths,           (* path ids                                               *)
  Confidences,     (* of a path, in tenths                                   *)
  AlertThreshold,  (* StreamingConfig.alert_threshold, in tenths             *)
  Senders,         (* WebhookManager.senders: records [min, limit, retries]  *)
  Cooldown,        (* StreamingState.alert_cooldown (30 s in the code)       *)
  Ttl,             (* WebhookManager.dedup_ttl (60 s in the code)            *)
  MaxDedup,        (* MAX_DEDUP_ENTRIES (10000 in the code)                  *)
  MaxTime,         (* bound: the clock                                       *)
  MaxEvents        (* bound: events the engine handles                       *)

High == 8          (* the 0.8 of should_alert                                *)

ASSUME AlertAssumption ==
  /\ Confidences \subseteq 0 .. 10
  /\ AlertThreshold \in 0 .. High
  /\ Senders \in Seq([min : 0 .. 4, limit : Nat, retries : Nat]) \ {<<>>}
  /\ {Cooldown, Ttl, MaxTime, MaxEvents} \subseteq Nat
  /\ MaxDedup \in Nat \ {0}

VARIABLES
  now,           (* the clock                                                *)
  events,        (* StreamingState.events_processed                          *)
  confidence,    (* path_confidence, 0 for a path that is not in the map     *)
  lastAlert,     (* last_alert: the times of a path's last crossing, if any  *)
  cache,         (* dedup_cache: [path, at]                                  *)
  pc,            (* what the engine is at: see Stages                        *)
  job,           (* the payload of the running broadcast                     *)
  sender,        (* the sender it has come to                                *)
  attempts,      (* send_with_retry: failed attempts                         *)
  count,         (* RateLimiter.event_count of each sender                   *)
  alerted,       (* history: paths alerted since they were last below High   *)
  log            (* history: the broadcasts, in order                        *)

engineVars == <<events, confidence, lastAlert, cache, alerted, log>>
sendVars   == <<job, sender, attempts, count>>
vars       == <<now, engineVars, pc, sendVars>>

Stages == {"idle", "filter", "send", "backoff", "stopped"}
NoJob  == [path |-> "none", severity |-> 0]

Recent(t, span) == now - t < span
-----------------------------------------------------------------------------
Init ==
  /\ now = 0
  /\ events = 0
  /\ confidence = [p \in Paths |-> 0]
  /\ lastAlert = [p \in Paths |-> {}]
  /\ cache = {}
  /\ pc = "idle"
  /\ job = NoJob
  /\ sender = 1
  /\ attempts = 0
  /\ count = [s \in DOMAIN Senders |-> 0]
  /\ alerted = {}
  /\ log = <<>>
-----------------------------------------------------------------------------
(* The webhook manager.                                                     *)

(* Faulty: leaves it to the cleanup of mark_sent to forget old entries. *)
IsDuplicateEver(p) == \E e \in cache : e.path = p

IsDuplicate(p) == \E e \in cache : e.path = p /\ Recent(e.at, Ttl)

Full(p) == Cardinality(cache) >= MaxDedup /\ ~\E e \in cache : e.path = p

(* Faulty: an entry of the latest time goes. *)
EvictYoungest(p) ==
  IF Full(p) THEN {cache \ {e} : e \in {f \in cache : \A g \in cache : g.at <= f.at}} ELSE {cache}

(* What may be left when room is made for p: some entry of the earliest     *)
(* time goes.                                                               *)
Evict(p) ==
  IF Full(p) THEN {cache \ {e} : e \in {f \in cache : \A g \in cache : f.at <= g.at}} ELSE {cache}

(* mark_sent: make room, insert, forget what has expired.                   *)
MarkSent(p) ==
  \E kept \in Evict(p) :
    cache' = {e \in {f \in kept : f.path # p} \cup {[path |-> p, at |-> now]} :
                Recent(e.at, Ttl)}

(* create_alert_payload, and SeverityFilter::rank of what it says.          *)
Severity(c) == CASE c >= 9 -> 4
                 [] c = 8 -> 3
                 [] c \in {6, 7} -> 2
                 [] OTHER -> 1

Broadcast(p, c) ==
  IF IsDuplicate(p)
    THEN UNCHANGED <<cache, log, pc, sendVars>>
    ELSE /\ MarkSent(p)
         /\ log' = Append(log, [path |-> p, at |-> now])
         /\ job' = [path |-> p, severity |-> Severity(c)]
         /\ sender' = 1
         /\ pc' = "filter"
         /\ UNCHANGED <<attempts, count>>
-----------------------------------------------------------------------------
(* The streaming engine: process_event.                                     *)
Handle ==
  /\ pc = "idle"
  /\ events < MaxEvents
  /\ events' = events + 1

StillAlerted(p, c) == IF c < High THEN alerted \ {p} ELSE alerted

PathDetected(p, c) ==
  /\ Handle
  /\ confidence' = [confidence EXCEPT ![p] = c]
  /\ IF c >= AlertThreshold
       THEN /\ alerted' = StillAlerted(p, c) \cup {p}
            /\ Broadcast(p, c)
       ELSE /\ alerted' = StillAlerted(p, c)
            /\ UNCHANGED <<cache, log, pc, sendVars>>
  /\ UNCHANGED <<now, lastAlert>>

Crosses(p, c) == confidence[p] < High /\ c >= High

Cooling(p) == \E t \in lastAlert[p] : Recent(t, Cooldown)

(* Faulty: the new confidence is stored before the cooldown is looked at.   *)
ShouldAlertStoredFirst(p, c) ==
  /\ confidence' = [confidence EXCEPT ![p] = c]
  /\ IF Crosses(p, c) /\ ~Cooling(p)
       THEN /\ lastAlert' = [lastAlert EXCEPT ![p] = {now}]
            /\ alerted' = alerted \cup {p}
       ELSE /\ alerted' = StillAlerted(p, c)
            /\ UNCHANGED lastAlert

(* should_alert: a crossing within the cooldown returns early, and the new  *)
(* confidence is not even stored.                                           *)
ShouldAlert(p, c) ==
  IF Crosses(p, c) /\ Cooling(p)
  THEN UNCHANGED <<confidence, lastAlert, alerted>>
  ELSE /\ confidence' = [confidence EXCEPT ![p] = c]
       /\ IF Crosses(p, c)
            THEN /\ lastAlert' = [lastAlert EXCEPT ![p] = {now}]
                 /\ alerted' = alerted \cup {p}
            ELSE /\ alerted' = StillAlerted(p, c)
                 /\ UNCHANGED lastAlert

(* handle_confidence_change prints the alert; no webhook hears of it.       *)
ConfidenceChanged(p, c) ==
  /\ Handle
  /\ ShouldAlert(p, c)
  /\ UNCHANGED <<now, cache, log, pc, sendVars>>

(* Graph updates, risk escalations and eBPF events are only reported.       *)
OtherEvent ==
  /\ Handle
  /\ UNCHANGED <<now, confidence, lastAlert, cache, alerted, log, pc, sendVars>>

Shutdown ==
  /\ pc = "idle"
  /\ pc' = "stopped"
  /\ UNCHANGED <<now, engineVars, sendVars>>
-----------------------------------------------------------------------------
(* A sender: send_alert of WebhookSender.                                   *)
Advance ==
  /\ attempts' = 0
  /\ IF sender < Len(Senders)
       THEN /\ sender' = sender + 1
            /\ pc' = "filter"
            /\ UNCHANGED job
       ELSE /\ sender' = 1
            /\ pc' = "idle"
            /\ job' = NoJob

TooMild == job.severity < Senders[sender].min

FilterOut ==
  /\ pc = "filter"
  /\ TooMild
  /\ Advance
  /\ UNCHANGED <<now, engineVars, count>>

(* check_rate_limit counts an alert also when it refuses it; reset_counters *)
(* has no caller.                                                           *)
Refuse ==
  /\ pc = "filter"
  /\ ~TooMild
  /\ count[sender] >= Senders[sender].limit
  /\ count' = [count EXCEPT ![sender] = @ + 1]
  /\ Advance
  /\ UNCHANGED <<now, engineVars>>

Accept ==
  /\ pc = "filter"
  /\ ~TooMild
  /\ count[sender] < Senders[sender].limit
  /\ count' = [count EXCEPT ![sender] = @ + 1]
  /\ pc' = "send"
  /\ UNCHANGED <<now, engineVars, job, sender, attempts>>

AttemptSucceeds ==
  /\ pc = "send"
  /\ Advance
  /\ UNCHANGED <<now, engineVars, count>>

(* Faulty: the failed attempts are not counted. *)
AttemptFailsUncounted ==
  /\ pc = "send"
  /\ IF attempts + 1 >= Senders[sender].retries
       THEN Advance
       ELSE /\ pc' = "backoff"
            /\ UNCHANGED <<job, sender, attempts>>
  /\ UNCHANGED <<now, engineVars, count>>

(* An error answer, no answer in time, no connection.                       *)
AttemptFails ==
  /\ pc = "send"
  /\ IF attempts + 1 >= Senders[sender].retries
       THEN Advance
       ELSE /\ attempts' = attempts + 1
            /\ pc' = "backoff"
            /\ UNCHANGED <<job, sender>>
  /\ UNCHANGED <<now, engineVars, count>>

Retry ==
  /\ pc = "backoff"
  /\ pc' = "send"
  /\ UNCHANGED <<now, engineVars, sendVars>>

Send == FilterOut \/ Refuse \/ Accept \/ AttemptSucceeds \/ AttemptFails \/ Retry
-----------------------------------------------------------------------------
Tick ==
  /\ now < MaxTime
  /\ now' = now + 1
  /\ UNCHANGED <<engineVars, pc, sendVars>>

Next ==
  \/ \E p \in Paths, c \in Confidences : PathDetected(p, c) \/ ConfidenceChanged(p, c)
  \/ OtherEvent
  \/ Shutdown
  \/ Send
  \/ Tick

(* The engine is polled, and an attempt ends: the client has a timeout.     *)
Spec == Init /\ [][Next]_vars /\ WF_vars(Send)
-----------------------------------------------------------------------------
(* Properties                                                              *)
Entries == [path : Paths, at : 0 .. MaxTime]

(* The state is well formed; the cache never exceeds its limit and holds    *)
(* one entry of a path.                                                     *)
TypeOK ==
  /\ now \in 0 .. MaxTime
  /\ events \in 0 .. MaxEvents
  /\ confidence \in [Paths -> Confidences \cup {0}]
  /\ lastAlert \in [Paths -> SUBSET (0 .. MaxTime)]
  /\ cache \subseteq Entries
  /\ Cardinality(cache) <= MaxDedup
  /\ \A e, f \in cache : e.path = f.path => e = f
  /\ pc \in Stages
  /\ job \in [path : Paths, severity : 1 .. 4] \cup {NoJob}
  /\ sender \in Nat
  /\ attempts \in Nat
  /\ count \in [DOMAIN Senders -> Nat]
  /\ alerted \subseteq Paths
  /\ log \in Seq(Entries)

(* No path is silently high: one whose recorded confidence is High or more  *)
(* has had its alert since it was last recorded lower, although the         *)
(* cooldown swallows crossings.                                             *)
HighMeansAlerted == \A p \in Paths : confidence[p] >= High => p \in alerted

(* The paths but its own that were broadcast at the time of the i-th        *)
(* broadcast of l or later, up to the n-th.                                 *)
PathsSince(l, i, n) ==
  {l[k].path : k \in {k \in 1 .. n : l[k].at >= l[i].at}} \ {l[i].path}

(* A path is broadcast twice within the ttl only if, meanwhile, so many     *)
(* other paths were broadcast that the cache had to forget it.              *)
RepeatsOnlyWhenCrowdedOut ==
  \A i, j \in 1 .. Len(log) :
    i < j /\ log[i].path = log[j].path /\ log[j].at - log[i].at < Ttl
      => Cardinality(PathsSince(log, i, j - 1)) >= MaxDedup

(* A detected path that is worth an alert is suppressed only if it really   *)
(* was broadcast within the ttl.                                            *)
SuppressedOnlyIfSent ==
  [][\A p \in Paths, c \in Confidences :
       PathDetected(p, c) /\ c >= AlertThreshold /\ log' = log =>
         \E i \in 1 .. Len(log) : log[i].path = p /\ Recent(log[i].at, Ttl)]_vars

(* A broadcast comes to its end whatever the endpoints do, and the engine   *)
(* takes up the next event.                                                 *)
EngineReturns == pc \in {"filter", "send", "backoff"} ~> pc = "idle"
=============================================================================
