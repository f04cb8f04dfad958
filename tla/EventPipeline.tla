---------------------------- MODULE EventPipeline ----------------------------
(***************************************************************************)
(* The path of a kernel event through the agent:                           *)
(*                                                                         *)
(*   eBPF ring(s) --> EventConsumer --> StateStore --> analysis pipeline   *)
(*                         |                                               *)
(*                         +--> bounded event bus --> StreamingEngine      *)
(*                                                                         *)
(* Four actors run concurrently: the kernel fills the rings, the consumer  *)
(* task drains them in ticks (event_consumer.rs), the analysis task takes  *)
(* a snapshot every 30 seconds, scans it and clears the store (main.rs),   *)
(* and the streaming engine receives from the bus (streaming_engine.rs).   *)
(* An action is the code between two awaits at which another actor can     *)
(* see a difference.                                                       *)
(***************************************************************************)
EXTENDS Naturals, SequencesExt, FiniteSets

CONSTANTS
  Workloads,     (* cgroup ids                                               *)
  Shapes,        (* the kinds of event the kernel produces, see Shape        *)
  BatchSize,     (* EventConsumer.batch_size (100 in the code)               *)
  BusCapacity,   (* StreamingConfig.channel_buffer_size (1000 in the code)   *)
  RingCapacity,  (* events that fit in a ring buffer                         *)
  MaxEvents      (* bound: how many events the kernel produces               *)

Kinds   == {"exec", "file", "net"}
Sources == Kinds \cup {"security"}
Traits  == {"sensitive", "library", "suspicious", "connect"}

(* What the consumer can tell of an event: its kind ("other" stands for the *)
(* Dns, Exit and Suspicious kinds of the unified ring), whether the bytes   *)
(* parse, whether a should_filter_* rejects it, and the traits that decide  *)
(* what a flush emits for it.                                               *)
Shape == [kind   : Kinds \cup {"other"},
          fate   : {"malformed", "noise", "kept"},
          traits : SUBSET Traits]

Events == [id : 1 .. MaxEvents, cgroup : Workloads, shape : Shapes]

ASSUME PipelineAssumption ==
  /\ Shapes \subseteq Shape
  /\ BatchSize    \in Nat \ {0}
  /\ BusCapacity  \in Nat \ {0}
  /\ RingCapacity \in Nat \ {0}
  /\ MaxEvents    \in Nat

VARIABLES
  mode,       (* EventSources: "legacy" (three rings) or "unified" (one)     *)
  ring,       (* the ring buffers, oldest event first                        *)
  produced,   (* how many events the kernel has tried to emit                *)
  overrun,    (* how many of them found their ring full                      *)
  pc,         (* where the consumer task is, see Stages                      *)
  batch,      (* exec_batch, file_batch, net_batch                           *)
  due,        (* last_flush.elapsed() >= batch_timeout                       *)
  outbox,     (* events of the running flush_all still to be processed       *)
  part,       (* how many messages of Head(outbox) have been sent            *)
  stats,      (* events_received, _dropped, _filtered, and metrics' events   *)
  store,      (* StateStore: the ids applied to each workload                *)
  bus,        (* the event bus                                               *)
  sent,       (* history: every message handed to the bus, in order          *)
  engineUp,   (* the streaming engine still holds the receiver               *)
  phase,      (* where the analysis task is                                  *)
  snapshot,   (* its copy of the store                                       *)
  todo,       (* workloads of the snapshot still to be scanned               *)
  analysed,   (* history: how often each event's evidence was scanned        *)
  stop        (* the consumer's shutdown channel holds true                  *)

kernelVars   == <<ring, produced, overrun>>
batchVars    == <<batch, due, outbox, part>>
busVars      == <<bus, sent, engineUp>>
analysisVars == <<phase, snapshot, todo, analysed>>

vars == <<mode, kernelVars, pc, batchVars, stats, store, busVars, analysisVars,
          stop>>

Stages == {"select", "check", "flush", "lastflush", "done"} \cup Sources

NoEvidence == [w \in Workloads |-> {}]
NoBatches  == [k \in Kinds |-> <<>>]
-----------------------------------------------------------------------------
Init ==
  /\ mode \in {"legacy", "unified"}
  /\ ring = [s \in Sources |-> <<>>]
  /\ produced = 0
  /\ overrun = 0
  /\ pc = "select"
  /\ batch = NoBatches
  /\ due = FALSE
  /\ outbox = <<>>
  /\ part = 0
  /\ stats = [received |-> 0, dropped |-> 0, filtered |-> 0, kept |-> 0]
  /\ store = NoEvidence
  /\ bus = <<>>
  /\ sent = <<>>
  /\ engineUp = TRUE
  /\ phase = "wait"
  /\ snapshot = NoEvidence
  /\ todo = {}
  /\ analysed = [i \in 1 .. MaxEvents |-> 0]
  /\ stop = FALSE
-----------------------------------------------------------------------------
(* The kernel: emit_event reserves a slot in the ring or counts a drop.     *)
SourceOf(shape) == IF mode = "unified" THEN "security" ELSE shape.kind

KernelEmit(shape, w) ==
  LET s == SourceOf(shape) IN
  /\ produced < MaxEvents
  /\ s \in Sources
  /\ produced' = produced + 1
  /\ IF Len(ring[s]) < RingCapacity
       THEN /\ ring' = [ring EXCEPT ![s] = Append(@, [id     |-> produced + 1,
                                                      cgroup |-> w,
                                                      shape  |-> shape])]
            /\ UNCHANGED overrun
       ELSE /\ overrun' = overrun + 1
            /\ UNCHANGED ring
  /\ UNCHANGED <<mode, pc, batchVars, stats, store, busVars, analysisVars, stop>>
-----------------------------------------------------------------------------
(* The consumer task: EventConsumer::run and what it calls.                 *)

(* The rings a tick drains, in the order of the code.                       *)
FirstStage == IF mode = "unified" THEN "security" ELSE "exec"

StageAfter(s) == CASE s = "exec" -> "file"
                   [] s = "file" -> "net"
                   [] OTHER      -> "check"

Tick ==
  /\ pc = "select"
  /\ pc' = FirstStage
  /\ UNCHANGED <<mode, kernelVars, batchVars, stats, store, busVars,
                 analysisVars, stop>>

(* Faulty: stops one event too late. *)
FullAfterLate(s, b) ==
  IF s = "security" THEN \E k \in Kinds : Len(b[k]) > BatchSize
                    ELSE Len(b[s]) > BatchSize

(* "Stop if batch is full": the legacy loops look at their own batch, the   *)
(* unified loop at all three.                                               *)
FullAfter(s, b) ==
  IF s = "security" THEN \E k \in Kinds : Len(b[k]) >= BatchSize
                    ELSE Len(b[s]) >= BatchSize

Accepts(e) == e.shape.fate = "kept" /\ e.shape.kind \in Kinds

(* Faulty: events no batch takes are not counted. *)
CountKinds(e) ==
  [received |-> stats.received + 1,
   dropped  |-> stats.dropped  + (IF e.shape.fate = "malformed" THEN 1 ELSE 0),
   kept     |-> stats.kept     + (IF Accepts(e) THEN 1 ELSE 0),
   filtered |-> stats.filtered + (IF e.shape.fate = "noise" THEN 1 ELSE 0)]

Count(e) ==
  [received |-> stats.received + 1,
   dropped  |-> stats.dropped  + (IF e.shape.fate = "malformed" THEN 1 ELSE 0),
   kept     |-> stats.kept     + (IF Accepts(e) THEN 1 ELSE 0),
   filtered |-> stats.filtered + (IF e.shape.fate = "malformed" \/ Accepts(e)
                                    THEN 0 ELSE 1)]

Push(e) == IF Accepts(e) THEN [batch EXCEPT ![e.shape.kind] = Append(@, e)] ELSE batch

(* StateStore::apply_exec, apply_file, apply_net, under the store's mutex.  *)
Apply(e) == IF Accepts(e) THEN [store EXCEPT ![e.cgroup] = @ \cup {e.id}] ELSE store

(* One round of the loop of consume_*_batch. A filtered event of a legacy   *)
(* ring takes the "continue" and skips the test for a full batch.           *)
DrainOne(s) ==
  LET e == Head(ring[s]) IN
  /\ pc = s
  /\ ring[s] # <<>>
  /\ ring'  = [ring EXCEPT ![s] = Tail(@)]
  /\ stats' = Count(e)
  /\ batch' = Push(e)
  /\ store' = Apply(e)
  /\ pc' = IF /\ FullAfter(s, batch')
              /\ s = "security" \/ e.shape.fate # "noise"
             THEN StageAfter(s)
             ELSE s
  /\ UNCHANGED <<mode, produced, overrun, due, outbox, part, busVars,
                 analysisVars, stop>>

DrainEnd(s) ==
  /\ pc = s
  /\ ring[s] = <<>>
  /\ pc' = StageAfter(s)
  /\ UNCHANGED <<mode, kernelVars, batchVars, stats, store, busVars,
                 analysisVars, stop>>

BatchTimeout ==
  /\ ~due
  /\ due' = TRUE
  /\ UNCHANGED <<mode, kernelVars, pc, batch, outbox, part, stats, store, busVars,
                 analysisVars, stop>>

(* Faulty: file events first. *)
FlushFilesFirst(b) == b["file"] \o b["exec"] \o b["net"]

(* flush_all walks the exec batch, then the file batch, then the net batch; *)
(* with three empty batches it returns at once and last_flush stays.        *)
FlushOrder(b) == b["exec"] \o b["file"] \o b["net"]

BeginFlush(stage, idle) ==
  /\ IF FlushOrder(batch) = <<>>
       THEN /\ pc' = idle
            /\ UNCHANGED outbox
       ELSE /\ pc' = stage
            /\ outbox' = FlushOrder(batch)
  /\ UNCHANGED <<mode, kernelVars, batch, due, part, stats, store, busVars,
                 analysisVars, stop>>

CheckFlush ==
  /\ pc = "check"
  /\ due \/ \E k \in Kinds : Len(batch[k]) >= BatchSize
  /\ BeginFlush("flush", "select")

CheckSkip ==
  /\ pc = "check"
  /\ ~due
  /\ \A k \in Kinds : Len(batch[k]) < BatchSize
  /\ pc' = "select"
  /\ UNCHANGED <<mode, kernelVars, batchVars, stats, store, busVars,
                 analysisVars, stop>>

(* Faulty: the flush without the break. *)
ConsumerStopNoBreak ==
  /\ pc = "select"
  /\ stop
  /\ BeginFlush("flush", "select")

(* shutdown.changed() with true in the channel: one last flush, then break. *)
ConsumerStop ==
  /\ pc = "select"
  /\ stop
  /\ BeginFlush("lastflush", "done")

(* What process_exec_batch, process_file_batch and process_net_batch emit.  *)
Messages(e) ==
  CASE e.shape.kind = "exec" -> <<"bpf", "graph">>
    [] e.shape.kind = "file" ->
         (IF "sensitive" \in e.shape.traits THEN <<"bpf">> ELSE <<>>)
         \o (IF "library" \in e.shape.traits THEN <<"bpf", "graph">> ELSE <<>>)
    [] OTHER ->
         (IF "suspicious" \in e.shape.traits THEN <<"bpf">> ELSE <<>>)
         \o (IF "connect" \in e.shape.traits THEN <<"graph">> ELSE <<>>)

Message(e, n) == [id |-> e.id, kind |-> e.shape.kind, tag |-> Messages(e)[n]]

(* tx.send(..).await: blocks while the bus is full; with the receiver gone  *)
(* it fails at once and the error is ignored.                               *)
FlushSend ==
  /\ pc \in {"flush", "lastflush"}
  /\ outbox # <<>>
  /\ part < Len(Messages(Head(outbox)))
  /\ engineUp => Len(bus) < BusCapacity
  /\ bus' = IF engineUp THEN Append(bus, Message(Head(outbox), part + 1)) ELSE bus
  /\ sent' = Append(sent, Message(Head(outbox), part + 1))
  /\ part' = part + 1
  /\ UNCHANGED <<mode, kernelVars, pc, batch, due, outbox, stats, store, engineUp,
                 analysisVars, stop>>

FlushNext ==
  /\ pc \in {"flush", "lastflush"}
  /\ outbox # <<>>
  /\ part = Len(Messages(Head(outbox)))
  /\ outbox' = Tail(outbox)
  /\ part' = 0
  /\ UNCHANGED <<mode, kernelVars, pc, batch, due, stats, store, busVars,
                 analysisVars, stop>>

(* Faulty: the file batch survives the flush. *)
FlushDoneKeepFiles ==
  /\ pc \in {"flush", "lastflush"}
  /\ outbox = <<>>
  /\ batch' = [batch EXCEPT !["exec"] = <<>>, !["net"] = <<>>]
  /\ due' = FALSE
  /\ pc' = IF pc = "flush" THEN "select" ELSE "done"
  /\ UNCHANGED <<mode, kernelVars, outbox, part, stats, store, busVars,
                 analysisVars, stop>>

FlushDone ==
  /\ pc \in {"flush", "lastflush"}
  /\ outbox = <<>>
  /\ batch' = NoBatches
  /\ due' = FALSE
  /\ pc' = IF pc = "flush" THEN "select" ELSE "done"
  /\ UNCHANGED <<mode, kernelVars, outbox, part, stats, store, busVars,
                 analysisVars, stop>>

Consumer ==
  \/ Tick \/ CheckFlush \/ CheckSkip \/ FlushSend \/ FlushNext \/ FlushDone
  \/ \E s \in Sources : DrainOne(s) \/ DrainEnd(s)
-----------------------------------------------------------------------------
(* The streaming engine: run receives one event after the other. The task   *)
(* can end (a panic in a handler): the receiver and what it holds are gone. *)
EngineReceive ==
  /\ engineUp
  /\ bus # <<>>
  /\ bus' = Tail(bus)
  /\ UNCHANGED <<mode, kernelVars, pc, batchVars, stats, store, sent, engineUp,
                 analysisVars, stop>>

EngineEnds ==
  /\ engineUp
  /\ engineUp' = FALSE
  /\ bus' = <<>>
  /\ UNCHANGED <<mode, kernelVars, pc, batchVars, stats, store, sent,
                 analysisVars, stop>>
-----------------------------------------------------------------------------
(* The analysis task: run_analysis_pipeline.                                *)
TakeSnapshot ==
  /\ phase = "wait"
  /\ snapshot' = store
  /\ todo' = {w \in Workloads : store[w] # {}}
  /\ phase' = "scan"
  /\ UNCHANGED <<mode, kernelVars, pc, batchVars, stats, store, busVars, analysed,
                 stop>>

(* A workload whose cgroup resolves to a container and whose container is   *)
(* in the pod cache is scanned, with no lock held.                          *)
ScanWorkload(w) ==
  /\ phase = "scan"
  /\ w \in todo
  /\ todo' = todo \ {w}
  /\ analysed' = [i \in 1 .. MaxEvents |->
                    IF i \in snapshot[w] THEN analysed[i] + 1 ELSE analysed[i]]
  /\ UNCHANGED <<mode, kernelVars, pc, batchVars, stats, store, busVars, phase,
                 snapshot, stop>>

(* Any other workload is passed over.                                       *)
SkipWorkload(w) ==
  /\ phase = "scan"
  /\ w \in todo
  /\ todo' = todo \ {w}
  /\ UNCHANGED <<mode, kernelVars, pc, batchVars, stats, store, busVars, phase,
                 snapshot, analysed, stop>>

(* Faulty: the store is left as it is. *)
ClearNothing ==
  /\ phase = "scan"
  /\ todo = {}
  /\ snapshot' = NoEvidence
  /\ phase' = "wait"
  /\ UNCHANGED <<mode, kernelVars, pc, batchVars, stats, store, busVars, todo,
                 analysed, stop>>

(* "Clear processed state": the whole store, whatever came in meanwhile.    *)
ClearStore ==
  /\ phase = "scan"
  /\ todo = {}
  /\ store' = NoEvidence
  /\ snapshot' = NoEvidence
  /\ phase' = "wait"
  /\ UNCHANGED <<mode, kernelVars, pc, batchVars, stats, busVars, todo, analysed,
                 stop>>

Analysis ==
  \/ TakeSnapshot \/ ClearStore
  \/ \E w \in Workloads : ScanWorkload(w) \/ SkipWorkload(w)
-----------------------------------------------------------------------------
(* The owner of the shutdown channel sends true. (The analysis task's own    *)
(* stop, between two rounds, is in module AgentLifecycle.)                   *)
RequestStop ==
  /\ ~stop
  /\ stop' = TRUE
  /\ UNCHANGED <<mode, kernelVars, pc, batchVars, stats, store, busVars,
                 analysisVars>>

Next ==
  \/ \E shape \in Shapes, w \in Workloads : KernelEmit(shape, w)
  \/ Consumer
  \/ BatchTimeout
  \/ ConsumerStop
  \/ EngineReceive
  \/ EngineEnds
  \/ Analysis
  \/ RequestStop

(* The runtime keeps polling every task, time passes, and a select! whose   *)
(* branches are ready again and again picks each of them in the end (tokio  *)
(* polls the branches in random order).                                     *)
Fairness ==
  /\ WF_vars(Consumer)
  /\ WF_vars(BatchTimeout)
  /\ WF_vars(EngineReceive)
  /\ WF_vars(Analysis)
  /\ SF_vars(ConsumerStop)

Spec == Init /\ [][Next]_vars /\ Fairness
-----------------------------------------------------------------------------
(* Properties                                                              *)

Accepted(k) == {e \in Events : e.shape.kind = k /\ e.shape.fate = "kept"}

Msgs == [id : 1 .. MaxEvents, kind : Kinds, tag : {"bpf", "graph"}]

(* The state is well formed; a batch holds only events of its own kind that *)
(* the filters of consume_*_batch let through.                              *)
TypeOK ==
  /\ mode \in {"legacy", "unified"}
  /\ ring \in [Sources -> Seq(Events)]
  /\ produced \in 0 .. MaxEvents
  /\ overrun \in Nat
  /\ pc \in Stages
  /\ batch \in [Kinds -> Seq(Events)]
  /\ \A k \in Kinds : batch[k] \in Seq(Accepted(k))
  /\ due \in BOOLEAN
  /\ outbox \in Seq(UNION {Accepted(k) : k \in Kinds})
  /\ part \in Nat
  /\ stats \in [received : Nat, dropped : Nat, filtered : Nat, kept : Nat]
  /\ store \in [Workloads -> SUBSET (1 .. MaxEvents)]
  /\ bus \in Seq(Msgs)
  /\ sent \in Seq(Msgs)
  /\ engineUp \in BOOLEAN
  /\ phase \in {"wait", "scan"}
  /\ snapshot \in [Workloads -> SUBSET (1 .. MaxEvents)]
  /\ todo \subseteq Workloads
  /\ analysed \in [1 .. MaxEvents -> Nat]
  /\ stop \in BOOLEAN

(* The memory of the consumer is bounded: whatever the order of events,     *)
(* ticks and slow flushes, no batch exceeds batch_size and the bus never    *)
(* exceeds its capacity.                                                    *)
QueuesBounded ==
  /\ \A k \in Kinds : Len(batch[k]) <= BatchSize
  /\ Len(bus) <= BusCapacity

(* Why: each stage of a tick starts with room in the batches it may fill,   *)
(* and a legacy ring holds only events of its own kind.                     *)
RoomByStage ==
  /\ pc \in {"select", "security", "exec"} =>
       \A k \in Kinds : Len(batch[k]) < BatchSize
  /\ pc = "file" => \A k \in {"file", "net"} : Len(batch[k]) < BatchSize
  /\ pc = "net" => Len(batch["net"]) < BatchSize

RingsByKind ==
  \A k \in Kinds : ring[k] \in Seq({e \in Events : e.shape.kind = k})

RingLoad == Len(ring["exec"]) + Len(ring["file"]) + Len(ring["net"])
            + Len(ring["security"])

(* No event disappears uncounted: each one the kernel produced overran its  *)
(* ring, is still in it, or was received, and each one received is counted  *)
(* once as dropped, filtered or kept (events_* and Metrics::inc_events).    *)
EveryEventAccounted ==
  /\ produced = overrun + RingLoad + stats.received
  /\ stats.received = stats.dropped + stats.filtered + stats.kept

(* The same evidence is never scanned in two rounds of the analysis task,   *)
(* although it reads a copy of the store that others keep writing.          *)
AnalysedAtMostOnce == \A i \in 1 .. MaxEvents : analysed[i] <= 1

(* With the unified ring the engine learns of a process no later than of    *)
(* what was done after it started: no exec message follows a message of a   *)
(* younger file or network event, although flush_all regroups the events by *)
(* kind. (With three rings this fails: each ring stops at its own limit.)   *)
ExecPrecedesLaterActivity ==
  mode = "unified" =>
    \A m, n \in 1 .. Len(sent) :
      m < n /\ sent[n].kind = "exec" /\ sent[m].kind # "exec"
        => sent[m].id < sent[n].id

(* The messages of kind k that event e will cause, without its first n; what *)
(* events es will cause, the first n of the first event apart.               *)
MessagesOf(e, n, k) ==
  IF e.shape.kind = k THEN [j \in 1 .. Len(Messages(e)) - n |-> Message(e, n + j)] ELSE <<>>

Remaining(es, n, k) ==
  FlattenSeq([i \in 1 .. Len(es) |-> MessagesOf(es[i], IF i = 1 THEN n ELSE 0, k)])

(* What is accepted of kind k and not sent. While a flush runs the batches  *)
(* are still full, and the outbox says what is left of them.                *)
Pending(k) ==
  IF pc \in {"flush", "lastflush"} THEN Remaining(outbox, part, k) ELSE Remaining(batch[k], 0, k)

Delivered(k) ==
  FlattenSeq([i \in 1 .. Len(sent) |-> IF sent[i].kind = k THEN <<sent[i]>> ELSE <<>>])

ExecDelivery == INSTANCE OrderedDelivery
                  WITH pending <- Pending("exec"), delivered <- Delivered("exec")
FileDelivery == INSTANCE OrderedDelivery
                  WITH pending <- Pending("file"), delivered <- Delivered("file")
NetDelivery  == INSTANCE OrderedDelivery
                  WITH pending <- Pending("net"), delivered <- Delivered("net")

(* The consumer implements ordered delivery for each kind of event: every   *)
(* message of an accepted event is handed to the bus exactly once, in order *)
(* and in the end (flush timeout, full batches, shutdown flush).            *)
ImplementsOrderedDelivery ==
  ExecDelivery!Spec /\ FileDelivery!Spec /\ NetDelivery!Spec

(* A shutdown request ends the consumer, also when the bus is full or the   *)
(* engine is gone in the middle of a flush.                                 *)
ConsumerStops == stop ~> pc = "done"

(* main.rs calls the end of a round "Clear processed state": what a clear   *)
(* removes would then have been in the snapshot the round processed.        *)
OnlyProcessedStateIsCleared ==
  [][phase = "scan" /\ phase' = "wait" =>
       \A w \in Workloads : store[w] \ store'[w] \subseteq snapshot[w]]_vars
=============================================================================
