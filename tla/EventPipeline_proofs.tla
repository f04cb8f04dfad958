------------------------- MODULE EventPipeline_proofs -------------------------
(***************************************************************************)
(* Safety of the event pipeline for every number of workloads, events and  *)
(* shapes, and every capacity of the rings, the batches and the bus; and   *)
(* that the consumer implements the safety part of OrderedDelivery.        *)
(***************************************************************************)
EXTENDS EventPipeline, InductionFacts, SequenceTheorems, TLAPS

(* Drained events are events, and the rest of the ring is a ring.           *)
LEMMA RingHead ==
  ASSUME NEW S, NEW q \in Seq(S), q # <<>>
  PROVE  /\ Head(q) \in S
         /\ Tail(q) \in Seq(S)
         /\ Len(Tail(q)) = Len(q) - 1
  OBVIOUS

(* The sources and the stages named after them.                             *)
LEMMA StageTyped ==
  ASSUME NEW s \in Sources
  PROVE  /\ StageAfter(s) \in Stages
         /\ s \in Stages
         /\ StageAfter(s) \in {"file", "net", "check"}
  BY DEF StageAfter, Stages, Sources, Kinds

(* Push appends an accepted event to the batch of its kind and leaves the   *)
(* other batches alone.                                                     *)
LEMMA PushTyped ==
  ASSUME TypeOK, NEW e \in Events
  PROVE  /\ Push(e) \in [Kinds -> Seq(Events)]
         /\ \A k \in Kinds : Push(e)[k] \in Seq(Accepted(k))
         /\ \A k \in Kinds : Len(Push(e)[k]) =
              IF Accepts(e) /\ e.shape.kind = k THEN Len(batch[k]) + 1
                                                ELSE Len(batch[k])
<1>1. CASE ~Accepts(e)
  BY <1>1 DEF TypeOK, Push
<1>2. CASE Accepts(e)
  <2> DEFINE kind == e.shape.kind
  <2>1. /\ kind \in Kinds
        /\ e \in Accepted(kind)
    BY <1>2 DEF Accepts, Accepted
  <2>2. Push(e) = [batch EXCEPT ![kind] = Append(batch[kind], e)]
    BY <1>2 DEF Push
  <2>3. /\ Append(batch[kind], e) \in Seq(Events)
        /\ Append(batch[kind], e) \in Seq(Accepted(kind))
        /\ Len(Append(batch[kind], e)) = Len(batch[kind]) + 1
    BY <2>1 DEF TypeOK
  <2> QED
    BY <1>2, <2>1, <2>2, <2>3 DEF TypeOK
<1> QED
  BY <1>1, <1>2

(* Count adds one event to received and to exactly one of the other three.  *)
LEMMA CountTyped ==
  ASSUME TypeOK, NEW e \in Events
  PROVE  /\ Count(e) \in [received : Nat, dropped : Nat, filtered : Nat, kept : Nat]
         /\ Count(e).received = stats.received + 1
         /\ Count(e).dropped + Count(e).filtered + Count(e).kept
              = stats.dropped + stats.filtered + stats.kept + 1
<1>1. stats \in [received : Nat, dropped : Nat, filtered : Nat, kept : Nat]
  BY DEF TypeOK
<1>2. CASE e.shape.fate = "malformed"
  BY <1>1, <1>2 DEF Count, Accepts
<1>3. CASE e.shape.fate # "malformed" /\ Accepts(e)
  BY <1>1, <1>3 DEF Count
<1>4. CASE e.shape.fate # "malformed" /\ ~Accepts(e)
  BY <1>1, <1>4 DEF Count
<1> QED
  BY <1>2, <1>3, <1>4
-----------------------------------------------------------------------------
(* Type correctness.                                                        *)
LEMMA InitTypeOK == Init => TypeOK
<1> SUFFICES ASSUME Init PROVE TypeOK
  OBVIOUS
<1>1. MaxEvents \in Nat
  BY PipelineAssumption
<1>2. /\ ring \in [Sources -> Seq(Events)]
      /\ batch \in [Kinds -> Seq(Events)]
      /\ \A k \in Kinds : batch[k] \in Seq(Accepted(k))
  BY DEF Init, NoBatches
<1>3. /\ outbox \in Seq(UNION {Accepted(k) : k \in Kinds})
      /\ bus \in Seq(Msgs)
      /\ sent \in Seq(Msgs)
  BY DEF Init
<1>4. /\ store \in [Workloads -> SUBSET (1 .. MaxEvents)]
      /\ snapshot \in [Workloads -> SUBSET (1 .. MaxEvents)]
      /\ analysed \in [1 .. MaxEvents -> Nat]
  BY DEF Init, NoEvidence
<1>5. due \in BOOLEAN /\ engineUp \in BOOLEAN /\ stop \in BOOLEAN
  BY Zenon DEF Init
<1>6. /\ produced \in 0 .. MaxEvents /\ overrun \in Nat /\ part \in Nat
      /\ stats \in [received : Nat, dropped : Nat, filtered : Nat, kept : Nat]
  BY <1>1 DEF Init
<1>7. /\ mode \in {"legacy", "unified"} /\ pc \in Stages
      /\ phase \in {"wait", "scan"} /\ todo \subseteq Workloads
  BY DEF Init, Stages
<1> QED
  BY <1>2, <1>3, <1>4, <1>5, <1>6, <1>7 DEF TypeOK

LEMMA KernelEmitTypeOK ==
  ASSUME TypeOK, NEW shape \in Shapes, NEW w \in Workloads, KernelEmit(shape, w)
  PROVE  TypeOK'
<1> DEFINE e == [id |-> produced + 1, cgroup |-> w, shape |-> shape]
           s == SourceOf(shape)
<1>1. /\ produced' = produced + 1
      /\ produced' \in 0 .. MaxEvents
      /\ e \in Events
      /\ s \in Sources
  BY PipelineAssumption DEF KernelEmit, TypeOK, Events
<1>2. Append(ring[s], e) \in Seq(Events)
  BY <1>1 DEF TypeOK
<1>3. ring' \in [Sources -> Seq(Events)]
  <2>1. CASE Len(ring[s]) < RingCapacity
    BY <1>1, <1>2, <2>1 DEF KernelEmit, TypeOK
  <2>2. CASE ~(Len(ring[s]) < RingCapacity)
    BY <2>2 DEF KernelEmit, TypeOK
  <2> QED
    BY <2>1, <2>2
<1>4. produced' \in 0 .. MaxEvents /\ overrun' \in Nat
  BY SMTT(60), <1>1, PipelineAssumption DEF KernelEmit, TypeOK
<1>5. UNCHANGED <<mode, pc, batchVars, stats, store, busVars, analysisVars, stop>>
  BY DEF KernelEmit
<1> QED
  BY <1>3, <1>4, <1>5, Zenon DEF TypeOK, batchVars, busVars, analysisVars

(* A drained event is pushed, applied and counted.                          *)
LEMMA DrainOneTypeOK ==
  ASSUME TypeOK, NEW s \in Sources, DrainOne(s)
  PROVE  TypeOK'
<1> DEFINE e == Head(ring[s])
<1>1. ring[s] \in Seq(Events) /\ ring[s] # <<>>
  BY DEF DrainOne, TypeOK
<1>2. e \in Events /\ Tail(ring[s]) \in Seq(Events)
  BY <1>1, RingHead
<1>3. ring' \in [Sources -> Seq(Events)]
  BY <1>2 DEF DrainOne, TypeOK
<1>4. /\ batch' \in [Kinds -> Seq(Events)]
      /\ \A k \in Kinds : batch'[k] \in Seq(Accepted(k))
  BY <1>2, PushTyped DEF DrainOne
<1>5. stats' \in [received : Nat, dropped : Nat, filtered : Nat, kept : Nat]
  BY <1>2, CountTyped DEF DrainOne
<1>6. store' \in [Workloads -> SUBSET (1 .. MaxEvents)]
  <2>1. e.id \in 1 .. MaxEvents /\ e.cgroup \in Workloads
    BY <1>2 DEF Events
  <2>2. store' = Apply(e)
    BY DEF DrainOne
  <2>3. CASE Accepts(e)
    BY <2>1, <2>2, <2>3 DEF Apply, TypeOK
  <2>4. CASE ~Accepts(e)
    BY <2>2, <2>4 DEF Apply, TypeOK
  <2> QED
    BY <2>3, <2>4
<1>7. pc' \in Stages
  BY StageTyped DEF DrainOne
<1> QED
  BY <1>3, <1>4, <1>5, <1>6, <1>7 DEF DrainOne, TypeOK, Accepted, busVars, analysisVars

(* The messages of an accepted event are messages.                          *)
LEMMA MessageTyped ==
  ASSUME NEW k \in Kinds, NEW e \in Accepted(k),
         NEW n \in Nat, n < Len(Messages(e))
  PROVE  Message(e, n + 1) \in Msgs
<1>1. e.id \in 1 .. MaxEvents /\ e.shape.kind \in Kinds
  BY DEF Accepted, Events
<1>2. Messages(e) \in Seq({"bpf", "graph"})
  <2> DEFINE S == Seq({"bpf", "graph"})
  <2>1. <<"bpf", "graph">> \in S /\ <<"bpf">> \in S /\ <<"graph">> \in S /\ <<>> \in S
    OBVIOUS
  <2>2. \A a, b \in S : a \o b \in S
    OBVIOUS
  <2> HIDE DEF S
  <2>3. Messages(e) \in S
    BY <2>1, <2>2 DEF Messages
  <2> QED
    BY <2>3 DEF S
<1>3. Messages(e)[n + 1] \in {"bpf", "graph"}
  BY <1>2
<1> QED
  BY <1>1, <1>3 DEF Message, Msgs

LEMMA FlushOrderTyped ==
  ASSUME TypeOK
  PROVE  FlushOrder(batch) \in Seq(UNION {Accepted(k) : k \in Kinds})
<1> DEFINE U == UNION {Accepted(k) : k \in Kinds}
<1>1. \A k \in Kinds : Accepted(k) \subseteq U
  OBVIOUS
<1>2. \A k \in Kinds : \A i \in 1 .. Len(batch[k]) : batch[k][i] \in U
  BY SMTT(60), <1>1 DEF TypeOK
<1>3. \A k \in Kinds : batch[k] \in Seq(U)
  BY <1>2 DEF TypeOK
<1> HIDE DEF U
<1>4. batch["exec"] \in Seq(U) /\ batch["file"] \in Seq(U) /\ batch["net"] \in Seq(U)
  BY <1>3 DEF Kinds
<1> QED
  BY <1>4 DEF FlushOrder, U

LEMMA BeginFlushTypeOK ==
  ASSUME TypeOK, NEW stage \in Stages, NEW idle \in Stages, BeginFlush(stage, idle)
  PROVE  TypeOK'
<1>1. outbox' \in Seq(UNION {Accepted(k) : k \in Kinds})
  BY FlushOrderTyped DEF BeginFlush, TypeOK
<1>2. pc' \in Stages
  BY DEF BeginFlush
<1> QED
  BY <1>1, <1>2
     DEF BeginFlush, TypeOK, Accepted, kernelVars, busVars, analysisVars

LEMMA FlushSendTypeOK ==
  ASSUME TypeOK, FlushSend
  PROVE  TypeOK'
<1> DEFINE e == Head(outbox)
           U == UNION {Accepted(k) : k \in Kinds}
<1>1. outbox \in Seq(U) /\ outbox # <<>> /\ part \in Nat
  BY DEF FlushSend, TypeOK
<1>2. e \in U
  BY <1>1, RingHead
<1>3. PICK k \in Kinds : e \in Accepted(k)
  BY <1>2
<1>4. Message(e, part + 1) \in Msgs
  BY <1>1, <1>3, MessageTyped DEF FlushSend
<1>5. bus' \in Seq(Msgs) /\ sent' \in Seq(Msgs)
  BY <1>4 DEF FlushSend, TypeOK
<1>6. part' \in Nat
  BY <1>1 DEF FlushSend
<1>7. UNCHANGED <<mode, ring, produced, overrun, pc, batch, due, outbox, stats, store,
                  engineUp, phase, snapshot, todo, analysed, stop>>
  BY DEF FlushSend, kernelVars, analysisVars
<1> HIDE DEF e, U
<1> QED
  BY <1>5, <1>6, <1>7 DEF TypeOK, Accepted

LEMMA NextTypeOK == TypeOK /\ [Next]_vars => TypeOK'
<1> SUFFICES ASSUME TypeOK, [Next]_vars PROVE TypeOK'
  OBVIOUS
<1> USE DEF kernelVars, batchVars, busVars, analysisVars
<1>1. ASSUME NEW shape \in Shapes, NEW w \in Workloads, KernelEmit(shape, w)
      PROVE  TypeOK'
  BY <1>1, KernelEmitTypeOK
<1>2. CASE Tick
  BY <1>2 DEF Tick, TypeOK, FirstStage, Stages, Sources, Kinds, Accepted
<1>3. ASSUME NEW s \in Sources, DrainOne(s) PROVE TypeOK'
  BY <1>3, DrainOneTypeOK
<1>4. ASSUME NEW s \in Sources, DrainEnd(s) PROVE TypeOK'
  BY <1>4, StageTyped DEF DrainEnd, TypeOK, Accepted
<1>5. CASE CheckFlush
  <2>1. BeginFlush("flush", "select")
    BY <1>5 DEF CheckFlush
  <2> QED
    BY <2>1, BeginFlushTypeOK DEF Stages
<1>6. CASE CheckSkip
  BY <1>6 DEF CheckSkip, TypeOK, Stages, Accepted
<1>7. CASE BatchTimeout
  BY <1>7 DEF BatchTimeout, TypeOK, Accepted
<1>8. CASE ConsumerStop
  <2>1. BeginFlush("lastflush", "done")
    BY <1>8 DEF ConsumerStop
  <2> QED
    BY <2>1, BeginFlushTypeOK DEF Stages
<1>9. CASE FlushSend
  BY <1>9, FlushSendTypeOK
<1>10. CASE FlushNext
  <2>1. Tail(outbox) \in Seq(UNION {Accepted(k) : k \in Kinds})
    BY <1>10, RingHead DEF FlushNext, TypeOK
  <2> QED
    BY <1>10, <2>1 DEF FlushNext, TypeOK, Accepted
<1>11. CASE FlushDone
  <2>1. /\ batch' \in [Kinds -> Seq(Events)]
        /\ \A k \in Kinds : batch'[k] \in Seq(Accepted(k))
    BY <1>11 DEF FlushDone, NoBatches
  <2>2. due' \in BOOLEAN
    BY <1>11, Zenon DEF FlushDone
  <2>3. pc' \in Stages
    BY <1>11 DEF FlushDone, Stages
  <2> QED
    BY <1>11, <2>1, <2>2, <2>3 DEF FlushDone, TypeOK, Accepted
<1>12. CASE EngineReceive
  <2>1. Tail(bus) \in Seq(Msgs)
    BY <1>12, RingHead DEF EngineReceive, TypeOK
  <2> QED
    BY <1>12, <2>1 DEF EngineReceive, TypeOK, Accepted
<1>13. CASE EngineEnds
  <2>1. engineUp' = FALSE /\ bus' = <<>>
    BY <1>13 DEF EngineEnds
  <2>2. engineUp' \in BOOLEAN
    BY <2>1, Zenon
  <2>3. bus' \in Seq(Msgs)
    BY <2>1
  <2> QED
    BY <1>13, <2>2, <2>3 DEF EngineEnds, TypeOK, Accepted
<1>14. CASE TakeSnapshot
  BY <1>14 DEF TakeSnapshot, TypeOK, Accepted
<1>15. ASSUME NEW w \in Workloads, ScanWorkload(w) PROVE TypeOK'
  <2>1. /\ analysed' \in [1 .. MaxEvents -> Nat]
        /\ todo' \subseteq Workloads
    BY <1>15 DEF ScanWorkload, TypeOK
  <2> QED
    BY <1>15, <2>1 DEF ScanWorkload, TypeOK, Accepted
<1>16. ASSUME NEW w \in Workloads, SkipWorkload(w) PROVE TypeOK'
  BY <1>16 DEF SkipWorkload, TypeOK, Accepted
<1>17. CASE ClearStore
  BY <1>17 DEF ClearStore, TypeOK, NoEvidence, Accepted
<1>18. CASE RequestStop
  BY <1>18 DEF RequestStop, TypeOK, Accepted
<1>19. CASE UNCHANGED vars
  BY <1>19 DEF vars, TypeOK, Accepted
<1> QED
  BY <1>1, <1>2, <1>3, <1>4, <1>5, <1>6, <1>7, <1>8, <1>9, <1>10, <1>11, <1>12,
     <1>13, <1>14, <1>15, <1>16, <1>17, <1>18, <1>19 DEF Next, Consumer, Analysis

(* The state of the pipeline stays well formed, and a batch only ever holds *)
(* events of its kind that passed the filters.                              *)
THEOREM PipelineTyped == Spec => []TypeOK
  BY InitTypeOK, NextTypeOK, PTL DEF Spec
-----------------------------------------------------------------------------
(* Bounded queues. QueuesBounded is not inductive by itself: that a push    *)
(* keeps a batch within batch_size needs the room each stage starts with,   *)
(* and that a legacy ring fills only the batch its loop tests.              *)
Bounds == RingsByKind /\ RoomByStage /\ QueuesBounded

LEMMA InitBounds == Init => Bounds
<1> SUFFICES ASSUME Init PROVE Bounds
  OBVIOUS
<1>1. RingsByKind
  BY DEF Init, RingsByKind, Sources
<1>2. \A k \in Kinds : Len(batch[k]) = 0
  BY DEF Init, NoBatches
<1>3. Len(bus) = 0
  BY DEF Init
<1> QED
  BY <1>1, <1>2, <1>3, PipelineAssumption DEF Bounds, RoomByStage, QueuesBounded, Kinds

(* Only the kernel and a drain change a ring.                               *)
LEMMA KernelEmitBounds ==
  ASSUME TypeOK, Bounds, NEW shape \in Shapes, NEW w \in Workloads,
         KernelEmit(shape, w)
  PROVE  Bounds'
<1> DEFINE e == [id |-> produced + 1, cgroup |-> w, shape |-> shape]
           s == SourceOf(shape)
           Of(k) == {x \in Events : x.shape.kind = k}
<1>1. e \in Events /\ s \in Sources
  BY PipelineAssumption DEF KernelEmit, TypeOK, Events
<1>2. s \in Kinds => e \in Of(s)
  BY <1>1 DEF SourceOf, Kinds
<1>3. ASSUME NEW k \in Kinds PROVE ring'[k] \in Seq(Of(k))
  <2>1. ring[k] \in Seq(Of(k)) /\ k \in Sources
    BY DEF Bounds, RingsByKind, Sources
  <2>2. CASE k = s /\ Len(ring[s]) < RingCapacity
    <3>1. e \in Of(k)
      BY <1>2, <2>2
    <3>2. ring'[k] = Append(ring[k], e)
      BY <2>1, <2>2 DEF KernelEmit, TypeOK
    <3> QED
      BY <2>1, <3>1, <3>2
  <2>3. CASE ~(k = s /\ Len(ring[s]) < RingCapacity)
    <3>1. ring'[k] = ring[k]
      BY <2>1, <2>3 DEF KernelEmit, TypeOK
    <3> QED
      BY <2>1, <3>1
  <2> QED
    BY <2>2, <2>3
<1>4. RingsByKind'
  BY <1>3 DEF RingsByKind, Events
<1> QED
  BY <1>4 DEF KernelEmit, Bounds, RoomByStage, QueuesBounded, batchVars, busVars

LEMMA DrainOneBounds ==
  ASSUME TypeOK, Bounds, NEW s \in Sources, DrainOne(s)
  PROVE  Bounds'
<1> DEFINE e == Head(ring[s])
<1>1. /\ pc = s /\ ring[s] \in Seq(Events) /\ ring[s] # <<>>
      /\ batch' = Push(e) /\ bus' = bus
  BY DEF DrainOne, TypeOK, busVars
<1>2. e \in Events
  BY <1>1, RingHead
<1>3. s \in Kinds => e.shape.kind = s
  <2> SUFFICES ASSUME s \in Kinds PROVE e.shape.kind = s
    OBVIOUS
  <2> DEFINE Of == {x \in Events : x.shape.kind = s}
  <2>1. ring[s] \in Seq(Of)
    BY DEF Bounds, RingsByKind
  <2>2. e \in Of
    <3> HIDE DEF Of
    <3> QED
      BY <1>1, <2>1, RingHead
  <2> QED
    BY <2>2
<1>4. \A k \in Kinds : /\ Len(batch[k]) \in Nat
                       /\ Len(batch'[k]) = IF Accepts(e) /\ e.shape.kind = k
                                             THEN Len(batch[k]) + 1
                                             ELSE Len(batch[k])
  BY SMTT(60), <1>1, <1>2, PushTyped DEF TypeOK
<1>5. /\ s = "security" =>
           \/ pc' = "check"
           \/ pc' = "security" /\ \A k \in Kinds : ~(Len(batch'[k]) >= BatchSize)
      /\ s # "security" => \/ pc' = StageAfter(s)
                           \/ pc' = s /\ ~(Len(batch'[s]) >= BatchSize)
                           \/ pc' = s /\ e.shape.fate = "noise"
  BY DEF DrainOne, FullAfter, StageAfter
<1>6. e.shape.fate = "noise" => ~Accepts(e)
  BY DEF Accepts
<1>7. BatchSize \in Nat
  BY PipelineAssumption
<1>8. RingsByKind'
  <2> SUFFICES ASSUME NEW k \in Kinds
               PROVE  ring'[k] \in Seq({x \in Events : x.shape.kind = k})
    BY DEF RingsByKind, Events
  <2>1. ring[k] \in Seq({x \in Events : x.shape.kind = k}) /\ k \in Sources
    BY DEF Bounds, RingsByKind, Sources
  <2>2. CASE k = s
    <3>1. ring'[k] = Tail(ring[k])
      BY <2>1, <2>2 DEF DrainOne, TypeOK
    <3> QED
      BY <1>1, <2>1, <2>2, <3>1, RingHead
  <2>3. CASE k # s
    BY <2>1, <2>3 DEF DrainOne, TypeOK
  <2> QED
    BY <2>2, <2>3
<1>9. RoomByStage' /\ \A k \in Kinds : Len(batch'[k]) <= BatchSize
  <2>1. CASE s = "security"
    BY SMTT(60), <1>1, <1>4, <1>5, <1>7, <2>1 DEF Bounds, RoomByStage, Kinds
  <2>2. CASE s = "exec"
    BY SMTT(60), <1>1, <1>3, <1>4, <1>5, <1>6, <1>7, <2>2
       DEF Bounds, RoomByStage, Kinds, StageAfter
  <2>3. CASE s = "file"
    BY SMTT(60), <1>1, <1>3, <1>4, <1>5, <1>6, <1>7, <2>3
       DEF Bounds, RoomByStage, QueuesBounded, Kinds, StageAfter
  <2>4. CASE s = "net"
    BY SMTT(60), <1>1, <1>3, <1>4, <1>5, <1>6, <1>7, <2>4
       DEF Bounds, RoomByStage, QueuesBounded, Kinds, StageAfter
  <2> QED
    BY <2>1, <2>2, <2>3, <2>4 DEF Sources, Kinds
<1> QED
  BY <1>1, <1>8, <1>9 DEF Bounds, QueuesBounded

LEMMA NextBounds == TypeOK /\ Bounds /\ [Next]_vars => Bounds'
<1> SUFFICES ASSUME TypeOK, Bounds, [Next]_vars PROVE Bounds'
  OBVIOUS
<1> USE DEF kernelVars, batchVars, busVars, analysisVars
<1>1. ASSUME NEW shape \in Shapes, NEW w \in Workloads, KernelEmit(shape, w)
      PROVE  Bounds'
  BY <1>1, KernelEmitBounds
<1>2. CASE Tick
  <2>1. pc = "select" /\ pc' \in {"exec", "security"}
    BY <1>2 DEF Tick, FirstStage
  <2> QED
    BY <1>2, <2>1 DEF Tick, Bounds, RingsByKind, RoomByStage, QueuesBounded, Events
<1>3. ASSUME NEW s \in Sources, DrainOne(s) PROVE Bounds'
  BY <1>3, DrainOneBounds
<1>4. ASSUME NEW s \in Sources, DrainEnd(s) PROVE Bounds'
  <2>1. /\ s \in {"security", "net"} => pc' = "check"
        /\ s = "exec" => pc' = "file"
        /\ s = "file" => pc' = "net"
        /\ pc = s
    BY <1>4 DEF DrainEnd, StageAfter
  <2> QED
    BY <1>4, <2>1
       DEF DrainEnd, Bounds, RingsByKind, RoomByStage, QueuesBounded, Sources,
           Kinds, Events
<1>5. ASSUME NEW stage, NEW idle, BeginFlush(stage, idle),
             stage \in {"flush", "lastflush"}, idle \in {"select", "done"},
             pc = "check" \/ pc = "select"
      PROVE  Bounds'
  <2>1. CASE FlushOrder(batch) = <<>>
    <3>1. \A k \in Kinds : Len(batch[k]) = 0
      BY <2>1 DEF FlushOrder, Kinds, TypeOK
    <3>2. \A k \in Kinds : Len(batch[k]) < BatchSize
      BY <3>1, PipelineAssumption
    <3> QED
      BY <1>5, <2>1, <3>2
         DEF BeginFlush, Bounds, RingsByKind, RoomByStage, QueuesBounded, Events
  <2>2. CASE FlushOrder(batch) # <<>>
    BY <1>5, <2>2
       DEF BeginFlush, Bounds, RingsByKind, RoomByStage, QueuesBounded, Events
  <2> QED
    BY <2>1, <2>2
<1>6. CASE CheckFlush
  BY <1>5, <1>6 DEF CheckFlush
<1>7. CASE CheckSkip
  BY <1>7 DEF CheckSkip, Bounds, RingsByKind, RoomByStage, QueuesBounded, Kinds, Events
<1>8. CASE BatchTimeout
  BY <1>8 DEF BatchTimeout, Bounds, RingsByKind, RoomByStage, QueuesBounded, Events
<1>9. CASE ConsumerStop
  BY <1>5, <1>9 DEF ConsumerStop
<1>10. CASE FlushSend
  <2>1. Len(bus') <= BusCapacity
    <3>1. CASE engineUp
      <4>1. /\ Len(bus) < BusCapacity
            /\ bus' = Append(bus, Message(Head(outbox), part + 1))
        BY <1>10, <3>1 DEF FlushSend
      <4> QED
        BY <4>1, PipelineAssumption DEF TypeOK
    <3>2. CASE ~engineUp
      BY <1>10, <3>2 DEF FlushSend, Bounds, QueuesBounded
    <3> QED
      BY <3>1, <3>2
  <2> QED
    BY <1>10, <2>1 DEF FlushSend, Bounds, RingsByKind, RoomByStage, QueuesBounded, Events
<1>11. CASE FlushNext
  BY <1>11 DEF FlushNext, Bounds, RingsByKind, RoomByStage, QueuesBounded, Events
<1>12. CASE FlushDone
  <2>1. \A k \in Kinds : Len(batch'[k]) = 0
    BY <1>12 DEF FlushDone, NoBatches
  <2> QED
    BY <1>12, <2>1, PipelineAssumption
       DEF FlushDone, Bounds, RingsByKind, RoomByStage, QueuesBounded, Kinds, Events
<1>13. CASE EngineReceive
  <2>1. Len(bus') = Len(bus) - 1 /\ Len(bus) \in Nat
    BY <1>13, RingHead DEF EngineReceive, TypeOK
  <2>2. Len(bus') <= BusCapacity
    BY <2>1, PipelineAssumption DEF Bounds, QueuesBounded
  <2> QED
    BY <1>13, <2>2
       DEF EngineReceive, Bounds, RingsByKind, RoomByStage, QueuesBounded, Events
<1>14. CASE EngineEnds
  <2>1. Len(bus') = 0
    BY <1>14 DEF EngineEnds
  <2> QED
    BY <1>14, <2>1, PipelineAssumption
       DEF EngineEnds, Bounds, RingsByKind, RoomByStage, QueuesBounded, Events
<1>15. CASE Analysis
  BY <1>15 DEF Analysis, TakeSnapshot, ScanWorkload, SkipWorkload, ClearStore,
               Bounds, RingsByKind, RoomByStage, QueuesBounded, Events
<1>16. CASE RequestStop
  BY <1>16 DEF RequestStop, Bounds, RingsByKind, RoomByStage, QueuesBounded, Events
<1>17. CASE UNCHANGED vars
  BY <1>17 DEF vars, Bounds, RingsByKind, RoomByStage, QueuesBounded, Events
<1> QED
  BY <1>1, <1>2, <1>3, <1>4, <1>6, <1>7, <1>8, <1>9, <1>10, <1>11, <1>12, <1>13,
     <1>14, <1>15, <1>16, <1>17 DEF Next, Consumer

(* The memory of the consumer and of the bus is bounded, whatever the load  *)
(* and however slow the engine is.                                          *)
THEOREM PipelineBounded == Spec => []QueuesBounded
<1>1. Init => TypeOK /\ Bounds
  BY InitTypeOK, InitBounds
<1>2. (TypeOK /\ Bounds) /\ [Next]_vars => (TypeOK /\ Bounds)'
  BY NextTypeOK, NextBounds
<1>3. Bounds => QueuesBounded
  BY DEF Bounds
<1> QED
  BY <1>1, <1>2, <1>3, PTL DEF Spec
-----------------------------------------------------------------------------
(* Accounting.                                                              *)
LEMMA InitAccounted == Init => EveryEventAccounted
  BY DEF Init, EveryEventAccounted, RingLoad, Sources, Kinds

(* What the rings hold after one of them grew or shrank.                    *)
LEMMA RingLoadChanges ==
  ASSUME TypeOK, NEW s \in Sources, NEW q \in Seq(Events),
         ring' = [ring EXCEPT ![s] = q]
  PROVE  /\ RingLoad' = RingLoad - Len(ring[s]) + Len(q)
         /\ RingLoad \in Nat
<1> DEFINE L(t) == Len(ring[t])
           M(t) == Len(ring'[t])
<1>1. /\ "exec" \in Sources /\ "file" \in Sources
      /\ "net" \in Sources /\ "security" \in Sources
      /\ s \in {"exec", "file", "net", "security"}
  BY DEF Sources, Kinds
<1>2. \A t \in Sources : L(t) \in Nat
  BY DEF TypeOK
<1>3. M(s) = Len(q) /\ Len(q) \in Nat
  BY DEF TypeOK
<1>4. \A t \in Sources \ {s} : M(t) = L(t)
  BY DEF TypeOK
<1>5. /\ RingLoad = L("exec") + L("file") + L("net") + L("security")
      /\ RingLoad' = M("exec") + M("file") + M("net") + M("security")
  BY DEF RingLoad
<1> HIDE DEF L, M
<1>6. RingLoad' = RingLoad - L(s) + Len(q) /\ RingLoad \in Nat
  <2>1. CASE s = "exec"
    <3>1. /\ M("file") = L("file") /\ M("net") = L("net")
          /\ M("security") = L("security") /\ M("exec") = Len(q)
      BY <1>1, <1>3, <1>4, <2>1
    <3> QED
      BY <1>1, <1>2, <1>3, <1>5, <2>1, <3>1
  <2>2. CASE s = "file"
    <3>1. /\ M("exec") = L("exec") /\ M("net") = L("net")
          /\ M("security") = L("security") /\ M("file") = Len(q)
      BY <1>1, <1>3, <1>4, <2>2
    <3> QED
      BY <1>1, <1>2, <1>3, <1>5, <2>2, <3>1
  <2>3. CASE s = "net"
    <3>1. /\ M("exec") = L("exec") /\ M("file") = L("file")
          /\ M("security") = L("security") /\ M("net") = Len(q)
      BY <1>1, <1>3, <1>4, <2>3
    <3> QED
      BY <1>1, <1>2, <1>3, <1>5, <2>3, <3>1
  <2>4. CASE s = "security"
    <3>1. /\ M("exec") = L("exec") /\ M("file") = L("file")
          /\ M("net") = L("net") /\ M("security") = Len(q)
      BY <1>1, <1>3, <1>4, <2>4
    <3> QED
      BY <1>1, <1>2, <1>3, <1>5, <2>4, <3>1
  <2> QED
    BY <1>1, <2>1, <2>2, <2>3, <2>4
<1> QED
  BY <1>6 DEF L

LEMMA NextAccounted ==
  TypeOK /\ EveryEventAccounted /\ [Next]_vars => EveryEventAccounted'
<1> SUFFICES ASSUME TypeOK, EveryEventAccounted, [Next]_vars
             PROVE  EveryEventAccounted'
  OBVIOUS
<1> USE DEF kernelVars, batchVars, busVars, analysisVars
<1>0. /\ produced \in Nat /\ overrun \in Nat
      /\ stats \in [received : Nat, dropped : Nat, filtered : Nat, kept : Nat]
      /\ RingLoad \in Nat
  BY PipelineAssumption DEF TypeOK, RingLoad, Sources, Kinds
<1>1. ASSUME NEW shape \in Shapes, NEW w \in Workloads, KernelEmit(shape, w)
      PROVE  EveryEventAccounted'
  <2> DEFINE e == [id |-> produced + 1, cgroup |-> w, shape |-> shape]
             s == SourceOf(shape)
  <2>1. e \in Events /\ s \in Sources /\ produced' = produced + 1
    BY <1>1, PipelineAssumption DEF KernelEmit, TypeOK, Events
  <2>2. CASE Len(ring[s]) < RingCapacity
    <3> DEFINE q == Append(ring[s], e)
               n == Len(ring[s])
               m == Len(q)
    <3>1. ring' = [ring EXCEPT ![s] = q] /\ overrun' = overrun
      BY <1>1, <2>2 DEF KernelEmit
    <3>2. q \in Seq(Events) /\ n \in Nat /\ m = n + 1
      BY <2>1 DEF TypeOK
    <3> HIDE DEF e, s, q
    <3>3. RingLoad' = RingLoad - n + m
      BY <2>1, <3>1, <3>2, RingLoadChanges
    <3> HIDE DEF n, m
    <3>4. RingLoad' = RingLoad + 1
      BY <1>0, <3>2, <3>3
    <3> QED
      BY <1>0, <1>1, <2>1, <3>1, <3>4 DEF KernelEmit, EveryEventAccounted
  <2>3. CASE ~(Len(ring[s]) < RingCapacity)
    <3>1. ring' = ring /\ overrun' = overrun + 1
      BY <1>1, <2>3 DEF KernelEmit
    <3>2. RingLoad' = RingLoad /\ stats' = stats
      BY <1>1, <3>1 DEF KernelEmit, RingLoad
    <3> HIDE DEF e, s
    <3> QED
      BY <1>0, <2>1, <3>1, <3>2 DEF EveryEventAccounted
  <2> QED
    BY <2>2, <2>3
<1>2. ASSUME NEW s \in Sources, DrainOne(s) PROVE EveryEventAccounted'
  <2> DEFINE e == Head(ring[s])
  <2>1. /\ ring[s] \in Seq(Events) /\ ring[s] # <<>>
        /\ ring' = [ring EXCEPT ![s] = Tail(ring[s])]
        /\ stats' = Count(e)
        /\ produced' = produced /\ overrun' = overrun
    BY <1>2 DEF DrainOne, TypeOK
  <2>2. /\ e \in Events /\ Tail(ring[s]) \in Seq(Events)
        /\ Len(Tail(ring[s])) = Len(ring[s]) - 1 /\ Len(ring[s]) \in Nat
    BY <2>1, RingHead
  <2> DEFINE q == Tail(ring[s])
  <2> HIDE DEF q
  <2>5. RingLoad' = RingLoad - Len(ring[s]) + Len(q)
    <3>1. q \in Seq(Events) /\ ring' = [ring EXCEPT ![s] = q]
      BY <2>1, <2>2 DEF q
    <3> QED
      BY <3>1, RingLoadChanges
  <2>3. RingLoad' = RingLoad - 1
    BY <1>0, <2>2, <2>5 DEF q
  <2>4. /\ stats'.received = stats.received + 1
        /\ stats'.dropped + stats'.filtered + stats'.kept
             = stats.dropped + stats.filtered + stats.kept + 1
    BY <2>1, <2>2, CountTyped
  <2> QED
    BY <1>0, <2>1, <2>3, <2>4 DEF EveryEventAccounted
<1>3. CASE UNCHANGED <<produced, overrun, ring, stats>>
  BY <1>3 DEF EveryEventAccounted, RingLoad
<1>4. (\E s \in Sources : DrainEnd(s)) => UNCHANGED <<produced, overrun, ring, stats>>
  BY DEF DrainEnd
<1>5. CheckFlush \/ ConsumerStop => UNCHANGED <<produced, overrun, ring, stats>>
  BY DEF CheckFlush, ConsumerStop, BeginFlush
<1>6. Tick \/ CheckSkip \/ BatchTimeout \/ FlushSend \/ FlushNext \/ FlushDone
        => UNCHANGED <<produced, overrun, ring, stats>>
  BY DEF Tick, CheckSkip, BatchTimeout, FlushSend, FlushNext, FlushDone
<1>7. EngineReceive \/ EngineEnds \/ Analysis \/ RequestStop
        => UNCHANGED <<produced, overrun, ring, stats>>
  BY DEF EngineReceive, EngineEnds, Analysis, TakeSnapshot, ScanWorkload,
         SkipWorkload, ClearStore, RequestStop
<1>8. UNCHANGED vars => UNCHANGED <<produced, overrun, ring, stats>>
  BY DEF vars
<1> QED
  BY <1>1, <1>2, <1>3, <1>4, <1>5, <1>6, <1>7, <1>8 DEF Next, Consumer

(* No event the kernel produced disappears uncounted.                       *)
THEOREM PipelineAccounted == Spec => []EveryEventAccounted
  BY InitTypeOK, NextTypeOK, InitAccounted, NextAccounted, PTL DEF Spec

-----------------------------------------------------------------------------
(* Where an event is. In a ring the ids rise, no id is in two rings, and    *)
(* none is larger than the number of events produced.                       *)
RingIds ==
  /\ \A s \in Sources : \A i, j \in 1 .. Len(ring[s]) :
       i < j => ring[s][i].id < ring[s][j].id
  /\ \A s, t \in Sources : s # t =>
       \A i \in 1 .. Len(ring[s]), j \in 1 .. Len(ring[t]) : ring[s][i].id # ring[t][j].id
  /\ \A s \in Sources : \A i \in 1 .. Len(ring[s]) : ring[s][i].id <= produced

(* Nobody has looked at the event yet.                                      *)
Unseen(i) == analysed[i] = 0 /\ \A w \in Workloads : i \notin store[w]

(* What is still in a ring, or to come, is unseen; evidence belongs to one  *)
(* workload; and evidence in the store that was scanned was scanned in the  *)
(* present round, which has its workload behind it and will clear it.       *)
Whereabouts ==
  /\ \A s \in Sources : \A i \in 1 .. Len(ring[s]) : Unseen(ring[s][i].id)
  /\ \A i \in 1 .. MaxEvents : i > produced => Unseen(i)
  /\ \A v, w \in Workloads : v # w => store[v] \cap store[w] = {}
  /\ \A w \in Workloads : snapshot[w] \subseteq store[w]
  /\ \A w \in Workloads : \A i \in store[w] :
       analysed[i] # 0 => phase = "scan" /\ w \notin todo
  /\ AnalysedAtMostOnce

(* The elements of a sequence with one more at its end, or without its head. *)
LEMMA AppendElements ==
  ASSUME NEW S, NEW q \in Seq(S), NEW x \in S
  PROVE  /\ Append(q, x) \in Seq(S)
         /\ Len(Append(q, x)) = Len(q) + 1
         /\ \A i \in 1 .. Len(q) : Append(q, x)[i] = q[i]
         /\ Append(q, x)[Len(q) + 1] = x
  OBVIOUS

LEMMA TailElements ==
  ASSUME NEW S, NEW q \in Seq(S), q # <<>>
  PROVE  /\ Len(q) \in Nat \ {0}
         /\ Len(Tail(q)) = Len(q) - 1
         /\ Head(q) = q[1]
         /\ \A i \in 1 .. Len(Tail(q)) : Tail(q)[i] = q[i + 1]
  OBVIOUS

LEMMA RingElements ==
  ASSUME TypeOK, NEW s \in Sources, NEW i \in 1 .. Len(ring[s])
  PROVE  ring[s][i] \in Events /\ ring[s][i].id \in 1 .. MaxEvents
<1>1. ring[s] \in Seq(Events)
  BY DEF TypeOK
<1>2. ring[s][i] \in Events
  BY <1>1
<1> QED
  BY <1>2 DEF Events

(* The rings after a step: one of them has the next event at its end, or    *)
(* one has lost its head, or they are as they were.                         *)
RingGrows(s) ==
  /\ produced' = produced + 1
  /\ \/ UNCHANGED ring
     \/ /\ \A t \in Sources \ {s} : ring'[t] = ring[t]
        /\ Len(ring'[s]) = Len(ring[s]) + 1
        /\ \A i \in 1 .. Len(ring[s]) : ring'[s][i] = ring[s][i]
        /\ ring'[s][Len(ring[s]) + 1].id = produced + 1

RingDrains(s) ==
  /\ UNCHANGED produced
  /\ \A t \in Sources \ {s} : ring'[t] = ring[t]
  /\ Len(ring[s]) \in Nat \ {0}
  /\ Len(ring'[s]) = Len(ring[s]) - 1
  /\ \A i \in 1 .. Len(ring'[s]) : ring'[s][i] = ring[s][i + 1]

LEMMA EmitGrows ==
  ASSUME TypeOK, NEW shape \in Shapes, NEW w \in Workloads, KernelEmit(shape, w)
  PROVE  SourceOf(shape) \in Sources /\ RingGrows(SourceOf(shape))
<1> DEFINE e == [id |-> produced + 1, cgroup |-> w, shape |-> shape]
           s == SourceOf(shape)
<1>1. e \in Events /\ s \in Sources /\ produced' = produced + 1 /\ e.id = produced + 1
  BY PipelineAssumption DEF KernelEmit, TypeOK, Events
<1>2. CASE Len(ring[s]) < RingCapacity
  <2>1. ring' = [ring EXCEPT ![s] = Append(ring[s], e)]
    BY <1>2 DEF KernelEmit
  <2>2. ring \in [Sources -> Seq(Events)]
    BY DEF TypeOK
  <2> HIDE DEF e, s
  <2>3. ring'[s] = Append(ring[s], e) /\ \A t \in Sources \ {s} : ring'[t] = ring[t]
    BY <1>1, <2>1, <2>2
  <2> QED
    BY <1>1, <2>2, <2>3, AppendElements DEF RingGrows, s
<1>3. CASE ~(Len(ring[s]) < RingCapacity)
  BY <1>1, <1>3 DEF KernelEmit, RingGrows
<1> QED
  BY <1>2, <1>3

LEMMA DrainDrains ==
  ASSUME TypeOK, NEW s \in Sources, DrainOne(s)
  PROVE  RingDrains(s) /\ Head(ring[s]) = ring[s][1]
<1>1. /\ ring \in [Sources -> Seq(Events)] /\ ring[s] # <<>>
      /\ ring' = [ring EXCEPT ![s] = Tail(ring[s])] /\ produced' = produced
  BY DEF DrainOne, TypeOK
<1>2. ring'[s] = Tail(ring[s]) /\ \A t \in Sources \ {s} : ring'[t] = ring[t]
  BY <1>1
<1> QED
  BY <1>1, <1>2, TailElements DEF RingDrains

LEMMA RingIdsStep ==
  ASSUME TypeOK, RingIds, NEW s \in Sources, RingGrows(s) \/ RingDrains(s)
  PROVE  RingIds'
<1>1. produced \in Nat /\ \A t \in Sources : Len(ring[t]) \in Nat
  BY PipelineAssumption DEF TypeOK
<1>2. \A t \in Sources : \A i \in 1 .. Len(ring[t]) : ring[t][i].id \in Nat
  BY RingElements, PipelineAssumption
<1>3. CASE RingGrows(s)
  <2>1. CASE UNCHANGED ring
    BY <1>1, <1>2, <1>3, <2>1 DEF RingIds, RingGrows
  <2>2. CASE ring' # ring
    <3>1. /\ produced' = produced + 1
          /\ \A t \in Sources \ {s} : ring'[t] = ring[t]
          /\ Len(ring'[s]) = Len(ring[s]) + 1
          /\ \A i \in 1 .. Len(ring[s]) : ring'[s][i] = ring[s][i]
          /\ ring'[s][Len(ring[s]) + 1].id = produced + 1
      BY <1>3, <2>2 DEF RingGrows
    <3>2. ASSUME NEW t \in Sources, NEW i \in 1 .. Len(ring'[t])
          PROVE  \/ i \in 1 .. Len(ring[t]) /\ ring'[t][i] = ring[t][i]
                 \/ t = s /\ i = Len(ring[s]) + 1 /\ ring'[t][i].id = produced + 1
      <4>1. CASE t = s
        <5>1. i \in 1 .. Len(ring[s]) \/ i = Len(ring[s]) + 1
          BY <1>1, <3>1, <4>1
        <5> QED
          BY <3>1, <4>1, <5>1
      <4>2. CASE t # s
        BY <3>1, <4>2
      <4> QED
        BY <4>1, <4>2
    <3>3. ASSUME NEW t \in Sources, NEW i \in 1 .. Len(ring[t])
          PROVE  ring[t][i].id < produced + 1
      <4>1. ring[t][i].id <= produced
        BY DEF RingIds
      <4> QED
        BY <1>1, <1>2, <4>1
    <3>4. ASSUME NEW t \in Sources,
                 NEW i \in 1 .. Len(ring'[t]), NEW j \in 1 .. Len(ring'[t]), i < j
          PROVE  ring'[t][i].id < ring'[t][j].id
      <4>1. CASE j \in 1 .. Len(ring[t])
        <5>1. i \in 1 .. Len(ring[t])
          BY <1>1, <3>4, <4>1
        <5>2. ring'[t][i] = ring[t][i] /\ ring'[t][j] = ring[t][j]
          BY <1>1, <3>1, <4>1, <5>1
        <5>3. ring[t][i].id < ring[t][j].id
          BY <3>4, <4>1, <5>1 DEF RingIds
        <5> QED
          BY <5>2, <5>3
      <4>2. CASE j \notin 1 .. Len(ring[t])
        <5>1. t = s /\ j = Len(ring[s]) + 1 /\ ring'[t][j].id = produced + 1
          BY <3>2, <4>2
        <5>2. i \in 1 .. Len(ring[t])
          BY <1>1, <3>4, <5>1
        <5>3. ring'[t][i] = ring[t][i]
          BY <3>1, <5>1, <5>2
        <5>4. ring[t][i].id < produced + 1
          BY <3>3, <5>2
        <5> QED
          BY <5>1, <5>3, <5>4
      <4> QED
        BY <4>1, <4>2
    <3>5. ASSUME NEW t \in Sources, NEW u \in Sources, t # u,
                 NEW i \in 1 .. Len(ring'[t]), NEW j \in 1 .. Len(ring'[u])
          PROVE  ring'[t][i].id # ring'[u][j].id
      <4>1. CASE i \in 1 .. Len(ring[t]) /\ ring'[t][i] = ring[t][i]
        <5>1. CASE j \in 1 .. Len(ring[u]) /\ ring'[u][j] = ring[u][j]
          BY <3>5, <4>1, <5>1 DEF RingIds
        <5>2. CASE ring'[u][j].id = produced + 1
          <6>1. ring[t][i].id < produced + 1 /\ ring[t][i].id \in Nat
            BY <1>2, <3>3, <4>1
          <6> QED
            BY <1>1, <4>1, <5>2, <6>1
        <5> QED
          BY <3>2, <5>1, <5>2
      <4>2. CASE t = s /\ ring'[t][i].id = produced + 1
        <5>1. j \in 1 .. Len(ring[u]) /\ ring'[u][j] = ring[u][j]
          BY <3>2, <3>5, <4>2
        <5>2. ring[u][j].id < produced + 1 /\ ring[u][j].id \in Nat
          BY <1>2, <3>3, <5>1
        <5> QED
          BY <1>1, <4>2, <5>1, <5>2
      <4> QED
        BY <3>2, <4>1, <4>2
    <3>6. \A t \in Sources : \A i \in 1 .. Len(ring'[t]) : ring'[t][i].id <= produced'
      BY SMTT(60), <1>1, <1>2, <3>1, <3>2, <3>3
    <3> QED
      BY <3>4, <3>5, <3>6 DEF RingIds
  <2> QED
    BY <2>1, <2>2
<1>4. CASE RingDrains(s)
  <2>1. /\ produced' = produced
        /\ \A t \in Sources \ {s} : ring'[t] = ring[t]
        /\ Len(ring'[s]) = Len(ring[s]) - 1
        /\ \A i \in 1 .. Len(ring'[s]) : ring'[s][i] = ring[s][i + 1]
    BY <1>4 DEF RingDrains
  <2>2. ASSUME NEW i \in 1 .. Len(ring'[s])
        PROVE  i + 1 \in 1 .. Len(ring[s]) /\ ring'[s][i] = ring[s][i + 1]
    BY <1>1, <2>1
  <2>3. ASSUME NEW t \in Sources,
               NEW i \in 1 .. Len(ring'[t]), NEW j \in 1 .. Len(ring'[t]), i < j
        PROVE  ring'[t][i].id < ring'[t][j].id
    <3>1. CASE t = s
      <4>1. /\ i + 1 \in 1 .. Len(ring[s]) /\ ring'[s][i] = ring[s][i + 1]
            /\ j + 1 \in 1 .. Len(ring[s]) /\ ring'[s][j] = ring[s][j + 1]
        BY <2>2, <3>1
      <4>2. i + 1 < j + 1
        BY <2>3
      <4>3. ring[s][i + 1].id < ring[s][j + 1].id
        BY <4>1, <4>2 DEF RingIds
      <4> QED
        BY <3>1, <4>1, <4>3
    <3>2. CASE t # s
      BY <2>1, <2>3, <3>2 DEF RingIds
    <3> QED
      BY <3>1, <3>2
  <2>4. ASSUME NEW t \in Sources, NEW i \in 1 .. Len(ring'[t])
        PROVE  \E k \in 1 .. Len(ring[t]) : ring'[t][i] = ring[t][k]
    <3>1. CASE t = s
      BY <2>2, <3>1
    <3>2. CASE t # s
      BY <2>1, <3>2
    <3> QED
      BY <3>1, <3>2
  <2>5. ASSUME NEW t \in Sources, NEW u \in Sources, t # u,
               NEW i \in 1 .. Len(ring'[t]), NEW j \in 1 .. Len(ring'[u])
        PROVE  ring'[t][i].id # ring'[u][j].id
    <3>1. PICK k \in 1 .. Len(ring[t]) : ring'[t][i] = ring[t][k]
      BY <2>4
    <3>2. PICK l \in 1 .. Len(ring[u]) : ring'[u][j] = ring[u][l]
      BY <2>4
    <3>3. ring[t][k].id # ring[u][l].id
      BY <2>5 DEF RingIds
    <3> QED
      BY <3>1, <3>2, <3>3
  <2>6. ASSUME NEW t \in Sources, NEW i \in 1 .. Len(ring'[t])
        PROVE  ring'[t][i].id <= produced'
    <3>1. PICK k \in 1 .. Len(ring[t]) : ring'[t][i] = ring[t][k]
      BY <2>4
    <3> QED
      BY <2>1, <3>1 DEF RingIds
  <2> QED
    BY <2>3, <2>5, <2>6 DEF RingIds
<1> QED
  BY <1>3, <1>4

(* After a drain what a ring holds it held before, and it is not the event  *)
(* drained.                                                                 *)
LEMMA RingsKeep ==
  ASSUME TypeOK, RingIds, NEW s \in Sources, RingDrains(s),
         NEW t \in Sources, NEW i \in 1 .. Len(ring'[t])
  PROVE  \E k \in 1 .. Len(ring[t]) :
           ring'[t][i] = ring[t][k] /\ ring[t][k].id # ring[s][1].id
<1>1. Len(ring[s]) \in Nat \ {0} /\ 1 \in 1 .. Len(ring[s])
  BY DEF RingDrains
<1>2. CASE t = s
  <2>1. /\ i + 1 \in 1 .. Len(ring[s]) /\ 1 < i + 1
        /\ ring'[s][i] = ring[s][i + 1]
    BY <1>1, <1>2 DEF RingDrains
  <2>2. ring[s][1].id < ring[s][i + 1].id
    BY <1>1, <2>1 DEF RingIds
  <2>3. ring[s][1].id \in Nat /\ ring[s][i + 1].id \in Nat
    BY <1>1, <2>1, RingElements, PipelineAssumption
  <2>4. ring[s][i + 1].id # ring[s][1].id
    BY <2>2, <2>3
  <2> QED
    BY <1>2, <2>1, <2>4
<1>3. CASE t # s
  <2>1. ring'[t] = ring[t]
    BY <1>3 DEF RingDrains
  <2>2. ring[t][i].id # ring[s][1].id
    BY <1>1, <1>3, <2>1 DEF RingIds
  <2> QED
    BY <2>1, <2>2
<1> QED
  BY <1>2, <1>3

(* After an emission what a ring holds it held before, or it is the event   *)
(* produced.                                                                *)
LEMMA RingsGain ==
  ASSUME TypeOK, NEW s \in Sources, RingGrows(s),
         NEW t \in Sources, NEW i \in 1 .. Len(ring'[t])
  PROVE  \/ \E k \in 1 .. Len(ring[t]) : ring'[t][i] = ring[t][k]
         \/ t = s /\ ring'[t][i].id = produced + 1
<1>1. Len(ring[s]) \in Nat
  BY DEF TypeOK
<1>2. CASE ring'[t] = ring[t]
  BY <1>2
<1>3. CASE ring'[t] # ring[t]
  <2>1. t = s /\ Len(ring'[s]) = Len(ring[s]) + 1
    BY <1>3 DEF RingGrows
  <2>2. i \in 1 .. Len(ring[s]) \/ i = Len(ring[s]) + 1
    BY <1>1, <2>1
  <2> QED
    BY <1>3, <2>1, <2>2 DEF RingGrows
<1> QED
  BY <1>2, <1>3
-----------------------------------------------------------------------------
LEMMA EmitWhereabouts ==
  ASSUME TypeOK, RingIds, Whereabouts,
         NEW shape \in Shapes, NEW w \in Workloads, KernelEmit(shape, w)
  PROVE  Whereabouts'
<1> DEFINE s == SourceOf(shape)
<1>1. s \in Sources /\ RingGrows(s)
  BY EmitGrows
<1>2. /\ produced' = produced + 1 /\ produced + 1 \in 1 .. MaxEvents
      /\ UNCHANGED <<store, phase, snapshot, todo, analysed>>
  BY PipelineAssumption DEF KernelEmit, analysisVars, TypeOK
<1>3. ASSUME NEW i, Unseen(i) PROVE Unseen(i)'
  BY <1>2, <1>3 DEF Unseen
<1>4. ASSUME NEW t \in Sources, NEW i \in 1 .. Len(ring'[t])
      PROVE  Unseen(ring[t][i].id)'
  <2>1. CASE \E k \in 1 .. Len(ring[t]) : ring'[t][i] = ring[t][k]
    <3>1. PICK k \in 1 .. Len(ring[t]) : ring'[t][i] = ring[t][k]
      BY <2>1
    <3>2. Unseen(ring[t][k].id)
      BY DEF Whereabouts
    <3> QED
      BY <1>2, <3>1, <3>2 DEF Unseen
  <2>2. CASE ring'[t][i].id = produced + 1
    <3>1. Unseen(produced + 1)
      BY <1>2 DEF Whereabouts, TypeOK
    <3> QED
      BY <1>2, <2>2, <3>1 DEF Unseen
  <2> QED
    BY <1>1, <2>1, <2>2, RingsGain
<1>5. ASSUME NEW i \in 1 .. MaxEvents, i > produced' PROVE Unseen(i)'
  <2>1. i > produced
    BY <1>2, <1>5 DEF TypeOK
  <2>2. Unseen(i)
    BY <2>1 DEF Whereabouts
  <2> QED
    BY <1>3, <2>2
<1>6. AnalysedAtMostOnce'
  BY <1>2 DEF Whereabouts, AnalysedAtMostOnce
<1> QED
  BY <1>2, <1>4, <1>5, <1>6 DEF Whereabouts

LEMMA DrainWhereabouts ==
  ASSUME TypeOK, RingIds, Whereabouts, NEW s \in Sources, DrainOne(s)
  PROVE  Whereabouts'
<1> DEFINE e == Head(ring[s])
<1>1. RingDrains(s) /\ e = ring[s][1] /\ 1 \in 1 .. Len(ring[s])
  BY DrainDrains DEF RingDrains
<1>2. e.id \in 1 .. MaxEvents /\ e.cgroup \in Workloads /\ e.id <= produced
  <2>1. ring[s][1] \in Events /\ ring[s][1].id <= produced
    BY <1>1, RingElements DEF RingIds
  <2> QED
    BY <1>1, <2>1 DEF Events
<1>3. Unseen(e.id)
  BY <1>1 DEF Whereabouts
<1>4. /\ store' = Apply(e) /\ produced' = produced
      /\ UNCHANGED <<phase, snapshot, todo, analysed>>
  BY DEF DrainOne, analysisVars
<1> HIDE DEF e
<1>5. /\ \A w \in Workloads : store[w] \subseteq store'[w]
      /\ \A w \in Workloads : store'[w] \subseteq store[w] \cup {e.id}
      /\ \A w \in Workloads \ {e.cgroup} : store'[w] = store[w]
  <2>1. CASE Accepts(e)
    BY <1>2, <1>4, <2>1 DEF Apply, TypeOK
  <2>2. CASE ~Accepts(e)
    BY <1>4, <2>2 DEF Apply
  <2> QED
    BY <2>1, <2>2
<1>6. ASSUME NEW i, Unseen(i), i # e.id PROVE Unseen(i)'
  BY <1>4, <1>5, <1>6 DEF Unseen
<1>7. ASSUME NEW t \in Sources, NEW i \in 1 .. Len(ring'[t])
      PROVE  Unseen(ring[t][i].id)'
  <2>1. PICK k \in 1 .. Len(ring[t]) :
          ring'[t][i] = ring[t][k] /\ ring[t][k].id # ring[s][1].id
    BY <1>1, RingsKeep
  <2>2. Unseen(ring[t][k].id) /\ ring[t][k].id # e.id
    BY <1>1, <2>1 DEF Whereabouts
  <2> QED
    BY <1>4, <1>5, <2>1, <2>2 DEF Unseen
<1>8. ASSUME NEW i \in 1 .. MaxEvents, i > produced' PROVE Unseen(i)'
  <2>1. i > produced /\ i # e.id
    BY <1>2, <1>4, <1>8 DEF TypeOK
  <2>2. Unseen(i)
    BY <2>1 DEF Whereabouts
  <2> QED
    BY <1>6, <2>1, <2>2
<1>9. ASSUME NEW v \in Workloads, NEW w \in Workloads, v # w
      PROVE  store'[v] \cap store'[w] = {}
  <2>1. store[v] \cap store[w] = {} /\ e.id \notin store[v] /\ e.id \notin store[w]
    BY <1>3, <1>9 DEF Whereabouts, Unseen
  <2> QED
    BY <1>5, <1>9, <2>1
<1>10. \A w \in Workloads : snapshot'[w] \subseteq store'[w]
  BY <1>4, <1>5 DEF Whereabouts
<1>11. ASSUME NEW w \in Workloads, NEW i \in store'[w], analysed'[i] # 0
       PROVE  phase' = "scan" /\ w \notin todo'
  <2>1. i # e.id
    BY <1>3, <1>4, <1>11 DEF Unseen
  <2>2. i \in store[w]
    BY <1>5, <2>1
  <2> QED
    BY <1>4, <1>11, <2>2 DEF Whereabouts
<1>12. AnalysedAtMostOnce'
  BY <1>4 DEF Whereabouts, AnalysedAtMostOnce
<1> QED
  BY <1>7, <1>8, <1>9, <1>10, <1>11, <1>12 DEF Whereabouts

LEMMA ScanWhereabouts ==
  ASSUME TypeOK, Whereabouts, NEW w \in Workloads, ScanWorkload(w)
  PROVE  Whereabouts'
<1>1. /\ phase = "scan" /\ w \in todo /\ todo' = todo \ {w}
      /\ UNCHANGED <<ring, produced, store, phase, snapshot>>
      /\ analysed' = [i \in 1 .. MaxEvents |->
                        IF i \in snapshot[w] THEN analysed[i] + 1 ELSE analysed[i]]
  BY DEF ScanWorkload, kernelVars
<1>2. snapshot[w] \subseteq store[w] /\ store \in [Workloads -> SUBSET (1 .. MaxEvents)]
  BY DEF Whereabouts, TypeOK
<1>3. \A i \in snapshot[w] : i \in 1 .. MaxEvents /\ analysed[i] = 0 /\ analysed'[i] = 1
  BY <1>1, <1>2 DEF Whereabouts
<1>4. \A i \in 1 .. MaxEvents : i \notin snapshot[w] => analysed'[i] = analysed[i]
  BY <1>1
<1>5. ASSUME NEW i \in 1 .. MaxEvents, Unseen(i) PROVE Unseen(i)'
  BY <1>1, <1>2, <1>4, <1>5 DEF Unseen
<1>6. ASSUME NEW t \in Sources, NEW i \in 1 .. Len(ring[t])
      PROVE  Unseen(ring[t][i].id)'
  <2>1. Unseen(ring[t][i].id) /\ ring[t][i].id \in 1 .. MaxEvents
    BY RingElements DEF Whereabouts
  <2> QED
    BY <1>1, <1>2, <1>4, <2>1 DEF Unseen
<1>7. \A i \in 1 .. MaxEvents : i > produced => Unseen(i)'
  BY <1>5 DEF Whereabouts
<1>8. ASSUME NEW v \in Workloads, NEW i \in store[v], analysed'[i] # 0
      PROVE  v \notin todo'
  <2>1. i \in 1 .. MaxEvents
    BY <1>2
  <2>2. CASE i \in snapshot[w]
    <3>1. v = w
      BY <1>2, <2>2 DEF Whereabouts
    <3> QED
      BY <1>1, <3>1
  <2>3. CASE i \notin snapshot[w]
    BY <1>1, <1>4, <1>8, <2>1, <2>3 DEF Whereabouts
  <2> QED
    BY <2>2, <2>3
<1>9. AnalysedAtMostOnce'
  BY <1>3, <1>4 DEF Whereabouts, AnalysedAtMostOnce
<1> QED
  BY <1>1, <1>6, <1>7, <1>8, <1>9 DEF Whereabouts, Unseen

LEMMA OtherAnalysisWhereabouts ==
  ASSUME TypeOK, Whereabouts,
         TakeSnapshot \/ ClearStore \/ \E w \in Workloads : SkipWorkload(w)
  PROVE  Whereabouts'
<1>1. UNCHANGED <<ring, produced, analysed>>
  BY DEF TakeSnapshot, ClearStore, SkipWorkload, kernelVars
<1>2. CASE TakeSnapshot
  BY <1>1, <1>2 DEF TakeSnapshot, Whereabouts, Unseen, AnalysedAtMostOnce
<1>3. CASE ClearStore
  BY <1>1, <1>3 DEF ClearStore, Whereabouts, Unseen, AnalysedAtMostOnce, NoEvidence
<1>4. ASSUME NEW w \in Workloads, SkipWorkload(w) PROVE Whereabouts'
  BY <1>1, <1>4 DEF SkipWorkload, Whereabouts, Unseen, AnalysedAtMostOnce
<1> QED
  BY <1>2, <1>3, <1>4

(* Who touches neither rings nor evidence.                                  *)
LEMMA RestLeaves ==
  ASSUME \/ Tick \/ CheckFlush \/ CheckSkip \/ FlushSend \/ FlushNext \/ FlushDone
         \/ \E s \in Sources : DrainEnd(s)
         \/ BatchTimeout \/ ConsumerStop \/ EngineReceive \/ EngineEnds \/ RequestStop
         \/ UNCHANGED vars
  PROVE  UNCHANGED <<ring, produced, store, phase, snapshot, todo, analysed>>
<1> USE DEF kernelVars, analysisVars
<1>1. Tick \/ CheckSkip \/ FlushSend \/ FlushNext \/ FlushDone
        => UNCHANGED <<ring, produced, store, phase, snapshot, todo, analysed>>
  BY DEF Tick, CheckSkip, FlushSend, FlushNext, FlushDone
<1>2. CheckFlush \/ ConsumerStop
        => UNCHANGED <<ring, produced, store, phase, snapshot, todo, analysed>>
  BY DEF CheckFlush, ConsumerStop, BeginFlush
<1>3. (\E s \in Sources : DrainEnd(s)) \/ BatchTimeout \/ UNCHANGED vars
        => UNCHANGED <<ring, produced, store, phase, snapshot, todo, analysed>>
  BY DEF DrainEnd, BatchTimeout, vars
<1>4. EngineReceive \/ EngineEnds \/ RequestStop
        => UNCHANGED <<ring, produced, store, phase, snapshot, todo, analysed>>
  BY DEF EngineReceive, EngineEnds, RequestStop
<1> QED
  BY <1>1, <1>2, <1>3, <1>4

LEMMA InitWhereabouts == Init => RingIds /\ Whereabouts
<1> SUFFICES ASSUME Init PROVE RingIds /\ Whereabouts
  OBVIOUS
<1>1. \A s \in Sources : Len(ring[s]) = 0
  BY DEF Init
<1>2. \A i \in 1 .. MaxEvents : analysed[i] = 0
  BY DEF Init
<1>3. \A w \in Workloads : store[w] = {} /\ snapshot[w] = {}
  BY DEF Init, NoEvidence
<1> QED
  BY <1>1, <1>2, <1>3 DEF RingIds, Whereabouts, Unseen, AnalysedAtMostOnce

LEMMA NextWhereabouts ==
  TypeOK /\ RingIds /\ Whereabouts /\ [Next]_vars => RingIds' /\ Whereabouts'
<1> SUFFICES ASSUME TypeOK, RingIds, Whereabouts, [Next]_vars
             PROVE  RingIds' /\ Whereabouts'
  OBVIOUS
<1>1. ASSUME NEW shape \in Shapes, NEW w \in Workloads, KernelEmit(shape, w)
      PROVE  RingIds' /\ Whereabouts'
  BY <1>1, EmitGrows, RingIdsStep, EmitWhereabouts
<1>2. ASSUME NEW s \in Sources, DrainOne(s) PROVE RingIds' /\ Whereabouts'
  BY <1>2, DrainDrains, RingIdsStep, DrainWhereabouts
<1>3. ASSUME UNCHANGED <<ring, produced>> PROVE RingIds'
  BY <1>3 DEF RingIds
<1>4. ASSUME NEW w \in Workloads, ScanWorkload(w) PROVE RingIds' /\ Whereabouts'
  <2>1. UNCHANGED <<ring, produced>>
    BY <1>4 DEF ScanWorkload, kernelVars
  <2> QED
    BY <1>3, <1>4, <2>1, ScanWhereabouts
<1>5. ASSUME TakeSnapshot \/ ClearStore \/ \E w \in Workloads : SkipWorkload(w)
      PROVE  RingIds' /\ Whereabouts'
  <2>1. UNCHANGED <<ring, produced>>
    BY <1>5 DEF TakeSnapshot, ClearStore, SkipWorkload, kernelVars
  <2> QED
    BY <1>3, <1>5, <2>1, OtherAnalysisWhereabouts
<1>6. ASSUME UNCHANGED <<ring, produced, store, phase, snapshot, todo, analysed>>
      PROVE  RingIds' /\ Whereabouts'
  BY <1>3, <1>6 DEF Whereabouts, Unseen, AnalysedAtMostOnce
<1> QED
  BY <1>1, <1>2, <1>4, <1>5, <1>6, RestLeaves DEF Next, Consumer, Analysis

(* However the consumer writes the store while a round scans its copy, no   *)
(* evidence is scanned in two rounds.                                       *)
THEOREM EvidenceScannedOnce == Spec => []AnalysedAtMostOnce
<1>1. Init => TypeOK /\ RingIds /\ Whereabouts
  BY InitTypeOK, InitWhereabouts
<1>2. (TypeOK /\ RingIds /\ Whereabouts) /\ [Next]_vars
        => (TypeOK /\ RingIds /\ Whereabouts)'
  BY NextTypeOK, NextWhereabouts
<1>3. Whereabouts => AnalysedAtMostOnce
  BY DEF Whereabouts
<1> QED
  BY <1>1, <1>2, <1>3, PTL DEF Spec
-----------------------------------------------------------------------------
(* The order of ids along the unified path. What has left the ring is older *)
(* than what is in it.                                                      *)
Passed(i) ==
  /\ i <= produced
  /\ \A j \in 1 .. Len(ring["security"]) : i < ring["security"][j].id

AllPassed ==
  /\ \A k \in Kinds : \A i \in 1 .. Len(batch[k]) : Passed(batch[k][i].id)
  /\ \A i \in 1 .. Len(outbox) : Passed(outbox[i].id)
  /\ \A i \in 1 .. Len(sent) : Passed(sent[i].id)

(* A flush sends its execs first, and no exec that is still to be sent is   *)
(* older than what was sent of other kinds; of the batch this can be said   *)
(* again once a flush has emptied it.                                       *)
ExecsFirst ==
  \A i, j \in 1 .. Len(outbox) :
    i < j /\ outbox[j].shape.kind = "exec" => outbox[i].shape.kind = "exec"

YoungerThanSent(e) == \A m \in 1 .. Len(sent) : sent[m].kind # "exec" => sent[m].id < e.id

ExecsAhead ==
  /\ \A i \in 1 .. Len(outbox) : outbox[i].shape.kind = "exec" => YoungerThanSent(outbox[i])
  /\ pc \notin {"flush", "lastflush"} =>
       \A i \in 1 .. Len(batch["exec"]) : YoungerThanSent(batch["exec"][i])

SentInOrder ==
  \A m, n \in 1 .. Len(sent) :
    m < n /\ sent[n].kind = "exec" /\ sent[m].kind # "exec" => sent[m].id < sent[n].id

Ordered == pc \notin {"exec", "file", "net"} /\ AllPassed /\ ExecsFirst /\ ExecsAhead /\ SentInOrder

UnifiedOrder == mode = "unified" => Ordered

LEMMA IdsTyped ==
  ASSUME TypeOK
  PROVE  /\ produced \in Nat
         /\ \A k \in Kinds : \A i \in 1 .. Len(batch[k]) :
              batch[k][i].id \in Nat /\ batch[k][i].shape.kind = k
         /\ \A i \in 1 .. Len(outbox) : outbox[i].id \in Nat
         /\ \A i \in 1 .. Len(sent) : sent[i].id \in Nat
         /\ \A s \in Sources : Len(ring[s]) \in Nat
         /\ \A s \in Sources : \A i \in 1 .. Len(ring[s]) : ring[s][i].id \in Nat
<1>0. MaxEvents \in Nat
  BY PipelineAssumption
<1>1. ASSUME NEW k \in Kinds, NEW i \in 1 .. Len(batch[k])
      PROVE  batch[k][i].id \in Nat /\ batch[k][i].shape.kind = k
  <2>1. batch[k] \in Seq(Accepted(k))
    BY DEF TypeOK
  <2>2. batch[k][i] \in Accepted(k)
    BY <2>1
  <2> QED
    BY <1>0, <2>2 DEF Accepted, Events
<1>2. ASSUME NEW i \in 1 .. Len(outbox) PROVE outbox[i].id \in Nat
  <2>1. outbox[i] \in UNION {Accepted(k) : k \in Kinds}
    BY DEF TypeOK
  <2> QED
    BY <1>0, <2>1 DEF Accepted, Events
<1>3. ASSUME NEW i \in 1 .. Len(sent) PROVE sent[i].id \in Nat
  <2>1. sent[i] \in Msgs
    BY DEF TypeOK
  <2> QED
    BY <1>0, <2>1 DEF Msgs
<1>4. \A s \in Sources : \A i \in 1 .. Len(ring[s]) : ring[s][i].id \in Nat
  BY <1>0, RingElements
<1>5. produced \in Nat /\ \A s \in Sources : Len(ring[s]) \in Nat
  BY <1>0 DEF TypeOK
<1> QED
  BY <1>1, <1>2, <1>3, <1>4, <1>5

LEMMA PassedGrows ==
  ASSUME TypeOK, NEW s \in Sources, RingGrows(s), NEW i \in Nat, Passed(i)
  PROVE  Passed(i)'
<1>1. i <= produced /\ produced \in Nat /\ produced' = produced + 1
  BY IdsTyped DEF Passed, RingGrows
<1>2. ASSUME NEW j \in 1 .. Len(ring'["security"]) PROVE i < ring'["security"][j].id
  <2>1. "security" \in Sources
    BY DEF Sources
  <2>2. CASE \E k \in 1 .. Len(ring["security"]) : ring'["security"][j] = ring["security"][k]
    BY <2>2 DEF Passed
  <2>3. CASE ring'["security"][j].id = produced + 1
    BY <1>1, <2>3
  <2> QED
    BY <2>1, <2>2, <2>3, RingsGain
<1>3. i <= produced'
  BY <1>1
<1> QED
  BY <1>2, <1>3 DEF Passed

LEMMA PassedDrains ==
  ASSUME TypeOK, RingIds, RingDrains("security"), NEW i, Passed(i) \/ i = ring["security"][1].id
  PROVE  Passed(i)'
<1>1. "security" \in Sources /\ produced' = produced
  BY DEF Sources, RingDrains
<1>2. 1 \in 1 .. Len(ring["security"])
  BY DEF RingDrains
<1>3. i <= produced'
  BY <1>1, <1>2 DEF Passed, RingIds
<1>4. ASSUME NEW j \in 1 .. Len(ring'["security"]) PROVE i < ring'["security"][j].id
  <2>1. /\ j + 1 \in 1 .. Len(ring["security"]) /\ 1 < j + 1
        /\ ring'["security"][j] = ring["security"][j + 1]
    BY <1>2 DEF RingDrains
  <2>2. ring["security"][1].id < ring["security"][j + 1].id
    BY <1>1, <1>2, <2>1 DEF RingIds
  <2> QED
    BY <2>1, <2>2 DEF Passed
<1> QED
  BY <1>3, <1>4 DEF Passed

LEMMA AllPassedKept ==
  ASSUME TypeOK, AllPassed, UNCHANGED <<batch, outbox, sent>>,
         \A i \in Nat : Passed(i) => Passed(i)'
  PROVE  AllPassed'
<1>1. ASSUME NEW k \in Kinds, NEW i \in 1 .. Len(batch[k]) PROVE Passed(batch[k][i].id)'
  <2>1. batch[k][i].id \in Nat /\ Passed(batch[k][i].id)
    BY IdsTyped DEF AllPassed
  <2> QED
    BY <2>1 DEF Passed
<1>2. ASSUME NEW i \in 1 .. Len(outbox) PROVE Passed(outbox[i].id)'
  <2>1. outbox[i].id \in Nat /\ Passed(outbox[i].id)
    BY IdsTyped DEF AllPassed
  <2> QED
    BY <2>1 DEF Passed
<1>3. ASSUME NEW i \in 1 .. Len(sent) PROVE Passed(sent[i].id)'
  <2>1. sent[i].id \in Nat /\ Passed(sent[i].id)
    BY IdsTyped DEF AllPassed
  <2> QED
    BY <2>1 DEF Passed
<1> QED
  BY <1>1, <1>2, <1>3 DEF AllPassed

LEMMA EmitOrdered ==
  ASSUME TypeOK, Ordered, NEW shape \in Shapes, NEW w \in Workloads, KernelEmit(shape, w)
  PROVE  Ordered'
<1>1. UNCHANGED <<pc, batch, outbox, sent>>
  BY DEF KernelEmit, batchVars, busVars
<1>2. \A i \in Nat : Passed(i) => Passed(i)'
  BY EmitGrows, PassedGrows
<1>3. AllPassed'
  BY <1>1, <1>2, AllPassedKept DEF Ordered
<1> QED
  BY <1>1, <1>3 DEF Ordered, ExecsFirst, ExecsAhead, YoungerThanSent, SentInOrder

(* The batches after a push.                                                *)
LEMMA PushElements ==
  ASSUME TypeOK, NEW e \in Events, NEW k \in Kinds, NEW i \in 1 .. Len(Push(e)[k])
  PROVE  \/ i \in 1 .. Len(batch[k]) /\ Push(e)[k][i] = batch[k][i]
         \/ Push(e)[k][i] = e
<1>1. CASE Accepts(e) /\ e.shape.kind = k
  <2>1. batch[k] \in Seq(Events) /\ Push(e)[k] = Append(batch[k], e)
    BY <1>1 DEF Push, TypeOK
  <2> QED
    BY <2>1
<1>2. CASE ~(Accepts(e) /\ e.shape.kind = k)
  <2>1. Push(e)[k] = batch[k]
    BY <1>2 DEF Push, TypeOK, Accepts
  <2> QED
    BY <2>1
<1> QED
  BY <1>1, <1>2

LEMMA DrainOrdered ==
  ASSUME TypeOK, RingIds, Ordered, NEW s \in Sources, DrainOne(s)
  PROVE  Ordered'
<1>1. s = "security"
  BY DEF DrainOne, Ordered, Sources, Kinds
<1> DEFINE e == Head(ring[s])
<1>2. RingDrains("security") /\ e = ring["security"][1] /\ 1 \in 1 .. Len(ring["security"])
  BY <1>1, DrainDrains DEF RingDrains
<1>3. e \in Events
  BY <1>1, <1>2, RingElements
<1>4. batch' = Push(e) /\ UNCHANGED <<outbox, sent>> /\ pc' \in {"security", "check"}
  BY <1>1 DEF DrainOne, StageAfter, busVars
<1>5. \A i : Passed(i) \/ i = e.id => Passed(i)'
  BY <1>2, PassedDrains
<1>6. \A m \in 1 .. Len(sent) : sent[m].id < e.id
  BY <1>2 DEF Ordered, AllPassed, Passed
<1> HIDE DEF e
<1>7. AllPassed'
  <2>1. ASSUME NEW k \in Kinds, NEW i \in 1 .. Len(batch'[k]) PROVE Passed(batch[k][i].id)'
    <3>1. \/ i \in 1 .. Len(batch[k]) /\ batch'[k][i] = batch[k][i]
          \/ batch'[k][i] = e
      BY <1>3, <1>4, PushElements
    <3>2. CASE i \in 1 .. Len(batch[k]) /\ batch'[k][i] = batch[k][i]
      <4>1. Passed(batch[k][i].id)
        BY <3>2 DEF Ordered, AllPassed
      <4> QED
        BY <1>5, <3>2, <4>1 DEF Passed
    <3>3. CASE batch'[k][i] = e
      BY <1>5, <3>3 DEF Passed
    <3> QED
      BY <3>1, <3>2, <3>3
  <2>2. ASSUME NEW i \in 1 .. Len(outbox) PROVE Passed(outbox[i].id)'
    <3>1. Passed(outbox[i].id)
      BY DEF Ordered, AllPassed
    <3> QED
      BY <1>4, <1>5, <3>1 DEF Passed
  <2>3. ASSUME NEW i \in 1 .. Len(sent) PROVE Passed(sent[i].id)'
    <3>1. Passed(sent[i].id)
      BY DEF Ordered, AllPassed
    <3> QED
      BY <1>4, <1>5, <3>1 DEF Passed
  <2> QED
    BY <1>4, <2>1, <2>2, <2>3 DEF AllPassed
<1>8. ASSUME NEW i \in 1 .. Len(batch'["exec"])
      PROVE  YoungerThanSent(batch["exec"][i])'
  <2>1. \/ i \in 1 .. Len(batch["exec"]) /\ batch'["exec"][i] = batch["exec"][i]
        \/ batch'["exec"][i] = e
    BY <1>3, <1>4, PushElements DEF Kinds
  <2>2. CASE i \in 1 .. Len(batch["exec"]) /\ batch'["exec"][i] = batch["exec"][i]
    <3>1. pc \notin {"flush", "lastflush"}
      BY <1>1 DEF DrainOne
    <3>2. YoungerThanSent(batch["exec"][i])
      BY <2>2, <3>1 DEF Ordered, ExecsAhead
    <3> QED
      BY <1>4, <2>2, <3>2 DEF YoungerThanSent
  <2>3. CASE batch'["exec"][i] = e
    BY <1>4, <1>6, <2>3 DEF YoungerThanSent
  <2> QED
    BY <2>1, <2>2, <2>3
<1>9. ExecsFirst' /\ SentInOrder'
  BY <1>4 DEF Ordered, ExecsFirst, SentInOrder
<1>10. ExecsAhead'
  <2>1. ASSUME NEW i \in 1 .. Len(outbox'), outbox'[i].shape.kind = "exec"
        PROVE  YoungerThanSent(outbox[i])'
    <3>1. YoungerThanSent(outbox[i])
      BY <1>4, <2>1 DEF Ordered, ExecsAhead
    <3> QED
      BY <1>4, <3>1 DEF YoungerThanSent
  <2> QED
    BY <1>8, <2>1 DEF ExecsAhead
<1> QED
  BY <1>4, <1>7, <1>9, <1>10 DEF Ordered

(* What a flush takes: the exec batch first, then events of other kinds.    *)
LEMMA FlushElements ==
  ASSUME TypeOK, NEW i \in 1 .. Len(FlushOrder(batch))
  PROVE  /\ \E k \in Kinds : \E j \in 1 .. Len(batch[k]) : FlushOrder(batch)[i] = batch[k][j]
         /\ i \in 1 .. Len(batch["exec"]) => FlushOrder(batch)[i] = batch["exec"][i]
         /\ FlushOrder(batch)[i].shape.kind = "exec" <=> i \in 1 .. Len(batch["exec"])
<1> DEFINE x == batch["exec"]
           f == batch["file"]
           n == batch["net"]
<1>1. x \in Seq(Events) /\ f \in Seq(Events) /\ n \in Seq(Events)
  BY DEF TypeOK, Kinds
<1>2. /\ \A j \in 1 .. Len(x) : x[j].shape.kind = "exec"
      /\ \A j \in 1 .. Len(f) : f[j].shape.kind = "file"
      /\ \A j \in 1 .. Len(n) : n[j].shape.kind = "net"
  BY IdsTyped DEF Kinds
<1>3. FlushOrder(batch) = (x \o f) \o n
  BY <1>1 DEF FlushOrder
<1> HIDE DEF x, f, n
<1>4. \/ i \in 1 .. Len(x) /\ ((x \o f) \o n)[i] = x[i]
      \/ i \notin 1 .. Len(x) /\ \E j \in 1 .. Len(f) : ((x \o f) \o n)[i] = f[j]
      \/ i \notin 1 .. Len(x) /\ \E j \in 1 .. Len(n) : ((x \o f) \o n)[i] = n[j]
  <2>1. /\ x \o f \in Seq(Events) /\ Len(x \o f) = Len(x) + Len(f)
        /\ Len((x \o f) \o n) = Len(x) + Len(f) + Len(n)
        /\ Len(x) \in Nat /\ Len(f) \in Nat /\ Len(n) \in Nat
    BY <1>1
  <2>2. CASE i \in 1 .. Len(x)
    BY <1>1, <2>1, <2>2
  <2>3. CASE i \in Len(x) + 1 .. Len(x) + Len(f)
    <3>1. ((x \o f) \o n)[i] = f[i - Len(x)] /\ i - Len(x) \in 1 .. Len(f)
      BY <1>1, <2>1, <2>3
    <3> QED
      BY <2>1, <2>3, <3>1
  <2>4. CASE i \in Len(x) + Len(f) + 1 .. Len(x) + Len(f) + Len(n)
    <3>1. /\ ((x \o f) \o n)[i] = n[i - Len(x) - Len(f)]
          /\ i - Len(x) - Len(f) \in 1 .. Len(n)
      BY <1>1, <2>1, <2>4
    <3> QED
      BY <2>1, <2>4, <3>1
  <2> QED
    BY <1>3, <2>1, <2>2, <2>3, <2>4
<1>5. /\ \/ \E j \in 1 .. Len(x) : FlushOrder(batch)[i] = x[j]
         \/ \E j \in 1 .. Len(f) : FlushOrder(batch)[i] = f[j]
         \/ \E j \in 1 .. Len(n) : FlushOrder(batch)[i] = n[j]
      /\ i \in 1 .. Len(x) => FlushOrder(batch)[i] = x[i]
      /\ FlushOrder(batch)[i].shape.kind = "exec" <=> i \in 1 .. Len(x)
  BY <1>2, <1>3, <1>4
<1> QED
  BY <1>5 DEF x, f, n, Kinds

LEMMA BeginOrdered ==
  ASSUME TypeOK, Ordered, NEW stage, NEW idle, BeginFlush(stage, idle),
         stage \in {"flush", "lastflush"}, idle \in {"select", "done"},
         pc \notin {"flush", "lastflush"}
  PROVE  Ordered'
<1>1. UNCHANGED <<ring, produced, batch, sent>> /\ pc' \in {"flush", "lastflush", "select", "done"}
  BY DEF BeginFlush, kernelVars, busVars
<1>2. CASE UNCHANGED outbox
  BY <1>1, <1>2 DEF Ordered, AllPassed, Passed, ExecsFirst, ExecsAhead, YoungerThanSent, SentInOrder
<1>3. CASE outbox' = FlushOrder(batch)
  <2>1. AllPassed'
    <3>1. ASSUME NEW i \in 1 .. Len(outbox') PROVE Passed(outbox[i].id)'
      <4>1. PICK k \in Kinds : \E j \in 1 .. Len(batch[k]) : outbox'[i] = batch[k][j]
        BY <1>3, FlushElements
      <4>2. PICK j \in 1 .. Len(batch[k]) : outbox'[i] = batch[k][j]
        BY <4>1
      <4>3. Passed(batch[k][j].id)
        BY DEF Ordered, AllPassed
      <4> QED
        BY <1>1, <4>2, <4>3 DEF Passed
    <3> QED
      BY <1>1, <3>1 DEF Ordered, AllPassed, Passed
  <2>2. ExecsFirst'
    <3> SUFFICES ASSUME NEW i \in 1 .. Len(outbox'), NEW j \in 1 .. Len(outbox'),
                        i < j, outbox'[j].shape.kind = "exec"
                 PROVE  outbox'[i].shape.kind = "exec"
      BY DEF ExecsFirst
    <3>1. j \in 1 .. Len(batch["exec"])
      BY <1>3, FlushElements
    <3>2. Len(batch["exec"]) \in Nat
      BY DEF TypeOK, Kinds
    <3>3. i \in 1 .. Len(batch["exec"])
      BY <3>1, <3>2
    <3> QED
      BY <1>3, <3>3, FlushElements
  <2>3. ExecsAhead'
    <3>1. ASSUME NEW i \in 1 .. Len(outbox'), outbox'[i].shape.kind = "exec"
          PROVE  YoungerThanSent(outbox[i])'
      <4>1. i \in 1 .. Len(batch["exec"]) /\ outbox'[i] = batch["exec"][i]
        BY <1>3, <3>1, FlushElements
      <4>2. YoungerThanSent(batch["exec"][i])
        BY <4>1 DEF Ordered, ExecsAhead
      <4> QED
        BY <1>1, <4>1, <4>2 DEF YoungerThanSent
    <3>2. \A i \in 1 .. Len(batch'["exec"]) : YoungerThanSent(batch["exec"][i])'
      BY <1>1 DEF Ordered, ExecsAhead, YoungerThanSent
    <3> QED
      BY <3>1, <3>2 DEF ExecsAhead
  <2>4. SentInOrder'
    BY <1>1 DEF Ordered, SentInOrder
  <2> QED
    BY <1>1, <2>1, <2>2, <2>3, <2>4 DEF Ordered
<1> QED
  BY <1>2, <1>3 DEF BeginFlush

(* What was sent, after one more message of the first event of the outbox.  *)
LEMMA SentElements ==
  ASSUME TypeOK, FlushSend
  PROVE  /\ outbox[1] = Head(outbox) /\ 1 \in 1 .. Len(outbox)
         /\ Len(sent) \in Nat /\ Len(sent') = Len(sent) + 1
         /\ \A i \in 1 .. Len(sent) : sent'[i] = sent[i]
         /\ sent'[Len(sent) + 1].id = outbox[1].id
         /\ sent'[Len(sent) + 1].kind = outbox[1].shape.kind
<1>1. /\ outbox \in Seq(UNION {Accepted(k) : k \in Kinds}) /\ outbox # <<>>
      /\ sent' = Append(sent, Message(Head(outbox), part + 1)) /\ sent \in Seq(Msgs)
  BY DEF FlushSend, TypeOK
<1>2. /\ outbox[1] = Head(outbox) /\ 1 \in 1 .. Len(outbox)
  BY <1>1, TailElements
<1>3. /\ Len(sent) \in Nat /\ Len(sent') = Len(sent) + 1
      /\ \A i \in 1 .. Len(sent) : sent'[i] = sent[i]
      /\ sent'[Len(sent) + 1] = Message(Head(outbox), part + 1)
  BY <1>1
<1> QED
  BY <1>2, <1>3 DEF Message

LEMMA SendOrdered ==
  ASSUME TypeOK, Ordered, FlushSend
  PROVE  Ordered'
<1> DEFINE last == Len(sent) + 1
<1>1. UNCHANGED <<ring, produced, batch, outbox, pc>> /\ pc \in {"flush", "lastflush"}
  BY DEF FlushSend, kernelVars
<1>2. /\ 1 \in 1 .. Len(outbox) /\ Len(sent) \in Nat /\ Len(sent') = last
      /\ \A i \in 1 .. Len(sent) : sent'[i] = sent[i]
      /\ sent'[last].id = outbox[1].id /\ sent'[last].kind = outbox[1].shape.kind
  BY SentElements
<1>3. \A i \in 1 .. Len(sent') : (i \in 1 .. Len(sent) /\ sent'[i] = sent[i]) \/ i = last
  BY <1>2
<1> HIDE DEF last
<1>4. AllPassed'
  <2>1. ASSUME NEW i \in 1 .. Len(sent') PROVE Passed(sent[i].id)'
    <3>1. Passed(outbox[1].id) /\ \A j \in 1 .. Len(sent) : Passed(sent[j].id)
      BY <1>2 DEF Ordered, AllPassed
    <3> QED
      BY <1>1, <1>2, <1>3, <3>1 DEF Passed
  <2> QED
    BY <1>1, <2>1 DEF Ordered, AllPassed, Passed
<1>5. ExecsFirst'
  BY <1>1 DEF Ordered, ExecsFirst
<1>6. ASSUME NEW i \in 1 .. Len(outbox), outbox[i].shape.kind = "exec"
      PROVE  outbox[1].shape.kind = "exec"
  <2>1. i = 1 \/ 1 < i
    BY <1>6 DEF TypeOK
  <2> QED
    BY <1>2, <1>6, <2>1 DEF Ordered, ExecsFirst
<1>7. ExecsAhead'
  <2>1. ASSUME NEW i \in 1 .. Len(outbox), outbox[i].shape.kind = "exec"
        PROVE  YoungerThanSent(outbox[i])'
    <3>1. YoungerThanSent(outbox[i]) /\ outbox[1].shape.kind = "exec"
      BY <1>6, <2>1 DEF Ordered, ExecsAhead
    <3> QED
      BY <1>1, <1>2, <1>3, <3>1 DEF YoungerThanSent
  <2> QED
    BY <1>1, <2>1 DEF ExecsAhead
<1>8. SentInOrder'
  <2> SUFFICES ASSUME NEW m \in 1 .. Len(sent'), NEW n \in 1 .. Len(sent'), m < n,
                      sent'[n].kind = "exec", sent'[m].kind # "exec"
               PROVE  sent'[m].id < sent'[n].id
    BY DEF SentInOrder
  <2>1. m \in 1 .. Len(sent) /\ sent'[m] = sent[m]
    BY <1>2 DEF last
  <2>2. CASE n \in 1 .. Len(sent) /\ sent'[n] = sent[n]
    BY <2>1, <2>2 DEF Ordered, SentInOrder
  <2>3. CASE n = last
    <3>1. YoungerThanSent(outbox[1])
      BY <1>2, <2>3 DEF Ordered, ExecsAhead
    <3> QED
      BY <1>2, <2>1, <2>3, <3>1 DEF YoungerThanSent
  <2> QED
    BY <1>3, <2>2, <2>3
<1> QED
  BY <1>1, <1>4, <1>5, <1>7, <1>8 DEF Ordered

LEMMA FlushNextOrdered ==
  ASSUME TypeOK, Ordered, FlushNext
  PROVE  Ordered'
<1>1. /\ UNCHANGED <<ring, produced, batch, sent, pc>> /\ pc \in {"flush", "lastflush"}
      /\ outbox' = Tail(outbox) /\ outbox # <<>>
      /\ outbox \in Seq(UNION {Accepted(k) : k \in Kinds})
  BY DEF FlushNext, kernelVars, busVars, TypeOK
<1>2. Len(outbox) \in Nat /\ Len(outbox') = Len(outbox) - 1
  BY <1>1, TailElements
<1>3. ASSUME NEW i \in 1 .. Len(outbox')
      PROVE  i + 1 \in 1 .. Len(outbox) /\ outbox'[i] = outbox[i + 1]
  BY <1>1, <1>2, TailElements
<1>4. AllPassed'
  <2>1. ASSUME NEW i \in 1 .. Len(outbox') PROVE Passed(outbox[i].id)'
    <3>1. Passed(outbox[i + 1].id)
      BY <1>3 DEF Ordered, AllPassed
    <3> QED
      BY <1>1, <1>3, <3>1 DEF Passed
  <2> QED
    BY <1>1, <2>1 DEF Ordered, AllPassed, Passed
<1>5. ExecsFirst'
  <2> SUFFICES ASSUME NEW i \in 1 .. Len(outbox'), NEW j \in 1 .. Len(outbox'),
                      i < j, outbox'[j].shape.kind = "exec"
               PROVE  outbox'[i].shape.kind = "exec"
    BY DEF ExecsFirst
  <2>1. i + 1 < j + 1
    OBVIOUS
  <2>2. outbox[i + 1].shape.kind = "exec"
    BY <1>3, <2>1 DEF Ordered, ExecsFirst
  <2> QED
    BY <1>3, <2>2
<1>6. ExecsAhead'
  <2>1. ASSUME NEW i \in 1 .. Len(outbox'), outbox'[i].shape.kind = "exec"
        PROVE  YoungerThanSent(outbox[i])'
    <3>1. YoungerThanSent(outbox[i + 1])
      BY <1>3, <2>1 DEF Ordered, ExecsAhead
    <3> QED
      BY <1>1, <1>3, <3>1 DEF YoungerThanSent
  <2> QED
    BY <1>1, <2>1 DEF ExecsAhead
<1>7. SentInOrder'
  BY <1>1 DEF Ordered, SentInOrder
<1> QED
  BY <1>1, <1>4, <1>5, <1>6, <1>7 DEF Ordered

LEMMA FlushDoneOrdered ==
  ASSUME TypeOK, Ordered, FlushDone
  PROVE  Ordered'
<1>1. /\ UNCHANGED <<ring, produced, outbox, sent>> /\ pc' \in {"select", "done"}
      /\ \A k \in Kinds : Len(batch'[k]) = 0
  BY DEF FlushDone, NoBatches, kernelVars, busVars
<1>2. AllPassed'
  BY <1>1 DEF Ordered, AllPassed, Passed
<1>3. ExecsFirst' /\ SentInOrder'
  BY <1>1 DEF Ordered, ExecsFirst, SentInOrder
<1>4. ExecsAhead'
  <2>1. Len(batch'["exec"]) = 0
    BY <1>1 DEF Kinds
  <2> QED
    BY <1>1, <2>1 DEF Ordered, ExecsAhead, YoungerThanSent
<1> QED
  BY <1>1, <1>2, <1>3, <1>4 DEF Ordered

LEMMA InitOrdered == Init => UnifiedOrder
<1> SUFFICES ASSUME Init PROVE Ordered
  BY DEF UnifiedOrder
<1>1. /\ \A k \in Kinds : Len(batch[k]) = 0
      /\ Len(outbox) = 0 /\ Len(sent) = 0 /\ pc = "select"
  BY DEF Init, NoBatches
<1> QED
  BY <1>1 DEF Ordered, AllPassed, ExecsFirst, ExecsAhead, SentInOrder, Kinds

LEMMA NextOrdered ==
  TypeOK /\ RingIds /\ UnifiedOrder /\ [Next]_vars => UnifiedOrder'
<1> SUFFICES ASSUME TypeOK, RingIds, UnifiedOrder, [Next]_vars, mode' = "unified"
             PROVE  Ordered'
  BY DEF UnifiedOrder
<1> USE DEF kernelVars, batchVars, busVars, analysisVars
<1>0. mode' = mode
  BY DEF Next, Consumer, Analysis, vars, KernelEmit, Tick, DrainOne, DrainEnd,
         CheckFlush, CheckSkip, ConsumerStop, BeginFlush, BatchTimeout, FlushSend,
         FlushNext, FlushDone, EngineReceive, EngineEnds, TakeSnapshot,
         ScanWorkload, SkipWorkload, ClearStore, RequestStop
<1>00. Ordered /\ mode = "unified"
  BY <1>0 DEF UnifiedOrder
<1>1. ASSUME NEW shape \in Shapes, NEW w \in Workloads, KernelEmit(shape, w)
      PROVE  Ordered'
  BY <1>00, <1>1, EmitOrdered
<1>2. ASSUME NEW s \in Sources, DrainOne(s) PROVE Ordered'
  BY <1>00, <1>2, DrainOrdered
<1>3. CASE CheckFlush
  BY <1>00, <1>3, BeginOrdered DEF CheckFlush
<1>4. CASE ConsumerStop
  BY <1>00, <1>4, BeginOrdered DEF ConsumerStop
<1>5. CASE FlushSend
  BY <1>00, <1>5, SendOrdered
<1>6. CASE FlushNext
  BY <1>00, <1>6, FlushNextOrdered
<1>7. CASE FlushDone
  BY <1>00, <1>7, FlushDoneOrdered
<1>8. ASSUME UNCHANGED <<ring, produced, batch, outbox, sent>>,
             pc' \notin {"exec", "file", "net"},
             pc' \in {"flush", "lastflush"} <=> pc \in {"flush", "lastflush"}
      PROVE  Ordered'
  BY <1>00, <1>8
     DEF Ordered, AllPassed, Passed, ExecsFirst, ExecsAhead, YoungerThanSent, SentInOrder
<1>9. CASE Tick
  BY <1>00, <1>8, <1>9 DEF Tick, FirstStage
<1>10. CASE CheckSkip
  BY <1>8, <1>10 DEF CheckSkip
<1>11. ASSUME NEW s \in Sources, DrainEnd(s) PROVE Ordered'
  <2>1. s = "security"
    BY <1>00, <1>11 DEF DrainEnd, Ordered, Sources, Kinds
  <2> QED
    BY <1>8, <1>11, <2>1 DEF DrainEnd, StageAfter
<1>12. CASE UNCHANGED <<ring, produced, batch, outbox, sent, pc>>
  BY <1>00, <1>8, <1>12 DEF Ordered
<1>13. BatchTimeout \/ EngineReceive \/ EngineEnds \/ RequestStop \/ UNCHANGED vars
         => UNCHANGED <<ring, produced, batch, outbox, sent, pc>>
  BY DEF BatchTimeout, EngineReceive, EngineEnds, RequestStop, vars
<1>14. Analysis => UNCHANGED <<ring, produced, batch, outbox, sent, pc>>
  BY DEF Analysis, TakeSnapshot, ScanWorkload, SkipWorkload, ClearStore
<1> QED
  BY <1>1, <1>2, <1>3, <1>4, <1>5, <1>6, <1>7, <1>9, <1>10, <1>11, <1>12, <1>13,
     <1>14 DEF Next, Consumer

(* With the unified ring no process is announced after something younger    *)
(* that another kind of event told, however many events a flush regroups.   *)
THEOREM ExecsComeFirst == Spec => []ExecPrecedesLaterActivity
<1>1. Init => TypeOK /\ RingIds /\ Whereabouts /\ UnifiedOrder
  BY InitTypeOK, InitWhereabouts, InitOrdered
<1>2. (TypeOK /\ RingIds /\ Whereabouts /\ UnifiedOrder) /\ [Next]_vars
        => (TypeOK /\ RingIds /\ Whereabouts /\ UnifiedOrder)'
  BY NextTypeOK, NextWhereabouts, NextOrdered
<1>3. UnifiedOrder => ExecPrecedesLaterActivity
  BY DEF UnifiedOrder, Ordered, SentInOrder, ExecPrecedesLaterActivity
<1> QED
  BY <1>1, <1>2, <1>3, PTL DEF Spec
-----------------------------------------------------------------------------
(* Ordered delivery. The messages of a list of events are those of the one   *)
(* event after those of the other.                                           *)
Taken == UNION {Accepted(k) : k \in Kinds}

Pieces(es, n, k) == [i \in 1 .. Len(es) |-> MessagesOf(es[i], IF i = 1 THEN n ELSE 0, k)]

LEMMA ListMade ==
  ASSUME NEW V, NEW n \in Nat, NEW f \in [1 .. n -> V]
  PROVE  f \in Seq(V) /\ Len(f) = n
  OBVIOUS

LEMMA MessagesOfTyped ==
  ASSUME NEW e \in Taken, NEW n \in Nat, NEW k
  PROVE  /\ MessagesOf(e, n, k) \in Seq(Msgs)
         /\ e.shape.kind \in Kinds /\ Len(Messages(e)) \in Nat
         /\ e.shape.kind # k => MessagesOf(e, n, k) = <<>>
         /\ e.shape.kind = k => /\ n <= Len(Messages(e))
                                     => Len(MessagesOf(e, n, k)) = Len(Messages(e)) - n
                                /\ \A j \in 1 .. Len(Messages(e)) - n :
                                     MessagesOf(e, n, k)[j] = Message(e, n + j)
<1>1. PICK kind \in Kinds : e \in Accepted(kind)
  BY DEF Taken
<1>2. e.shape.kind \in Kinds
  BY <1>1 DEF Accepted
<1>3. PICK m \in Nat : m = Len(Messages(e))
  <2> DEFINE S == Seq({"bpf", "graph"})
  <2>1. <<"bpf", "graph">> \in S /\ <<"bpf">> \in S /\ <<"graph">> \in S /\ <<>> \in S
    OBVIOUS
  <2>2. \A a, b \in S : a \o b \in S
    OBVIOUS
  <2> HIDE DEF S
  <2>3. Messages(e) \in S
    BY <2>1, <2>2 DEF Messages
  <2> QED BY <2>3 DEF S
<1>4. ASSUME NEW j \in 1 .. m - n PROVE Message(e, n + j) \in Msgs
  <2>1. PICK i \in Nat : n + j = i + 1 /\ i < m
    <3>1. n + j - 1 \in Nat /\ n + j = (n + j - 1) + 1 /\ n + j - 1 < m
      OBVIOUS
    <3> QED BY <3>1
  <2>2. Message(e, i + 1) \in Msgs
    BY <1>1, <1>3, <2>1, MessageTyped
  <2> QED BY <2>1, <2>2
<1>5. CASE e.shape.kind # k
  <2>1. MessagesOf(e, n, k) = <<>>
    BY <1>5 DEF MessagesOf
  <2> QED BY <1>2, <1>3, <1>5, <2>1
<1>6. CASE e.shape.kind = k /\ n <= m
  <2>1. m - n \in Nat
    BY <1>6
  <2>2. MessagesOf(e, n, k) = [j \in 1 .. m - n |-> Message(e, n + j)]
    BY <1>3, <1>6 DEF MessagesOf
  <2>3. MessagesOf(e, n, k) \in [1 .. m - n -> Msgs]
    BY <1>4, <2>2
  <2>4. /\ MessagesOf(e, n, k) \in Seq(Msgs) /\ Len(MessagesOf(e, n, k)) = m - n
        /\ \A j \in 1 .. m - n : MessagesOf(e, n, k)[j] = Message(e, n + j)
    BY <2>1, <2>2, <2>3, ListMade
  <2> QED BY <1>2, <1>3, <1>6, <2>4
<1>7. CASE e.shape.kind = k /\ ~(n <= m)
  <2>1. 1 .. m - n = {} /\ 1 .. 0 = {}
    BY <1>7
  <2>2. MessagesOf(e, n, k) = [j \in 1 .. m - n |-> Message(e, n + j)]
    BY <1>3, <1>7 DEF MessagesOf
  <2>3. MessagesOf(e, n, k) = <<>>
    BY <2>1, <2>2
  <2> QED BY <1>2, <1>3, <1>7, <2>1, <2>3
<1> QED BY <1>5, <1>6, <1>7

LEMMA PiecesTyped ==
  ASSUME NEW es \in Seq(Taken), NEW n \in Nat, NEW k
  PROVE  /\ Pieces(es, n, k) \in Seq(Seq(Msgs)) /\ Len(Pieces(es, n, k)) = Len(es)
         /\ \A i \in 1 .. Len(es) :
              Pieces(es, n, k)[i] = MessagesOf(es[i], IF i = 1 THEN n ELSE 0, k)
         /\ Remaining(es, n, k) = FlattenSeq(Pieces(es, n, k))
         /\ Remaining(es, n, k) \in Seq(Msgs)
<1>1. PICK m \in Nat : m = Len(es) /\ \A i \in 1 .. m : es[i] \in Taken
  OBVIOUS
<1>2. ASSUME NEW i \in 1 .. m PROVE MessagesOf(es[i], IF i = 1 THEN n ELSE 0, k) \in Seq(Msgs)
  BY <1>1, MessagesOfTyped
<1> DEFINE V == Seq(Msgs)
<1>3. Pieces(es, n, k) = [i \in 1 .. m |-> MessagesOf(es[i], IF i = 1 THEN n ELSE 0, k)]
  BY <1>1 DEF Pieces
<1> HIDE DEF V
<1>4. Pieces(es, n, k) \in [1 .. m -> V]
  BY <1>2, <1>3 DEF V
<1>5. /\ Pieces(es, n, k) \in Seq(V) /\ Len(Pieces(es, n, k)) = m
      /\ \A i \in 1 .. m : Pieces(es, n, k)[i] = MessagesOf(es[i], IF i = 1 THEN n ELSE 0, k)
  BY <1>3, <1>4
<1>6. Remaining(es, n, k) = FlattenSeq(Pieces(es, n, k))
  BY DEF Remaining, Pieces
<1>7. FlattenSeq(Pieces(es, n, k)) \in Seq(Msgs)
  BY <1>5, FlattenTyped DEF V
<1> QED BY <1>1, <1>5, <1>6, <1>7 DEF V

LEMMA PiecesOfAll ==
  ASSUME NEW es \in Seq(Taken), NEW m, m = Len(es), NEW k
  PROVE  /\ Pieces(es, 0, k) \in Seq(Seq(Msgs)) /\ Len(Pieces(es, 0, k)) = m
         /\ \A i \in 1 .. m : Pieces(es, 0, k)[i] = MessagesOf(es[i], 0, k)
<1>1. 0 \in Nat
  OBVIOUS
<1>2. /\ Pieces(es, 0, k) \in Seq(Seq(Msgs)) /\ Len(Pieces(es, 0, k)) = Len(es)
      /\ \A i \in 1 .. Len(es) :
           Pieces(es, 0, k)[i] = MessagesOf(es[i], IF i = 1 THEN 0 ELSE 0, k)
  BY <1>1, PiecesTyped
<1>3. ASSUME NEW i \in 1 .. m PROVE Pieces(es, 0, k)[i] = MessagesOf(es[i], 0, k)
  BY <1>2
<1> QED BY <1>2, <1>3

LEMMA NothingRemains ==
  ASSUME NEW n, NEW k
  PROVE  Remaining(<<>>, n, k) = <<>>
<1>1. Pieces(<<>>, n, k) = <<>>
  BY DEF Pieces
<1> QED BY <1>1, FlattenNothing DEF Remaining, Pieces

LEMMA RemainingConcat ==
  ASSUME NEW s \in Seq(Taken), NEW t \in Seq(Taken), NEW k
  PROVE  Remaining(s \o t, 0, k) = Remaining(s, 0, k) \o Remaining(t, 0, k)
<1> DEFINE V == Seq(Msgs)
           all == s \o t
           ps == Pieces(s, 0, k)
           pt == Pieces(t, 0, k)
           pa == Pieces(all, 0, k)
<1>1. PICK m \in Nat, n \in Nat : m = Len(s) /\ n = Len(t)
  OBVIOUS
<1>2. /\ all \in Seq(Taken) /\ Len(all) = m + n
      /\ \A i \in 1 .. m + n : all[i] = IF i <= m THEN s[i] ELSE t[i - m]
  BY <1>1, ConcatProperties
<1> HIDE DEF all
<1>3. /\ ps \in Seq(V) /\ Len(ps) = m /\ \A i \in 1 .. m : ps[i] = MessagesOf(s[i], 0, k)
      /\ pt \in Seq(V) /\ Len(pt) = n /\ \A i \in 1 .. n : pt[i] = MessagesOf(t[i], 0, k)
  BY <1>1, PiecesOfAll
<1>4. pa \in Seq(V) /\ Len(pa) = m + n /\ \A i \in 1 .. m + n : pa[i] = MessagesOf(all[i], 0, k)
  <2>1. PICK q : q = m + n /\ q = Len(all)
    BY <1>2
  <2>2. q = Len(all)
    BY <2>1
  <2>3. all \in Seq(Taken)
    BY <1>2
  <2>4. /\ pa \in Seq(V) /\ Len(pa) = q /\ \A i \in 1 .. q : pa[i] = MessagesOf(all[i], 0, k)
    BY ONLY <2>2, <2>3, PiecesOfAll
  <2> QED BY <2>1, <2>4
<1>5. Remaining(all, 0, k) = FlattenSeq(pa)
  BY DEF Remaining, Pieces
<1>6. Remaining(s, 0, k) = FlattenSeq(ps) /\ Remaining(t, 0, k) = FlattenSeq(pt)
  BY DEF Remaining, Pieces
<1> HIDE DEF V, ps, pt, pa
<1>7. pa = ps \o pt
  <2>1. /\ ps \o pt \in Seq(V) /\ Len(ps \o pt) = m + n
        /\ \A i \in 1 .. m + n : (ps \o pt)[i] = IF i <= m THEN ps[i] ELSE pt[i - m]
    BY <1>3, ConcatProperties
  <2>2. ASSUME NEW i \in 1 .. m + n PROVE pa[i] = (ps \o pt)[i]
    <3>1. CASE i <= m
      <4>1. i \in 1 .. m
        BY <3>1
      <4>2. (ps \o pt)[i] = ps[i] /\ all[i] = s[i]
        BY <1>2, <2>1, <3>1
      <4>3. ps[i] = MessagesOf(s[i], 0, k) /\ pa[i] = MessagesOf(all[i], 0, k)
        BY <1>3, <1>4, <4>1
      <4> QED BY <4>2, <4>3
    <3>2. CASE ~(i <= m)
      <4>1. i - m \in 1 .. n
        BY <3>2
      <4>2. (ps \o pt)[i] = pt[i - m] /\ all[i] = t[i - m]
        BY <1>2, <2>1, <3>2
      <4>3. pt[i - m] = MessagesOf(t[i - m], 0, k) /\ pa[i] = MessagesOf(all[i], 0, k)
        BY <1>3, <1>4, <4>1
      <4> QED BY <4>2, <4>3
    <3> QED BY <3>1, <3>2
  <2> QED BY <1>4, <2>1, <2>2, SeqEqual
<1>8. FlattenSeq(ps \o pt) = FlattenSeq(ps) \o FlattenSeq(pt)
  BY <1>3, FlattenConcat DEF V
<1> QED BY <1>5, <1>6, <1>7, <1>8 DEF all

LEMMA RemainingHead ==
  ASSUME NEW es \in Seq(Taken), es # <<>>, NEW n \in Nat, NEW k
  PROVE  Remaining(es, n, k) = MessagesOf(Head(es), n, k) \o Remaining(Tail(es), 0, k)
<1> DEFINE V == Seq(Msgs)
           e == Head(es)
           rest == Tail(es)
           x == MessagesOf(e, n, k)
           pr == Pieces(rest, 0, k)
           pa == Pieces(es, n, k)
<1>1. PICK m \in Nat : Len(es) = m + 1
  <2>1. Len(es) \in Nat /\ Len(es) # 0
    OBVIOUS
  <2>2. Len(es) - 1 \in Nat /\ Len(es) = (Len(es) - 1) + 1
    BY <2>1
  <2> QED BY <2>2
<1>2. /\ e \in Taken /\ e = es[1] /\ rest \in Seq(Taken) /\ Len(rest) = m
      /\ \A i \in 1 .. m : rest[i] = es[i + 1]
  BY <1>1, HeadTailProperties
<1> HIDE DEF e, rest
<1>3. x \in V
  BY <1>2, MessagesOfTyped
<1>4. pr \in Seq(V) /\ Len(pr) = m /\ \A i \in 1 .. m : pr[i] = MessagesOf(rest[i], 0, k)
  <2>1. m = Len(rest)
    BY <1>2
  <2> QED BY ZenonT(60), <1>2, <2>1, PiecesOfAll
<1>5. /\ pa \in Seq(V) /\ Len(pa) = m + 1
      /\ \A i \in 1 .. m + 1 : pa[i] = MessagesOf(es[i], IF i = 1 THEN n ELSE 0, k)
  <2>1. /\ pa \in Seq(V) /\ Len(pa) = Len(es)
        /\ \A i \in 1 .. Len(es) : pa[i] = MessagesOf(es[i], IF i = 1 THEN n ELSE 0, k)
    BY PiecesTyped
  <2> QED BY <1>1, <2>1
<1>6. Remaining(es, n, k) = FlattenSeq(pa) /\ Remaining(rest, 0, k) = FlattenSeq(pr)
  BY DEF Remaining, Pieces
<1> DEFINE first == <<x>>
<1>7. first \in Seq(V) /\ Len(first) = 1 /\ first[1] = x
  BY <1>3
<1>8. FlattenSeq(first) = x
  BY <1>3, FlattenOne
<1> HIDE DEF V, x, pr, pa, first
<1>9. pa = first \o pr
  <2>1. /\ first \o pr \in Seq(V) /\ Len(first \o pr) = 1 + m
        /\ \A i \in 1 .. 1 + m : (first \o pr)[i] = IF i <= 1 THEN first[i] ELSE pr[i - 1]
    <3>1. first \o pr \in Seq(V) /\ Len(first \o pr) = Len(first) + Len(pr)
          /\ \A i \in 1 .. Len(first) + Len(pr) :
               (first \o pr)[i] = IF i <= Len(first) THEN first[i] ELSE pr[i - Len(first)]
      BY <1>4, <1>7, ConcatProperties
    <3> QED BY <1>4, <1>7, <3>1
  <2>2. 1 + m = m + 1
    OBVIOUS
  <2>3. ASSUME NEW i \in 1 .. m + 1 PROVE pa[i] = (first \o pr)[i]
    <3>1. CASE i = 1
      <4>1. pa[1] = MessagesOf(es[1], n, k)
        BY <1>5, <3>1
      <4>2. (first \o pr)[1] = x
        BY <1>7, <2>1, <2>2, <3>1
      <4> QED BY <1>2, <3>1, <4>1, <4>2 DEF x
    <3>2. CASE i # 1
      <4>1. i - 1 \in 1 .. m /\ ~(i <= 1) /\ (i - 1) + 1 = i
        BY <3>2
      <4>2. (first \o pr)[i] = pr[i - 1]
        BY <2>1, <2>2, <4>1
      <4>3. pr[i - 1] = MessagesOf(es[i], 0, k)
        BY <1>2, <1>4, <4>1
      <4> QED BY <1>5, <3>2, <4>2, <4>3
    <3> QED BY <3>1, <3>2
  <2>4. Len(first \o pr) = m + 1
    BY <2>1, <2>2
  <2> QED BY ZenonT(60), <1>5, <2>1, <2>3, <2>4, SeqEqual
<1>10. FlattenSeq(first \o pr) = FlattenSeq(first) \o FlattenSeq(pr)
  BY <1>4, <1>7, FlattenConcat DEF V
<1> QED BY SMTT(60), <1>6, <1>8, <1>9, <1>10 DEF x, e, rest

LEMMA RemainingOther ==
  ASSUME NEW j \in Kinds, NEW es \in Seq(Accepted(j)), NEW k, k # j
  PROVE  Remaining(es, 0, k) = <<>>
<1> DEFINE pieces == Pieces(es, 0, k)
<1>1. PICK n \in Nat : n = Len(es)
  OBVIOUS
<1>2. ASSUME NEW i \in 1 .. n PROVE MessagesOf(es[i], IF i = 1 THEN 0 ELSE 0, k) = <<>>
  <2>1. es[i] \in Accepted(j)
    BY <1>1
  <2>2. es[i].shape.kind = j
    BY <2>1 DEF Accepted
  <2> QED BY <2>2 DEF MessagesOf
<1>3. pieces = [i \in 1 .. n |-> <<>>]
  BY <1>1, <1>2 DEF Pieces
<1>4. Len(pieces) = n
  BY <1>3
<1>5. Remaining(es, 0, k) = FlattenSeq(pieces)
  BY DEF Remaining, Pieces
<1> HIDE DEF pieces
<1>6. Len(pieces) \in Nat /\ pieces = [i \in 1 .. Len(pieces) |-> <<>>]
  BY <1>3, <1>4
<1> QED BY <1>5, <1>6, FlattenNone

(* Sending a message takes it off what the event will cause.                *)
LEMMA MessagesLeft ==
  ASSUME NEW e \in Taken, NEW n \in Nat, n < Len(Messages(e)), NEW k, e.shape.kind = k
  PROVE  MessagesOf(e, n, k) = <<Message(e, n + 1)>> \o MessagesOf(e, n + 1, k)
<1>1. PICK m \in Nat : m = Len(Messages(e)) /\ n < m
  BY MessagesOfTyped
<1>2. PICK r \in Nat : r = n + 1 /\ r <= m /\ n <= m
  BY <1>1
<1> DEFINE now == MessagesOf(e, n, k)
           later == MessagesOf(e, r, k)
           first == <<Message(e, n + 1)>>
<1>3. Message(e, n + 1) \in Msgs
  <2>1. PICK kind \in Kinds : e \in Accepted(kind)
    BY DEF Taken
  <2> QED BY <2>1, MessageTyped
<1>4. first \in Seq(Msgs) /\ Len(first) = 1 /\ first[1] = Message(e, n + 1)
  BY <1>3
<1>5. /\ now \in Seq(Msgs) /\ Len(now) = m - n
      /\ \A j \in 1 .. m - n : now[j] = Message(e, n + j)
  <2>1. e.shape.kind = k /\ n <= Len(Messages(e))
    BY <1>1, <1>2
  <2>2. /\ now \in Seq(Msgs) /\ Len(now) = Len(Messages(e)) - n
        /\ \A j \in 1 .. Len(Messages(e)) - n : now[j] = Message(e, n + j)
    BY <2>1, MessagesOfTyped
  <2> QED BY <1>1, <2>2
<1>6. /\ later \in Seq(Msgs) /\ Len(later) = m - r
      /\ \A j \in 1 .. m - r : later[j] = Message(e, r + j)
  <2>1. e.shape.kind = k /\ r <= Len(Messages(e))
    BY <1>1, <1>2
  <2>2. /\ later \in Seq(Msgs) /\ Len(later) = Len(Messages(e)) - r
        /\ \A j \in 1 .. Len(Messages(e)) - r : later[j] = Message(e, r + j)
    BY <2>1, MessagesOfTyped
  <2> QED BY <1>1, <2>2
<1> HIDE DEF now, later, first
<1>7. /\ first \o later \in Seq(Msgs) /\ Len(first \o later) = m - n
      /\ \A j \in 1 .. m - n : (first \o later)[j] = IF j <= 1 THEN first[j] ELSE later[j - 1]
  <2>1. /\ first \o later \in Seq(Msgs) /\ Len(first \o later) = Len(first) + Len(later)
        /\ \A j \in 1 .. Len(first) + Len(later) :
             (first \o later)[j] = IF j <= Len(first) THEN first[j] ELSE later[j - Len(first)]
    BY <1>4, <1>6, ConcatProperties
  <2>2. Len(first) + Len(later) = m - n
    BY <1>2, <1>4, <1>6
  <2> QED BY <1>4, <2>1, <2>2
<1>8. ASSUME NEW j \in 1 .. m - n PROVE now[j] = (first \o later)[j]
  <2>1. CASE j = 1
    BY <1>4, <1>5, <1>7, <2>1
  <2>2. CASE j # 1
    <3>1. j - 1 \in 1 .. m - r /\ ~(j <= 1) /\ r + (j - 1) = n + j
      BY <1>2, <2>2
    <3>2. later[j - 1] = Message(e, r + (j - 1))
      BY <1>6, <3>1
    <3>3. (first \o later)[j] = later[j - 1]
      BY <1>7, <3>1
    <3> QED BY <1>5, <3>1, <3>2, <3>3
  <2> QED BY <2>1, <2>2
<1>9. now = first \o later
  BY <1>5, <1>7, <1>8, SeqEqual
<1> QED BY <1>2, <1>9 DEF now, later, first

LEMMA NoMessageLeft ==
  ASSUME NEW e \in Taken, NEW k
  PROVE  MessagesOf(e, Len(Messages(e)), k) = <<>>
<1>1. PICK m \in Nat : m = Len(Messages(e))
  BY MessagesOfTyped
<1>2. MessagesOf(e, m, k) \in Seq(Msgs)
  BY MessagesOfTyped
<1>3. CASE e.shape.kind = k
  <2>1. Len(MessagesOf(e, m, k)) = m - m
    BY <1>1, <1>3, MessagesOfTyped
  <2> QED BY <1>1, <1>2, <2>1
<1>4. CASE e.shape.kind # k
  BY <1>1, <1>4 DEF MessagesOf
<1> QED BY <1>3, <1>4

(* An event that is accepted adds its messages at the end.                  *)
LEMMA RemainingAppend ==
  ASSUME NEW es \in Seq(Taken), NEW e \in Taken, NEW k
  PROVE  Remaining(Append(es, e), 0, k) = Remaining(es, 0, k) \o MessagesOf(e, 0, k)
<1> DEFINE one == <<e>>
<1>1. one \in Seq(Taken) /\ one # <<>> /\ Head(one) = e /\ Tail(one) = <<>>
  OBVIOUS
<1>2. Append(es, e) = es \o one
  OBVIOUS
<1>3. 0 \in Nat
  OBVIOUS
<1>4. MessagesOf(e, 0, k) \in Seq(Msgs)
  BY <1>3, MessagesOfTyped
<1> HIDE DEF one
<1>5. Remaining(es \o one, 0, k) = Remaining(es, 0, k) \o Remaining(one, 0, k)
  BY <1>1, RemainingConcat
<1>6. Remaining(one, 0, k) = MessagesOf(Head(one), 0, k) \o Remaining(Tail(one), 0, k)
  BY <1>1, <1>3, RemainingHead
<1>7. Remaining(one, 0, k) = MessagesOf(e, 0, k) \o <<>>
  BY <1>1, <1>6, NothingRemains
<1> QED BY <1>2, <1>4, <1>5, <1>7

(* What was handed over of a kind grows by the message sent, if it is of    *)
(* that kind.                                                               *)
Handed(s, k) == FlattenSeq([i \in 1 .. Len(s) |-> IF s[i].kind = k THEN <<s[i]>> ELSE <<>>])

LEMMA HandedMore ==
  ASSUME NEW s \in Seq(Msgs), NEW m \in Msgs, NEW k
  PROVE  /\ m.kind = k => Handed(Append(s, m), k) = Append(Handed(s, k), m)
         /\ m.kind # k => Handed(Append(s, m), k) = Handed(s, k)
<1> DEFINE V == Seq(Msgs)
           Piece(x) == IF x.kind = k THEN <<x>> ELSE <<>>
           all == Append(s, m)
           old == [i \in 1 .. Len(s) |-> Piece(s[i])]
           new == [i \in 1 .. Len(all) |-> Piece(all[i])]
<1>1. PICK n \in Nat : n = Len(s) /\ \A i \in 1 .. n : s[i] \in Msgs
  OBVIOUS
<1>2. Len(all) = n + 1 /\ all[n + 1] = m /\ \A i \in 1 .. n : all[i] = s[i]
  BY <1>1
<1>3. \A x \in Msgs : Piece(x) \in V
  OBVIOUS
<1>4. Handed(s, k) = FlattenSeq(old) /\ Handed(all, k) = FlattenSeq(new)
  BY DEF Handed
<1> HIDE DEF V, Piece, all
<1>5. old = [i \in 1 .. n |-> Piece(s[i])] /\ new = [i \in 1 .. n + 1 |-> Piece(all[i])]
  BY <1>1, <1>2
<1> HIDE DEF old, new
<1>6. ASSUME NEW i \in 1 .. n PROVE Piece(s[i]) \in V
  BY <1>1, <1>3
<1>7. ASSUME NEW i \in 1 .. n + 1 PROVE Piece(all[i]) \in V
  BY <1>1, <1>2, <1>3
<1>8. old \in Seq(V) /\ Len(old) = n /\ \A i \in 1 .. n : old[i] = Piece(s[i])
  <2>1. old \in [1 .. n -> V]
    BY <1>5, <1>6
  <2> QED BY <1>5, <2>1, ListMade
<1>9. new \in Seq(V) /\ Len(new) = n + 1 /\ \A i \in 1 .. n + 1 : new[i] = Piece(all[i])
  <2>1. PICK q \in Nat : q = n + 1
    OBVIOUS
  <2>2. new \in [1 .. q -> V]
    BY <1>5, <1>7, <2>1
  <2>3. new \in Seq(V) /\ Len(new) = q
    BY <2>2, ListMade
  <2> QED BY <1>5, <2>1, <2>3
<1> DEFINE x == Piece(m)
           more == Append(old, x)
<1>10. x \in V
  BY <1>3
<1> HIDE DEF x
<1>11. /\ more \in Seq(V) /\ Len(more) = n + 1 /\ more[n + 1] = x
       /\ \A i \in 1 .. n : more[i] = old[i]
  BY <1>8, <1>10
<1> HIDE DEF more
<1>12. ASSUME NEW i \in 1 .. n + 1 PROVE new[i] = more[i]
  <2>1. CASE i \in 1 .. n
    BY <1>2, <1>8, <1>9, <1>11, <2>1
  <2>2. CASE i = n + 1
    BY <1>2, <1>9, <1>11, <2>2 DEF x
  <2> QED BY <2>1, <2>2
<1>13. new = more
  BY <1>9, <1>11, <1>12, SeqEqual
<1>14. FlattenSeq(new) = FlattenSeq(old) \o x
  BY <1>8, <1>10, <1>13, FlattenAppend DEF V, more
<1>15. FlattenSeq(old) \in Seq(Msgs)
  BY <1>8, FlattenTyped DEF V
<1>16. CASE m.kind = k
  <2>1. x = <<m>>
    BY <1>16 DEF x, Piece
  <2>2. FlattenSeq(old) \o <<m>> = Append(FlattenSeq(old), m)
    BY <1>15
  <2> QED BY <1>4, <1>14, <1>16, <2>1, <2>2 DEF all
<1>17. CASE m.kind # k
  <2>1. x = <<>>
    BY <1>17 DEF x, Piece
  <2>2. FlattenSeq(old) \o <<>> = FlattenSeq(old)
    BY <1>15
  <2> QED BY <1>4, <1>14, <1>17, <2>1, <2>2 DEF all
<1> QED BY <1>16, <1>17

(* What a step may do to one stream; and what a flush leaves behind.        *)
Moves(k) ==
  \/ UNCHANGED <<Pending(k), Delivered(k)>>
  \/ /\ UNCHANGED Delivered(k)
     /\ Len(Pending(k)') > Len(Pending(k))
     /\ SubSeq(Pending(k)', 1, Len(Pending(k))) = Pending(k)
  \/ /\ Pending(k) # <<>>
     /\ Delivered(k)' = Append(Delivered(k), Head(Pending(k)))
     /\ Pending(k)' = Tail(Pending(k))

Flushing ==
  /\ pc \notin {"flush", "lastflush"} => outbox = <<>>
  /\ outbox = <<>> => part = 0

LEMMA BatchesTaken ==
  ASSUME TypeOK
  PROVE  /\ \A k \in Kinds : batch[k] \in Seq(Accepted(k)) /\ batch[k] \in Seq(Taken)
         /\ outbox \in Seq(Taken) /\ FlushOrder(batch) \in Seq(Taken)
<1>1. \A k \in Kinds : Accepted(k) \subseteq Taken
  BY DEF Taken
<1>2. ASSUME NEW k \in Kinds PROVE batch[k] \in Seq(Accepted(k)) /\ batch[k] \in Seq(Taken)
  <2>1. PICK b, A : b = batch[k] /\ A = Accepted(k) /\ b \in Seq(A) /\ A \subseteq Taken
    BY <1>1 DEF TypeOK
  <2>2. b \in Seq(Taken)
    BY <2>1
  <2> QED BY <2>1, <2>2
<1>3. outbox \in Seq(Taken) /\ FlushOrder(batch) \in Seq(Taken)
  BY SMTT(60), FlushOrderTyped DEF TypeOK, Taken
<1> QED BY <1>2, <1>3

LEMMA Grown ==
  ASSUME NEW V, NEW p \in Seq(V), NEW x \in Seq(V)
  PROVE  \/ p \o x = p
         \/ Len(p \o x) > Len(p) /\ SubSeq(p \o x, 1, Len(p)) = p
<1>1. CASE x = <<>>
  BY <1>1
<1>2. CASE x # <<>>
  <2>1. Len(x) \in Nat /\ Len(x) # 0 /\ Len(p) \in Nat
    BY <1>2
  <2>2. Len(p \o x) = Len(p) + Len(x)
    OBVIOUS
  <2>3. SubSeq(p \o x, 1, Len(p)) = p
    OBVIOUS
  <2>4. PICK a \in Nat, b \in Nat : a = Len(p) /\ b = Len(x) /\ b # 0
    BY <2>1
  <2>5. a + b > a
    BY <2>4
  <2>6. Len(p \o x) > Len(p)
    BY ONLY <2>2, <2>4, <2>5
  <2> QED BY ONLY <2>3, <2>6
<1> QED BY <1>1, <1>2

LEMMA DrainMoves ==
  ASSUME TypeOK, NEW s \in Sources, DrainOne(s), NEW k \in Kinds
  PROVE  Moves(k)
<1> DEFINE e == Head(ring[s])
           b == batch[k]
<1>1. e \in Events
  <2>1. ring[s] \in Seq(Events) /\ ring[s] # <<>>
    BY DEF DrainOne, TypeOK
  <2> QED BY <2>1, RingHead
<1>2. pc \notin {"flush", "lastflush"} /\ pc' \notin {"flush", "lastflush"}
  <2>1. pc = s /\ pc' \in {s, StageAfter(s)}
    BY DEF DrainOne
  <2> QED BY <2>1, StageTyped DEF Sources, Kinds
<1>3. UNCHANGED Delivered(k)
  BY DEF DrainOne, busVars, Delivered
<1>4. Pending(k) = Remaining(b, 0, k) /\ Pending(k)' = Remaining(batch'[k], 0, k)
  BY <1>2 DEF Pending
<1>5. b \in Seq(Taken)
  BY BatchesTaken
<1>6. batch' = Push(e)
  BY DEF DrainOne
<1> HIDE DEF e
<1>7. CASE Accepts(e) /\ e.shape.kind = k
  <2>1. e \in Taken
    BY <1>1, <1>7 DEF Accepts, Taken, Accepted
  <2>2. Push(e)[k] = Append(b, e)
    BY <1>7 DEF Push, TypeOK
  <2> HIDE DEF b
  <2>3. Pending(k)' = Remaining(b, 0, k) \o MessagesOf(e, 0, k)
    BY <1>4, <1>5, <1>6, <2>1, <2>2, RemainingAppend
  <2>4. 0 \in Nat
    OBVIOUS
  <2>5. Remaining(b, 0, k) \in Seq(Msgs) /\ MessagesOf(e, 0, k) \in Seq(Msgs)
    BY <1>5, <2>1, <2>4, PiecesTyped, MessagesOfTyped
  <2>6. \/ Pending(k)' = Pending(k)
        \/ /\ Len(Pending(k)') > Len(Pending(k))
           /\ SubSeq(Pending(k)', 1, Len(Pending(k))) = Pending(k)
    BY SMTT(60), <1>4, <2>3, <2>5, Grown
  <2> QED BY <1>3, <2>6 DEF Moves
<1>8. CASE ~(Accepts(e) /\ e.shape.kind = k)
  <2>1. Push(e)[k] = b
    BY <1>8 DEF Push, TypeOK, Accepts
  <2> QED BY <1>3, <1>4, <1>6, <2>1 DEF Moves
<1> QED BY <1>7, <1>8

(* A flush takes the batches one after the other: what it still has to send *)
(* of a kind is what the batch of that kind held.                           *)
LEMMA FlushOrderRemains ==
  ASSUME TypeOK, NEW k \in Kinds
  PROVE  Remaining(FlushOrder(batch), 0, k) = Remaining(batch[k], 0, k)
<1> DEFINE x == batch["exec"]
           f == batch["file"]
           n == batch["net"]
           R(q) == Remaining(q, 0, k)
<1>1. /\ x \in Seq(Taken) /\ f \in Seq(Taken) /\ n \in Seq(Taken)
      /\ x \in Seq(Accepted("exec")) /\ f \in Seq(Accepted("file")) /\ n \in Seq(Accepted("net"))
  BY BatchesTaken DEF Kinds
<1>2. "exec" \in Kinds /\ "file" \in Kinds /\ "net" \in Kinds
  BY DEF Kinds
<1>3. FlushOrder(batch) = (x \o f) \o n
  BY DEF FlushOrder
<1> HIDE DEF x, f, n, R
<1>4. x \o f \in Seq(Taken)
  BY <1>1
<1>5. R((x \o f) \o n) = R(x \o f) \o R(n)
  BY ZenonT(60), <1>1, <1>4, RemainingConcat DEF R
<1>6. R(x \o f) = R(x) \o R(f)
  BY <1>1, RemainingConcat DEF R
<1>7. 0 \in Nat
  OBVIOUS
<1>8. R(x) \in Seq(Msgs) /\ R(f) \in Seq(Msgs) /\ R(n) \in Seq(Msgs)
  BY <1>1, <1>7, PiecesTyped DEF R
<1>9. /\ k # "exec" => R(x) = <<>>
      /\ k # "file" => R(f) = <<>>
      /\ k # "net" => R(n) = <<>>
  BY <1>1, <1>2, RemainingOther DEF R
<1>10. R(FlushOrder(batch)) = R(x) \o R(f) \o R(n)
  BY <1>3, <1>5, <1>6
<1>11. CASE k = "exec"
  BY <1>8, <1>9, <1>10, <1>11 DEF R, x
<1>12. CASE k = "file"
  BY <1>8, <1>9, <1>10, <1>12 DEF R, f
<1>13. CASE k = "net"
  BY <1>8, <1>9, <1>10, <1>13 DEF R, n
<1> QED BY <1>11, <1>12, <1>13 DEF Kinds

LEMMA BeginMoves ==
  ASSUME TypeOK, Flushing, NEW stage \in {"flush", "lastflush"}, NEW idle \in {"select", "done"},
         pc \notin {"flush", "lastflush"}, BeginFlush(stage, idle), NEW k \in Kinds
  PROVE  Moves(k) /\ Flushing'
<1>1. outbox = <<>> /\ part = 0 /\ UNCHANGED <<batch, part, sent>>
  BY DEF Flushing, BeginFlush, busVars
<1>2. UNCHANGED Delivered(k)
  BY <1>1 DEF Delivered
<1>3. Pending(k) = Remaining(batch[k], 0, k)
  BY DEF Pending
<1>4. CASE FlushOrder(batch) = <<>>
  <2>1. pc' = idle /\ UNCHANGED outbox
    BY <1>4 DEF BeginFlush
  <2>2. Pending(k)' = Remaining(batch[k], 0, k)
    BY <1>1, <2>1 DEF Pending
  <2> QED BY <1>1, <1>2, <1>3, <2>1, <2>2 DEF Moves, Flushing
<1>5. CASE FlushOrder(batch) # <<>>
  <2>1. pc' = stage /\ outbox' = FlushOrder(batch)
    BY <1>5 DEF BeginFlush
  <2>2. Pending(k)' = Remaining(outbox', part', k)
    BY <2>1 DEF Pending
  <2>3. Pending(k)' = Pending(k)
    BY <1>1, <1>3, <2>1, <2>2, FlushOrderRemains
  <2>4. Flushing'
    BY <1>1, <2>1 DEF Flushing
  <2> QED BY <1>2, <2>3, <2>4 DEF Moves
<1> QED BY <1>4, <1>5

LEMMA SendMoves ==
  ASSUME TypeOK, FlushSend, NEW k \in Kinds
  PROVE  Moves(k) /\ Flushing'
<1> DEFINE e == Head(outbox)
           m == Message(e, part + 1)
           rest == Remaining(Tail(outbox), 0, k)
<1>1. /\ outbox \in Seq(Taken) /\ outbox # <<>> /\ part \in Nat /\ part < Len(Messages(e))
      /\ pc \in {"flush", "lastflush"} /\ UNCHANGED <<pc, outbox>>
      /\ part' = part + 1 /\ sent' = Append(sent, m) /\ sent \in Seq(Msgs)
  BY BatchesTaken DEF FlushSend, TypeOK
<1>2. e \in Taken /\ Tail(outbox) \in Seq(Taken)
  BY <1>1, RingHead
<1>3. m \in Msgs
  <2>1. PICK kind \in Kinds : e \in Accepted(kind)
    BY <1>2 DEF Taken
  <2> HIDE DEF e
  <2> QED BY <1>1, <2>1, MessageTyped
<1>4. Delivered(k) = Handed(sent, k) /\ Delivered(k)' = Handed(sent', k)
  BY DEF Delivered, Handed
<1>5. /\ Pending(k) = Remaining(outbox, part, k)
      /\ Pending(k)' = Remaining(outbox, part', k)
  BY <1>1 DEF Pending
<1>6. PICK r \in Nat : r = part'
  BY <1>1
<1>7. /\ Remaining(outbox, part, k) = MessagesOf(e, part, k) \o rest
      /\ Remaining(outbox, r, k) = MessagesOf(e, r, k) \o rest
  BY <1>1, RemainingHead
<1>8. 0 \in Nat
  OBVIOUS
<1>9. rest \in Seq(Msgs) /\ MessagesOf(e, r, k) \in Seq(Msgs)
  BY <1>2, <1>8, PiecesTyped, MessagesOfTyped
<1>10. m.kind = e.shape.kind
  BY DEF Message
<1>11. Flushing'
  BY SMTT(60), <1>1 DEF Flushing
<1> HIDE DEF e, rest
<1>12. CASE e.shape.kind = k
  <2>1. MessagesOf(e, part, k) = <<m>> \o MessagesOf(e, r, k)
    BY <1>1, <1>2, <1>6, <1>12, MessagesLeft
  <2>2. Delivered(k)' = Append(Delivered(k), m)
    <3>1. m.kind = k /\ m \in Msgs /\ sent \in Seq(Msgs)
      BY <1>1, <1>3, <1>10, <1>12
    <3>2. sent' = Append(sent, m)
      BY <1>1
    <3> HIDE DEF m
    <3>3. Handed(Append(sent, m), k) = Append(Handed(sent, k), m)
      BY <3>1, HandedMore
    <3> QED BY <1>4, <3>2, <3>3
  <2> HIDE DEF m
  <2> DEFINE later == MessagesOf(e, r, k)
             now == MessagesOf(e, part, k)
  <2>3. PICK p : p = later \o rest /\ p \in Seq(Msgs)
    <3> HIDE DEF later
    <3>1. later \o rest \in Seq(Msgs)
      BY <1>9, ConcatProperties DEF later
    <3> QED BY ONLY <3>1
  <2>4. later \in Seq(Msgs) /\ now = <<m>> \o later
    BY <1>9, <2>1
  <2> HIDE DEF later, now
  <2>5. now \o rest = <<m>> \o p
    BY <1>3, <1>9, <2>3, <2>4
  <2>6. <<m>> \o p # <<>> /\ Head(<<m>> \o p) = m /\ Tail(<<m>> \o p) = p
    BY <1>3, <2>3
  <2>7. Pending(k) = <<m>> \o p /\ Pending(k)' = p
    BY <1>5, <1>6, <1>7, <2>3, <2>5 DEF later, now
  <2> QED BY <1>11, <2>2, <2>6, <2>7 DEF Moves
<1>13. CASE e.shape.kind # k
  <2>1. MessagesOf(e, part, k) = <<>> /\ MessagesOf(e, r, k) = <<>>
    BY <1>13 DEF MessagesOf
  <2>2. UNCHANGED Pending(k)
    BY <1>5, <1>6, <1>7, <2>1
  <2>3. UNCHANGED Delivered(k)
    BY <1>1, <1>3, <1>4, <1>10, <1>13, HandedMore
  <2> QED BY <1>11, <2>2, <2>3 DEF Moves
<1> QED BY <1>12, <1>13

LEMMA FlushNextMoves ==
  ASSUME TypeOK, FlushNext, NEW k \in Kinds
  PROVE  Moves(k) /\ Flushing'
<1> DEFINE e == Head(outbox)
           rest == Tail(outbox)
<1>1. /\ outbox \in Seq(Taken) /\ outbox # <<>> /\ part \in Nat /\ part = Len(Messages(e))
      /\ pc \in {"flush", "lastflush"} /\ UNCHANGED <<pc, sent>>
      /\ part' = 0 /\ outbox' = rest
  BY BatchesTaken DEF FlushNext, TypeOK, busVars
<1>2. e \in Taken /\ rest \in Seq(Taken)
  BY <1>1, RingHead
<1>3. UNCHANGED Delivered(k)
  BY <1>1 DEF Delivered
<1>4. Pending(k) = Remaining(outbox, part, k) /\ Pending(k)' = Remaining(rest, 0, k)
  BY <1>1 DEF Pending
<1>5. Remaining(outbox, part, k) = MessagesOf(e, part, k) \o Remaining(rest, 0, k)
  BY <1>1, RemainingHead
<1> HIDE DEF e, rest
<1>6. MessagesOf(e, part, k) = <<>>
  BY <1>1, <1>2, NoMessageLeft
<1>7. 0 \in Nat
  OBVIOUS
<1>8. Remaining(rest, 0, k) \in Seq(Msgs)
  BY <1>2, <1>7, PiecesTyped
<1>9. UNCHANGED Pending(k)
  BY <1>4, <1>5, <1>6, <1>8
<1>10. Flushing'
  BY <1>1 DEF Flushing
<1> QED BY <1>3, <1>9, <1>10 DEF Moves

LEMMA FlushDoneMoves ==
  ASSUME TypeOK, Flushing, FlushDone, NEW k \in Kinds
  PROVE  Moves(k) /\ Flushing'
<1>1. /\ outbox = <<>> /\ part = 0 /\ UNCHANGED <<outbox, part, sent>>
      /\ pc \in {"flush", "lastflush"} /\ pc' \notin {"flush", "lastflush"}
      /\ batch'[k] = <<>>
  BY DEF FlushDone, Flushing, busVars, NoBatches
<1>2. UNCHANGED Delivered(k)
  BY <1>1 DEF Delivered
<1>3. Pending(k) = Remaining(<<>>, 0, k) /\ Pending(k)' = Remaining(<<>>, 0, k)
  BY <1>1 DEF Pending
<1>4. Flushing'
  BY <1>1 DEF Flushing
<1> QED BY <1>2, <1>3, <1>4 DEF Moves

(* The steps that leave the batches, the outbox and the bus alone.          *)
LEMMA OtherMoves ==
  ASSUME UNCHANGED <<batch, outbox, part, sent>>,
         \/ UNCHANGED pc
         \/ pc \notin {"flush", "lastflush"} /\ pc' \notin {"flush", "lastflush"},
         NEW k \in Kinds
  PROVE  Moves(k) /\ (Flushing => Flushing')
<1>1. UNCHANGED Delivered(k)
  BY DEF Delivered
<1>2. UNCHANGED Pending(k)
  BY DEF Pending
<1>3. Flushing => Flushing'
  BY DEF Flushing
<1> QED BY <1>1, <1>2, <1>3 DEF Moves

LEMMA NextMoves ==
  ASSUME TypeOK, Flushing, [Next]_vars, NEW k \in Kinds
  PROVE  Moves(k) /\ Flushing'
<1> USE DEF kernelVars, batchVars, busVars, analysisVars
<1>1. ASSUME NEW shape \in Shapes, NEW w \in Workloads, KernelEmit(shape, w)
      PROVE  Moves(k) /\ Flushing'
  BY <1>1, OtherMoves DEF KernelEmit
<1>2. CASE Tick
  <2>1. pc \notin {"flush", "lastflush"} /\ pc' \notin {"flush", "lastflush"}
    BY <1>2 DEF Tick, FirstStage
  <2> QED BY <1>2, <2>1, OtherMoves DEF Tick
<1>3. ASSUME NEW s \in Sources, DrainOne(s) PROVE Moves(k) /\ Flushing'
  <2>1. pc \notin {"flush", "lastflush"} /\ pc' \notin {"flush", "lastflush"}
    <3>1. pc = s /\ pc' \in {s, StageAfter(s)}
      BY <1>3 DEF DrainOne
    <3> QED BY <3>1, StageTyped DEF Sources, Kinds
  <2>2. UNCHANGED <<outbox, part>>
    BY <1>3 DEF DrainOne
  <2>3. Flushing'
    BY <2>1, <2>2 DEF Flushing
  <2> QED BY <1>3, <2>3, DrainMoves
<1>4. ASSUME NEW s \in Sources, DrainEnd(s) PROVE Moves(k) /\ Flushing'
  <2>1. pc \notin {"flush", "lastflush"} /\ pc' \notin {"flush", "lastflush"}
    <3>1. pc = s /\ pc' = StageAfter(s)
      BY <1>4 DEF DrainEnd
    <3> QED BY <3>1, StageTyped DEF Sources, Kinds
  <2> QED BY <1>4, <2>1, OtherMoves DEF DrainEnd
<1>5. CASE CheckFlush
  <2>1. BeginFlush("flush", "select") /\ pc \notin {"flush", "lastflush"}
    BY <1>5 DEF CheckFlush
  <2>2. "flush" \in {"flush", "lastflush"} /\ "select" \in {"select", "done"}
    OBVIOUS
  <2> QED BY <2>1, <2>2, BeginMoves
<1>6. CASE CheckSkip
  <2>1. pc \notin {"flush", "lastflush"} /\ pc' \notin {"flush", "lastflush"}
    BY <1>6 DEF CheckSkip
  <2> QED BY <1>6, <2>1, OtherMoves DEF CheckSkip
<1>7. CASE BatchTimeout
  BY <1>7, OtherMoves DEF BatchTimeout
<1>8. CASE ConsumerStop
  <2>1. BeginFlush("lastflush", "done") /\ pc \notin {"flush", "lastflush"}
    BY <1>8 DEF ConsumerStop
  <2>2. "lastflush" \in {"flush", "lastflush"} /\ "done" \in {"select", "done"}
    OBVIOUS
  <2> QED BY <2>1, <2>2, BeginMoves
<1>9. CASE FlushSend
  BY <1>9, SendMoves
<1>10. CASE FlushNext
  BY <1>10, FlushNextMoves
<1>11. CASE FlushDone
  BY <1>11, FlushDoneMoves
<1>12. CASE EngineReceive \/ EngineEnds
  BY <1>12, OtherMoves DEF EngineReceive, EngineEnds
<1>13. CASE TakeSnapshot \/ ClearStore
  BY <1>13, OtherMoves DEF TakeSnapshot, ClearStore
<1>14. ASSUME NEW w \in Workloads, ScanWorkload(w) \/ SkipWorkload(w)
       PROVE  Moves(k) /\ Flushing'
  BY <1>14, OtherMoves DEF ScanWorkload, SkipWorkload
<1>15. CASE RequestStop
  BY <1>15, OtherMoves DEF RequestStop
<1>16. CASE UNCHANGED vars
  BY <1>16, OtherMoves DEF vars
<1> QED
  BY <1>1, <1>2, <1>3, <1>4, <1>5, <1>6, <1>7, <1>8, <1>9, <1>10, <1>11, <1>12,
     <1>13, <1>14, <1>15, <1>16 DEF Next, Consumer, Analysis

LEMMA InitDelivery ==
  ASSUME Init, NEW k \in Kinds
  PROVE  Pending(k) = <<>> /\ Delivered(k) = <<>> /\ Flushing
<1>1. pc = "select" /\ batch[k] = <<>> /\ sent = <<>> /\ outbox = <<>> /\ part = 0
  BY DEF Init, NoBatches
<1>2. Pending(k) = <<>>
  BY <1>1, NothingRemains DEF Pending
<1>3. Delivered(k) = FlattenSeq(<<>>)
  BY <1>1 DEF Delivered
<1> QED BY <1>1, <1>2, <1>3, FlattenNothing DEF Flushing

LEMMA StreamsMove ==
  ASSUME TypeOK, Flushing, [Next]_vars
  PROVE  /\ [ExecDelivery!Next]_<<Pending("exec"), Delivered("exec")>>
         /\ [FileDelivery!Next]_<<Pending("file"), Delivered("file")>>
         /\ [NetDelivery!Next]_<<Pending("net"), Delivered("net")>>
<1>1. Moves("exec") /\ Moves("file") /\ Moves("net")
  BY NextMoves DEF Kinds
<1>2. [ExecDelivery!Next]_<<Pending("exec"), Delivered("exec")>>
  BY <1>1 DEF Moves, ExecDelivery!Next, ExecDelivery!Accept, ExecDelivery!Deliver
<1>3. [FileDelivery!Next]_<<Pending("file"), Delivered("file")>>
  BY <1>1 DEF Moves, FileDelivery!Next, FileDelivery!Accept, FileDelivery!Deliver
<1>4. [NetDelivery!Next]_<<Pending("net"), Delivered("net")>>
  BY <1>1 DEF Moves, NetDelivery!Next, NetDelivery!Accept, NetDelivery!Deliver
<1> QED BY <1>2, <1>3, <1>4

(* The consumer implements, for each kind of event, the safety part of      *)
(* ordered delivery: whatever the ticks, timeouts, full batches, flushes    *)
(* and the end of the engine do, the messages of accepted events are handed *)
(* to the bus in the order of acceptance, none twice and none left out      *)
(* between two others. (That each is handed over in the end is for TLC.)    *)
THEOREM DeliveryInOrder ==
  Spec => ExecDelivery!Safety /\ FileDelivery!Safety /\ NetDelivery!Safety
<1>1. Init => Flushing /\ ExecDelivery!Init /\ FileDelivery!Init /\ NetDelivery!Init
  BY InitDelivery DEF Kinds, ExecDelivery!Init, FileDelivery!Init, NetDelivery!Init
<1>2. TypeOK /\ Flushing /\ [Next]_vars
        => /\ Flushing'
           /\ [ExecDelivery!Next]_(ExecDelivery!vars)
           /\ [FileDelivery!Next]_(FileDelivery!vars)
           /\ [NetDelivery!Next]_(NetDelivery!vars)
  BY NextMoves, StreamsMove
     DEF Kinds, ExecDelivery!vars, FileDelivery!vars, NetDelivery!vars
<1> QED
  BY <1>1, <1>2, PipelineTyped, PTL
     DEF Spec, ExecDelivery!Safety, FileDelivery!Safety, NetDelivery!Safety
==============================================================================
