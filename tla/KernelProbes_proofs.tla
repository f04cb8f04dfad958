------------------------- MODULE KernelProbes_proofs -------------------------
(***************************************************************************)
(* For any number of CPUs and threads and any sizes of the maps: the       *)
(* counters of the kernel programs are wrong only for a kind that two CPUs *)
(* have counted at once, and never say too much; and the execve limiter    *)
(* keeps back what it should and nothing else.                             *)
(***************************************************************************)
EXTENDS KernelProbes, FiniteSetTheorems, TLAPS

ProgramState ==
  [pc : {"idle", "reserve", "count", "drop", "account"},
   thread : Threads \cup {"none"}, kind : Kinds \cup {"none"}, bytes : Nat,
   way : {"none", "sent", "received", "alarm"}, read : Nat]

Typed ==
  /\ cpu \in [Cpus -> ProgramState]
  /\ \A c \in Cpus : cpu[c].pc # "idle" => cpu[c].kind \in Kinds
  /\ counted \in [Kinds -> Nat]
  /\ droppedBy \in [Kinds -> Nat]
  /\ outcomes \in [submitted : [Kinds -> Nat], overrun : [Kinds -> Nat]]

-----------------------------------------------------------------------------
(* A counter n that the programs of S have read and will write back, when    *)
(* truth is what it should say in the end. What a program has read leaves    *)
(* room for all that wait, itself included. While the counter is not among  *)
(* those raced, at most one waits and has read what the counter says.        *)
Tally(S, read, n, truth, which, races) ==
  /\ n + Cardinality(S) <= truth
  /\ \A c \in S : read[c] + Cardinality(S) <= truth
  /\ which \notin races => /\ n + Cardinality(S) = truth
                           /\ \A c, d \in S : c = d
                           /\ \A c \in S : read[c] = n

(* One more program reads the counter.                                       *)
LEMMA TallyRead ==
  ASSUME NEW S, IsFiniteSet(S), NEW read, \A d \in S : read[d] \in Nat,
         NEW n \in Nat, NEW truth \in Nat,
         NEW which, NEW races, Tally(S, read, n, truth, which, races),
         NEW c, c \notin S, NEW reads, reads[c] = n, \A d \in S : reads[d] = read[d],
         NEW after, which \notin after => which \notin races /\ S = {}
  PROVE  Tally(S \cup {c}, reads, n, truth + 1, which, after)
<1>1. Cardinality(S) \in Nat /\ Cardinality(S \cup {c}) = Cardinality(S) + 1
  BY FS_CardinalityType, FS_AddElement
<1>2. n + (Cardinality(S) + 1) <= truth + 1
  BY <1>1 DEF Tally
<1>3. ASSUME NEW d \in S \cup {c} PROVE reads[d] + (Cardinality(S) + 1) <= truth + 1
  <2>1. CASE d = c
    BY <1>2, <2>1
  <2>2. CASE d # c
    <3>1. reads[d] = read[d] /\ read[d] \in Nat /\ read[d] + Cardinality(S) <= truth
      BY <2>2 DEF Tally
    <3> QED BY <1>1, <3>1
  <2> QED BY <2>1, <2>2
<1>4. ASSUME which \notin after
      PROVE  /\ n + (Cardinality(S) + 1) = truth + 1
             /\ \A d, e \in S \cup {c} : d = e
             /\ \A d \in S \cup {c} : reads[d] = n
  <2>1. which \notin races /\ S = {}
    BY <1>4, Zenon
  <2>2. n + Cardinality(S) = truth
    BY <2>1, Zenon DEF Tally
  <2>3. n + (Cardinality(S) + 1) = truth + 1
    BY <1>1, <2>2
  <2>4. S = {}
    BY <2>1, Zenon
  <2> QED BY <2>3, <2>4
<1> QED BY <1>1, <1>2, <1>3, <1>4, Zenon DEF Tally

(* A program writes back what it has read, and one more.                     *)
LEMMA TallyWrite ==
  ASSUME NEW S, IsFiniteSet(S), NEW read, \A d \in S : read[d] \in Nat,
         NEW n \in Nat, NEW truth \in Nat,
         NEW which, NEW races, Tally(S, read, n, truth, which, races),
         NEW c \in S, NEW reads, \A d \in S \ {c} : reads[d] = read[d]
  PROVE  Tally(S \ {c}, reads, read[c] + 1, truth, which, races)
<1>1. Cardinality(S) \in Nat /\ Cardinality(S \ {c}) = Cardinality(S) - 1
  BY FS_CardinalityType, FS_RemoveElement
<1>2. (read[c] + 1) + (Cardinality(S) - 1) <= truth
  <2>1. read[c] \in Nat /\ read[c] + Cardinality(S) <= truth
    BY DEF Tally
  <2> QED BY <1>1, <2>1
<1>3. ASSUME NEW d \in S \ {c} PROVE reads[d] + (Cardinality(S) - 1) <= truth
  <2>1. reads[d] = read[d] /\ read[d] \in Nat /\ read[d] + Cardinality(S) <= truth
    BY DEF Tally
  <2> QED BY <1>1, <2>1
<1>4. ASSUME which \notin races
      PROVE  /\ (read[c] + 1) + (Cardinality(S) - 1) = truth
             /\ \A d, e \in S \ {c} : d = e
             /\ \A d \in S \ {c} : reads[d] = read[c] + 1
  <2>1. /\ n + Cardinality(S) = truth
        /\ \A d, e \in S : d = e
        /\ \A d \in S : read[d] = n
    BY <1>4, Zenon DEF Tally
  <2>2. (read[c] + 1) + (Cardinality(S) - 1) = truth
    BY <1>1, <2>1
  <2>3. S \ {c} = {}
    BY <2>1
  <2> QED BY <2>2, <2>3
<1> QED BY <1>1, <1>2, <1>3, <1>4, Zenon DEF Tally

LEMMA TallySame ==
  ASSUME NEW S, NEW read, NEW n, NEW truth, NEW which, NEW races, Tally(S, read, n, truth, which, races),
         NEW reads, \A d \in S : reads[d] = read[d]
  PROVE  Tally(S, reads, n, truth, which, races)
  BY Zenon DEF Tally
-----------------------------------------------------------------------------
Waiting(pc, k) == {c \in Cpus : cpu[c].pc = pc /\ cpu[c].kind = k}

Reads == [c \in Cpus |-> cpu[c].read]

Tallied ==
  \A k \in Kinds :
    /\ Tally(Waiting("count", k), Reads, counted[k], outcomes.submitted[k],
             Counter(FALSE, k), raced)
    /\ Tally(Waiting("drop", k), Reads, droppedBy[k], outcomes.overrun[k],
             Counter(TRUE, k), raced)

CountersInv == Typed /\ Tallied

LEMMA WaitingFinite ==
  ASSUME Typed, NEW pc, NEW k
  PROVE  /\ IsFiniteSet(Waiting(pc, k))
         /\ \A c \in Waiting(pc, k) : Reads[c] \in Nat
<1>1. Waiting(pc, k) \in SUBSET Cpus
  BY DEF Waiting
<1>2. IsFiniteSet(Waiting(pc, k))
  BY <1>1, ProbesAssumption, FS_Subset
<1>3. \A c \in Cpus : Reads[c] \in Nat
  BY DEF Typed, ProgramState, Reads
<1> QED BY <1>1, <1>2, <1>3

LEMMA CountersTrue == CountersInv => CountersTrueUnlessRaced
<1> SUFFICES ASSUME Typed, Tallied, NEW k \in Kinds
             PROVE  /\ Tallies(counted[k], Cardinality(Waiting("count", k)),
                               outcomes.submitted[k], Counter(FALSE, k) \notin raced)
                    /\ Tallies(droppedBy[k], Cardinality(Waiting("drop", k)),
                               outcomes.overrun[k], Counter(TRUE, k) \notin raced)
  BY DEF CountersInv, CountersTrueUnlessRaced, Counting, Waiting
<1> QED BY Zenon DEF Tallied, Tally, Tallies

LEMMA InitCounters == Init => CountersInv
<1> SUFFICES ASSUME Init PROVE CountersInv
  OBVIOUS
<1>1. \A c \in Cpus : cpu[c] = Idle /\ cpu[c].pc = "idle"
  BY DEF Init, Idle
<1>2. Typed
  <2>1. Idle \in ProgramState
    BY DEF Idle, ProgramState
  <2> QED BY <1>1, <2>1 DEF Init, Zeros, Typed
<1>3. \A pc \in {"count", "drop"}, k \in Kinds : Waiting(pc, k) = {}
  BY <1>1 DEF Waiting
<1>4. Tallied
  <2> SUFFICES ASSUME NEW k \in Kinds, NEW which
               PROVE  Tally({}, Reads, 0, 0, which, {})
    BY <1>3 DEF Tallied, Init, Zeros
  <2> QED BY FS_EmptySet DEF Tally
<1> QED BY <1>2, <1>4 DEF CountersInv

(* A step of one CPU.                                                        *)
LEMMA RunTyped ==
  ASSUME Typed, NEW c \in Cpus, NEW new \in ProgramState, new.pc # "idle" => new.kind \in Kinds,
         cpu' = [cpu EXCEPT ![c] = new]
  PROVE  /\ cpu' \in [Cpus -> ProgramState]
         /\ cpu'[c] = new /\ \A d \in Cpus : d # c => cpu'[d] = cpu[d]
         /\ \A d \in Cpus : cpu'[d].pc # "idle" => cpu'[d].kind \in Kinds
         /\ \A d \in Cpus : d # c => Reads'[d] = Reads[d]
         /\ Reads'[c] = new.read
  BY DEF Typed, Reads

(* A CPU that counts nothing before nor after.                               *)
LEMMA QuietRun ==
  ASSUME CountersInv, NEW c \in Cpus, NEW new \in ProgramState,
         new.pc # "idle" => new.kind \in Kinds,
         cpu' = [cpu EXCEPT ![c] = new],
         new.pc \notin {"count", "drop"}, cpu[c].pc \notin {"count", "drop"},
         UNCHANGED <<counted, droppedBy, outcomes, raced>>
  PROVE  CountersInv'
<1>1. /\ cpu' \in [Cpus -> ProgramState]
      /\ cpu'[c] = new /\ \A d \in Cpus : d # c => cpu'[d] = cpu[d]
      /\ \A d \in Cpus : cpu'[d].pc # "idle" => cpu'[d].kind \in Kinds
      /\ \A d \in Cpus : d # c => Reads'[d] = Reads[d]
  BY RunTyped DEF CountersInv
<1>2. Typed'
  BY <1>1 DEF CountersInv, Typed
<1>3. ASSUME NEW pc \in {"count", "drop"}, NEW k
      PROVE  /\ Waiting(pc, k)' = Waiting(pc, k)
             /\ \A d \in Waiting(pc, k) : Reads'[d] = Reads[d]
  BY <1>1 DEF Waiting
<1>4. Tallied'
  <2> SUFFICES ASSUME NEW k \in Kinds
               PROVE  /\ Tally(Waiting("count", k)', Reads', counted[k], outcomes.submitted[k],
                               Counter(FALSE, k), raced)
                      /\ Tally(Waiting("drop", k)', Reads', droppedBy[k], outcomes.overrun[k],
                               Counter(TRUE, k), raced)
    BY DEF Tallied
  <2>1. Tally(Waiting("count", k)', Reads', counted[k], outcomes.submitted[k],
              Counter(FALSE, k), raced)
    BY <1>3, TallySame DEF CountersInv, Tallied
  <2>2. Tally(Waiting("drop", k)', Reads', droppedBy[k], outcomes.overrun[k],
              Counter(TRUE, k), raced)
    BY <1>3, TallySame DEF CountersInv, Tallied
  <2> QED BY <2>1, <2>2
<1> QED BY <1>2, <1>4 DEF CountersInv

LEMMA NoRun ==
  ASSUME CountersInv, UNCHANGED <<cpu, counted, droppedBy, outcomes, raced>>
  PROVE  CountersInv'
<1>1. Typed'
  BY DEF CountersInv, Typed
<1>2. Tallied'
  BY DEF CountersInv, Tallied, Waiting, Reads
<1> QED BY <1>1, <1>2 DEF CountersInv

LEMMA EmittingTyped ==
  ASSUME NEW t \in Threads, NEW k \in Kinds, NEW b \in Nat,
         NEW w \in {"none", "sent", "received", "alarm"}
  PROVE  /\ Emitting(t, k, b, w) \in ProgramState
         /\ Emitting(t, k, b, w).pc = "reserve" /\ Emitting(t, k, b, w).kind = k
         /\ Idle \in ProgramState /\ Idle.pc = "idle"
  BY DEF Emitting, Idle, ProgramState

LEMMA IdleTyped == Idle \in ProgramState /\ Idle.pc = "idle"
  BY DEF Idle, ProgramState

LEMMA OneTransfer ==
  ASSUME NEW c, NEW t, Transfer(c, t)
  PROVE  \E b \in Nat, way \in {"sent", "received"}, done \in Nat :
           /\ TraceTransfer(c, t, b, way, done)
           /\ done <= IF way = "sent" THEN b ELSE 0
<1>1. \A b \in Uploads : b \in Nat /\ \A done \in Sent(b) : done \in Nat /\ done <= b
  BY ProbesAssumption DEF Sent
<1>2. Downloads \subseteq Nat
  BY ProbesAssumption
<1> QED BY <1>1, <1>2 DEF Transfer

(* The programs before they emit.                                            *)
LEMMA HitCounters ==
  ASSUME CountersInv, NEW c \in Cpus, NEW t \in Threads,
         \/ TraceExecve(c, t) \/ TraceTcpV4Connect(c, t) \/ Uprobe(c, t) \/ Transfer(c, t)
         \/ \E k \in TracedKinds : Tracepoint(c, t, k)
         \/ \E a \in Addrs : TraceDoMmap(c, t, a)
  PROVE  CountersInv'
<1>1. ASSUME NEW k \in Kinds, NEW b \in Nat, NEW w \in {"none", "sent", "received"},
             cpu[c] = Idle, Run(c, Emitting(t, k, b, w)), UNCHANGED emitVars
      PROVE  CountersInv'
  <2>1. /\ Emitting(t, k, b, w) \in ProgramState
        /\ Emitting(t, k, b, w).pc = "reserve" /\ Emitting(t, k, b, w).kind = k
    BY EmittingTyped
  <2>2. cpu[c].pc = "idle"
    BY <1>1, IdleTyped
  <2> QED BY <1>1, <2>1, <2>2, QuietRun DEF Run, emitVars
<1>2. CASE TraceExecve(c, t)
  <2>1. CASE Limited(t)
    BY <1>2, <2>1, NoRun DEF TraceExecve, emitVars
  <2>2. CASE ~Limited(t)
    BY <1>1, <1>2, <2>2 DEF TraceExecve, Hit, Kinds
  <2> QED BY <2>1, <2>2
<1>3. CASE TraceTcpV4Connect(c, t)
  BY <1>1, <1>3 DEF TraceTcpV4Connect, Hit, Kinds
<1>4. CASE Uprobe(c, t)
  BY <1>4, NoRun DEF Uprobe
<1>5. CASE \E k \in TracedKinds : Tracepoint(c, t, k)
  BY <1>1, <1>5, ProbesAssumption DEF Tracepoint, Hit
<1>6. CASE Transfer(c, t)
  <2>1. PICK b \in Nat, way \in {"sent", "received"}, done \in Nat : TraceTransfer(c, t, b, way, done)
    BY <1>6, OneTransfer
  <2> QED BY <1>1, <2>1 DEF TraceTransfer, Hit, Kinds
<1>7. CASE \E a \in Addrs : TraceDoMmap(c, t, a)
  BY <1>7, NoRun DEF TraceDoMmap, emitVars
<1> QED BY <1>2, <1>3, <1>4, <1>5, <1>6, <1>7

LEMMA AccountCounters ==
  ASSUME CountersInv, NEW c \in Cpus, Account(c) PROVE CountersInv'
<1>1. cpu[c].pc = "account" /\ UNCHANGED <<counted, droppedBy, outcomes, raced>>
  BY DEF Account, emitVars
<1>2. cpu[c] \in ProgramState /\ cpu[c].kind \in Kinds
  BY <1>1 DEF CountersInv, Typed
<1>3. CASE cpu' = [cpu EXCEPT ![c] = Idle]
  BY <1>1, <1>3, IdleTyped, QuietRun
<1>4. CASE cpu' = [cpu EXCEPT ![c] = Emitting(cpu[c].thread, "Suspicious", 0, "alarm")]
  <2> DEFINE new == Emitting(cpu[c].thread, "Suspicious", 0, "alarm")
  <2>1. new \in ProgramState /\ new.pc = "reserve" /\ new.kind \in Kinds
    BY <1>2 DEF Emitting, Idle, ProgramState, Kinds
  <2> QED BY <1>1, <1>4, <2>1, QuietRun
<1>5. \/ cpu' = [cpu EXCEPT ![c] = Idle]
      \/ cpu' = [cpu EXCEPT ![c] = Emitting(cpu[c].thread, "Suspicious", 0, "alarm")]
  BY DEF Account, Run
<1> QED BY <1>3, <1>4, <1>5

LEMMA AfterEmitTyped ==
  ASSUME NEW p \in ProgramState, p.kind \in Kinds
  PROVE  /\ AfterEmit(p) \in ProgramState
         /\ AfterEmit(p).pc \in {"idle", "account"}
         /\ AfterEmit(p).pc # "idle" => AfterEmit(p).kind \in Kinds
  BY DEF AfterEmit, Idle, ProgramState

(* A program has reserved its entry, or has not, and read the counter.       *)
LEMMA ReserveCounters ==
  ASSUME CountersInv, NEW c \in Cpus, Reserve(c) PROVE CountersInv'
<1>1. cpu[c].pc = "reserve" /\ cpu[c] \in ProgramState /\ cpu[c].kind \in Kinds
  BY DEF Reserve, CountersInv, Typed
<1>2. PICK k \in Kinds : k = cpu[c].kind
  BY <1>1
<1>3. PICK pc \in {"count", "drop"} : pc = IF Len(ring) >= RingSize THEN "drop" ELSE "count"
  OBVIOUS
<1>4. PICK read \in Nat : read = IF pc = "drop" THEN droppedBy[k] ELSE counted[k]
  BY DEF CountersInv, Typed
<1>5. PICK new : new = [cpu[c] EXCEPT !.pc = pc, !.read = read]
  OBVIOUS
<1>6. /\ cpu' = [cpu EXCEPT ![c] = new]
      /\ outcomes' = IF pc = "drop" THEN [outcomes EXCEPT !.overrun[k] = @ + 1]
                                    ELSE [outcomes EXCEPT !.submitted[k] = @ + 1]
      /\ counted' = counted /\ droppedBy' = droppedBy
  BY <1>2, <1>3, <1>4, <1>5 DEF Reserve
<1>7. raced' = raced \cup (IF \E d \in Cpus : Counter(pc = "drop", k) \in Held(d)
                           THEN {Counter(pc = "drop", k)} ELSE {})
  <2>1. CASE Len(ring) >= RingSize
    BY <1>2, <1>3, <2>1 DEF Reserve, Counter
  <2>2. CASE ~(Len(ring) >= RingSize)
    BY <1>2, <1>3, <2>2 DEF Reserve, Counter
  <2> QED BY <2>1, <2>2
<1>8. new \in ProgramState /\ new.pc = pc /\ new.kind = k /\ new.read = read
  BY <1>1, <1>2, <1>5 DEF ProgramState
<1>9. /\ cpu' \in [Cpus -> ProgramState]
      /\ cpu'[c] = new /\ \A d \in Cpus : d # c => cpu'[d] = cpu[d]
      /\ \A d \in Cpus : cpu'[d].pc # "idle" => cpu'[d].kind \in Kinds
      /\ \A d \in Cpus : d # c => Reads'[d] = Reads[d]
      /\ Reads'[c] = read
  BY <1>6, <1>8, RunTyped DEF CountersInv
<1>10. /\ pc = "drop" => /\ outcomes'.overrun = [outcomes.overrun EXCEPT ![k] = @ + 1]
                         /\ outcomes'.submitted = outcomes.submitted
       /\ pc = "count" => /\ outcomes'.submitted = [outcomes.submitted EXCEPT ![k] = @ + 1]
                          /\ outcomes'.overrun = outcomes.overrun
       /\ outcomes' \in [submitted : [Kinds -> Nat], overrun : [Kinds -> Nat]]
  <2>1. outcomes \in [submitted : [Kinds -> Nat], overrun : [Kinds -> Nat]]
    BY DEF CountersInv, Typed
  <2>2. CASE pc = "drop"
    BY <1>6, <2>1, <2>2
  <2>3. CASE pc = "count"
    BY <1>6, <2>1, <2>3
  <2> QED BY <2>2, <2>3
<1>11. Typed'
  BY <1>6, <1>9, <1>10 DEF CountersInv, Typed
<1>12. /\ Waiting(pc, k)' = Waiting(pc, k) \cup {c} /\ c \notin Waiting(pc, k)
       /\ \A p \in {"count", "drop"}, j \in Kinds :
            p # pc \/ j # k => Waiting(p, j)' = Waiting(p, j)
       /\ \A p \in {"count", "drop"}, j \in Kinds :
            \A d \in Waiting(p, j) : Reads'[d] = Reads[d]
  BY <1>1, <1>8, <1>9 DEF Waiting
<1>13. Counter(pc = "drop", k) \notin raced' =>
         Counter(pc = "drop", k) \notin raced /\ Waiting(pc, k) = {}
  <2> SUFFICES ASSUME Counter(pc = "drop", k) \notin raced', NEW d \in Waiting(pc, k)
               PROVE  FALSE
    BY <1>7
  <2>1. d \in Cpus /\ cpu[d].pc = pc /\ cpu[d].kind = k
    BY DEF Waiting
  <2>2. Counter(pc = "drop", k) \in Held(d)
    BY <2>1 DEF Held, Counter
  <2> QED BY <1>7, <2>1, <2>2
<1>14. \A b \in BOOLEAN, j \in Kinds :
         b # (pc = "drop") \/ j # k => (Counter(b, j) \in raced' <=> Counter(b, j) \in raced)
  <2> SUFFICES ASSUME NEW b \in BOOLEAN, NEW j \in Kinds, b # (pc = "drop") \/ j # k
               PROVE  Counter(b, j) # Counter(pc = "drop", k)
    BY <1>7
  <2> QED BY DEF Counter
<1>15. ASSUME NEW j \in Kinds
       PROVE  Tally(Waiting("count", j)', Reads', counted[j], outcomes'.submitted[j],
                    Counter(FALSE, j), raced')
  <2> DEFINE which == Counter(FALSE, j)
  <2>0. /\ Tally(Waiting("count", j), Reads, counted[j], outcomes.submitted[j], which, raced)
        /\ IsFiniteSet(Waiting("count", j)) /\ \A d \in Waiting("count", j) : Reads[d] \in Nat
        /\ counted[j] \in Nat /\ outcomes.submitted[j] \in Nat
    BY WaitingFinite DEF CountersInv, Tallied, Typed
  <2>1. CASE pc = "count" /\ j = k
    <3>1. outcomes'.submitted[j] = outcomes.submitted[j] + 1
      BY <1>10, <2>1 DEF CountersInv, Typed
    <3>2. read = counted[j] /\ Waiting("count", j)' = Waiting("count", j) \cup {c}
          /\ c \notin Waiting("count", j) /\ \A d \in Waiting("count", j) : Reads'[d] = Reads[d]
      BY <1>4, <1>12, <2>1
    <3>3. which \notin raced' => which \notin raced /\ Waiting("count", j) = {}
      BY <1>13, <2>1 DEF Counter
    <3> HIDE DEF which
    <3>4. Tally(Waiting("count", j) \cup {c}, Reads', counted[j], outcomes.submitted[j] + 1, which, raced')
      BY <1>9, <2>0, <3>2, <3>3, TallyRead
    <3> QED BY <3>1, <3>2, <3>4 DEF which
  <2>2. CASE ~(pc = "count" /\ j = k)
    <3>1. outcomes'.submitted[j] = outcomes.submitted[j]
      BY <1>10, <2>2 DEF CountersInv, Typed
    <3>2. which \notin raced' <=> which \notin raced
      BY <1>14, <2>2
    <3>3. Waiting("count", j)' = Waiting("count", j)
          /\ \A d \in Waiting("count", j) : Reads'[d] = Reads[d]
      BY <1>12, <2>2
    <3> HIDE DEF which
    <3>4. Tally(Waiting("count", j), Reads', counted[j], outcomes.submitted[j], which, raced)
      BY <2>0, <3>3, TallySame
    <3> QED BY <3>1, <3>2, <3>3, <3>4, Zenon DEF Tally, which
  <2> QED BY <2>1, <2>2
<1>16. ASSUME NEW j \in Kinds
       PROVE  Tally(Waiting("drop", j)', Reads', droppedBy[j], outcomes'.overrun[j],
                    Counter(TRUE, j), raced')
  <2> DEFINE which == Counter(TRUE, j)
  <2>0. /\ Tally(Waiting("drop", j), Reads, droppedBy[j], outcomes.overrun[j], which, raced)
        /\ IsFiniteSet(Waiting("drop", j)) /\ \A d \in Waiting("drop", j) : Reads[d] \in Nat
        /\ droppedBy[j] \in Nat /\ outcomes.overrun[j] \in Nat
    BY WaitingFinite DEF CountersInv, Tallied, Typed
  <2>1. CASE pc = "drop" /\ j = k
    <3>1. outcomes'.overrun[j] = outcomes.overrun[j] + 1
      BY <1>10, <2>1 DEF CountersInv, Typed
    <3>2. read = droppedBy[j] /\ Waiting("drop", j)' = Waiting("drop", j) \cup {c}
          /\ c \notin Waiting("drop", j) /\ \A d \in Waiting("drop", j) : Reads'[d] = Reads[d]
      BY <1>4, <1>12, <2>1
    <3>3. which \notin raced' => which \notin raced /\ Waiting("drop", j) = {}
      BY <1>13, <2>1 DEF Counter
    <3> HIDE DEF which
    <3>4. Tally(Waiting("drop", j) \cup {c}, Reads', droppedBy[j], outcomes.overrun[j] + 1, which, raced')
      BY <1>9, <2>0, <3>2, <3>3, TallyRead
    <3> QED BY <3>1, <3>2, <3>4 DEF which
  <2>2. CASE ~(pc = "drop" /\ j = k)
    <3>1. outcomes'.overrun[j] = outcomes.overrun[j]
      BY <1>10, <2>2 DEF CountersInv, Typed
    <3>2. which \notin raced' <=> which \notin raced
      BY <1>14, <2>2
    <3>3. Waiting("drop", j)' = Waiting("drop", j)
          /\ \A d \in Waiting("drop", j) : Reads'[d] = Reads[d]
      BY <1>12, <2>2
    <3> HIDE DEF which
    <3>4. Tally(Waiting("drop", j), Reads', droppedBy[j], outcomes.overrun[j], which, raced)
      BY <2>0, <3>3, TallySame
    <3> QED BY <3>1, <3>2, <3>3, <3>4, Zenon DEF Tally, which
  <2> QED BY <2>1, <2>2
<1>17. Tallied'
  BY <1>6, <1>15, <1>16 DEF Tallied
<1> QED BY <1>11, <1>17 DEF CountersInv

(* A program writes the counter back.                                        *)
LEMMA WriteCountCounters ==
  ASSUME CountersInv, NEW c \in Cpus, WriteCount(c) PROVE CountersInv'
<1>1. cpu[c].pc = "count" /\ cpu[c] \in ProgramState /\ cpu[c].kind \in Kinds
  BY DEF WriteCount, CountersInv, Typed
<1>2. PICK k \in Kinds : k = cpu[c].kind
  BY <1>1
<1>3. PICK new : new = AfterEmit(cpu[c])
  OBVIOUS
<1>4. new \in ProgramState /\ new.pc \in {"idle", "account"}
      /\ (new.pc # "idle" => new.kind \in Kinds)
  BY <1>1, <1>3, AfterEmitTyped
<1>5. /\ cpu' = [cpu EXCEPT ![c] = new]
      /\ counted' = [counted EXCEPT ![k] = Reads[c] + 1]
      /\ droppedBy' = droppedBy /\ outcomes' = outcomes /\ raced' = raced
  BY <1>2, <1>3 DEF WriteCount, Run, Reads
<1>6. /\ cpu' \in [Cpus -> ProgramState]
      /\ cpu'[c] = new /\ \A d \in Cpus : d # c => cpu'[d] = cpu[d]
      /\ \A d \in Cpus : cpu'[d].pc # "idle" => cpu'[d].kind \in Kinds
      /\ \A d \in Cpus : d # c => Reads'[d] = Reads[d]
  BY <1>4, <1>5, RunTyped DEF CountersInv
<1>7. Reads[c] \in Nat /\ counted \in [Kinds -> Nat]
  BY <1>1 DEF ProgramState, Reads, CountersInv, Typed
<1>8. Typed'
  BY <1>5, <1>6, <1>7 DEF CountersInv, Typed
<1>9. /\ Waiting("count", k)' = Waiting("count", k) \ {c} /\ c \in Waiting("count", k)
      /\ \A p \in {"count", "drop"}, j \in Kinds :
           p # "count" \/ j # k => /\ Waiting(p, j)' = Waiting(p, j)
                                 /\ c \notin Waiting(p, j)
      /\ \A p, j : Waiting(p, j) \subseteq Cpus
  BY <1>1, <1>2, <1>4, <1>6 DEF Waiting
<1>10. ASSUME NEW j \in Kinds
       PROVE  Tally(Waiting("count", j)', Reads', counted'[j], outcomes.submitted[j],
                    Counter(FALSE, j), raced)
  <2>1. /\ Tally(Waiting("count", j), Reads, counted[j], outcomes.submitted[j],
                 Counter(FALSE, j), raced)
        /\ IsFiniteSet(Waiting("count", j)) /\ \A d \in Waiting("count", j) : Reads[d] \in Nat
        /\ counted[j] \in Nat /\ outcomes.submitted[j] \in Nat
    BY WaitingFinite DEF CountersInv, Tallied, Typed
  <2>2. CASE j = k
    <3>1. counted'[j] = Reads[c] + 1
      BY <1>5, <1>7, <2>2
    <3>2. \A d \in Waiting("count", j) \ {c} : Reads'[d] = Reads[d]
      BY <1>6, <1>9
    <3>3. Tally(Waiting("count", j) \ {c}, Reads', Reads[c] + 1, outcomes.submitted[j],
                Counter(FALSE, j), raced)
      BY <1>9, <2>1, <2>2, <3>2, TallyWrite
    <3> QED BY <1>9, <2>2, <3>1, <3>3
  <2>3. CASE j # k
    <3>1. counted'[j] = counted[j]
      BY <1>5, <1>7, <2>3
    <3>2. Waiting("count", j)' = Waiting("count", j)
          /\ \A d \in Waiting("count", j) : Reads'[d] = Reads[d]
      BY <1>6, <1>9, <2>3
    <3> QED BY <2>1, <3>1, <3>2, TallySame
  <2> QED BY <2>2, <2>3
<1>11. ASSUME NEW j \in Kinds
       PROVE  Tally(Waiting("drop", j)', Reads', droppedBy[j], outcomes.overrun[j],
                    Counter(TRUE, j), raced)
  <2>1. Waiting("drop", j)' = Waiting("drop", j)
        /\ \A d \in Waiting("drop", j) : Reads'[d] = Reads[d]
    BY <1>6, <1>9
  <2> QED BY <2>1, TallySame DEF CountersInv, Tallied
<1>12. Tallied'
  BY <1>5, <1>10, <1>11 DEF Tallied
<1> QED BY <1>8, <1>12 DEF CountersInv

LEMMA WriteDropCounters ==
  ASSUME CountersInv, NEW c \in Cpus, WriteDrop(c) PROVE CountersInv'
<1>1. cpu[c].pc = "drop" /\ cpu[c] \in ProgramState /\ cpu[c].kind \in Kinds
  BY DEF WriteDrop, CountersInv, Typed
<1>2. PICK k \in Kinds : k = cpu[c].kind
  BY <1>1
<1>3. PICK new : new = AfterEmit(cpu[c])
  OBVIOUS
<1>4. new \in ProgramState /\ new.pc \in {"idle", "account"}
      /\ (new.pc # "idle" => new.kind \in Kinds)
  BY <1>1, <1>3, AfterEmitTyped
<1>5. /\ cpu' = [cpu EXCEPT ![c] = new]
      /\ droppedBy' = [droppedBy EXCEPT ![k] = Reads[c] + 1]
      /\ counted' = counted /\ outcomes' = outcomes /\ raced' = raced
  BY <1>2, <1>3 DEF WriteDrop, Run, Reads
<1>6. /\ cpu' \in [Cpus -> ProgramState]
      /\ cpu'[c] = new /\ \A d \in Cpus : d # c => cpu'[d] = cpu[d]
      /\ \A d \in Cpus : cpu'[d].pc # "idle" => cpu'[d].kind \in Kinds
      /\ \A d \in Cpus : d # c => Reads'[d] = Reads[d]
  BY <1>4, <1>5, RunTyped DEF CountersInv
<1>7. Reads[c] \in Nat /\ droppedBy \in [Kinds -> Nat]
  BY <1>1 DEF ProgramState, Reads, CountersInv, Typed
<1>8. Typed'
  BY <1>5, <1>6, <1>7 DEF CountersInv, Typed
<1>9. /\ Waiting("drop", k)' = Waiting("drop", k) \ {c} /\ c \in Waiting("drop", k)
      /\ \A p \in {"count", "drop"}, j \in Kinds :
           p # "drop" \/ j # k => /\ Waiting(p, j)' = Waiting(p, j)
                                 /\ c \notin Waiting(p, j)
      /\ \A p, j : Waiting(p, j) \subseteq Cpus
  BY <1>1, <1>2, <1>4, <1>6 DEF Waiting
<1>10. ASSUME NEW j \in Kinds
       PROVE  Tally(Waiting("drop", j)', Reads', droppedBy'[j], outcomes.overrun[j],
                    Counter(TRUE, j), raced)
  <2>1. /\ Tally(Waiting("drop", j), Reads, droppedBy[j], outcomes.overrun[j],
                 Counter(TRUE, j), raced)
        /\ IsFiniteSet(Waiting("drop", j)) /\ \A d \in Waiting("drop", j) : Reads[d] \in Nat
        /\ droppedBy[j] \in Nat /\ outcomes.overrun[j] \in Nat
    BY WaitingFinite DEF CountersInv, Tallied, Typed
  <2>2. CASE j = k
    <3>1. droppedBy'[j] = Reads[c] + 1
      BY <1>5, <1>7, <2>2
    <3>2. \A d \in Waiting("drop", j) \ {c} : Reads'[d] = Reads[d]
      BY <1>6, <1>9
    <3>3. Tally(Waiting("drop", j) \ {c}, Reads', Reads[c] + 1, outcomes.overrun[j],
                Counter(TRUE, j), raced)
      BY <1>9, <2>1, <2>2, <3>2, TallyWrite
    <3> QED BY <1>9, <2>2, <3>1, <3>3
  <2>3. CASE j # k
    <3>1. droppedBy'[j] = droppedBy[j]
      BY <1>5, <1>7, <2>3
    <3>2. Waiting("drop", j)' = Waiting("drop", j)
          /\ \A d \in Waiting("drop", j) : Reads'[d] = Reads[d]
      BY <1>6, <1>9, <2>3
    <3> QED BY <2>1, <3>1, <3>2, TallySame
  <2> QED BY <2>2, <2>3
<1>11. ASSUME NEW j \in Kinds
       PROVE  Tally(Waiting("count", j)', Reads', counted[j], outcomes.submitted[j],
                    Counter(FALSE, j), raced)
  <2>1. Waiting("count", j)' = Waiting("count", j)
        /\ \A d \in Waiting("count", j) : Reads'[d] = Reads[d]
    BY <1>6, <1>9
  <2> QED BY <2>1, TallySame DEF CountersInv, Tallied
<1>12. Tallied'
  BY <1>5, <1>10, <1>11 DEF Tallied
<1> QED BY <1>8, <1>12 DEF CountersInv

LEMMA NextCounters == CountersInv /\ [Next]_vars => CountersInv'
<1> SUFFICES ASSUME CountersInv, [Next]_vars PROVE CountersInv'
  OBVIOUS
<1>1. ASSUME NEW c \in Cpus, NEW t \in Threads,
             \/ TraceExecve(c, t) \/ TraceTcpV4Connect(c, t) \/ Uprobe(c, t) \/ Transfer(c, t)
             \/ \E k \in TracedKinds : Tracepoint(c, t, k)
             \/ \E a \in Addrs : TraceDoMmap(c, t, a)
      PROVE  CountersInv'
  BY <1>1, HitCounters
<1>2. ASSUME NEW c \in Cpus, Program(c) PROVE CountersInv'
  <2>1. CASE Reserve(c)
    BY <2>1, ReserveCounters
  <2>2. CASE WriteCount(c)
    BY <2>2, WriteCountCounters
  <2>3. CASE WriteDrop(c)
    BY <2>3, WriteDropCounters
  <2>4. CASE Account(c)
    BY <2>4, AccountCounters
  <2> QED BY <1>2, <2>1, <2>2, <2>3, <2>4 DEF Program
<1>3. CASE Consume
  BY <1>3, NoRun DEF Consume
<1>4. CASE Tick
  BY <1>4, NoRun DEF Tick, emitVars
<1>5. CASE UNCHANGED vars
  BY <1>5, NoRun DEF vars, emitVars
<1> QED BY <1>1, <1>2, <1>3, <1>4, <1>5 DEF Next

(* The counters of emitted and of lost events never say too much, and are    *)
(* wrong only for a kind that two CPUs have counted at once.                 *)
(* (emit_event of events.rs)                                                 *)
THEOREM KernelCountersTrue == Spec => []CountersTrueUnlessRaced
<1>1. Spec => []CountersInv
  BY InitCounters, NextCounters, PTL DEF Spec
<1> QED BY <1>1, CountersTrue, PTL

-----------------------------------------------------------------------------
(* The limit of execs. The entry of a thread tells its last exec that got    *)
(* past the limiter; a thread that had one and has no entry found the map    *)
(* full, and a map that is full stays so.                                    *)
Passed(t) == {i \in DOMAIN execs[t] : execs[t][i].passed}

LimiterTyped ==
  /\ now \in Nat
  /\ execs \in [Threads -> Seq([at : Nat, passed : BOOLEAN])]
  /\ IsFiniteSet(DOMAIN lastEvent)
  /\ \A t \in DOMAIN lastEvent : lastEvent[t] \in Nat

EntryIsLastExec ==
  \A t \in Threads \cap DOMAIN lastEvent :
    /\ \E i \in Passed(t) : execs[t][i].at = lastEvent[t]
    /\ \A i \in Passed(t) : execs[t][i].at <= lastEvent[t]

PastExecs == \A t \in Threads : \A i \in DOMAIN execs[t] : execs[t][i].at <= now

NoEntryMeansFull ==
  \A t \in Threads \ DOMAIN lastEvent :
    Passed(t) # {} => Cardinality(DOMAIN lastEvent) >= LimiterSize

ThreadLimited(t) ==
  \A j \in DOMAIN execs[t] :
    /\ j \in Passed(t) /\ t \in DOMAIN lastEvent =>
         \A i \in Passed(t) : i < j => Apart(execs[t], i, j) > Second
    /\ j \notin Passed(t) =>
         \E i \in Passed(t) : i < j /\ Apart(execs[t], i, j) <= Second

(* An exec that found the ring full is on its way to the counter of losses,  *)
(* or was one that has counted there; the counter never falls back to zero.  *)
LossesShow == \A e \in lost : LossShows("Exec")

LimiterInv ==
  /\ LimiterTyped /\ EntryIsLastExec /\ PastExecs /\ NoEntryMeansFull
  /\ \A t \in Threads : ThreadLimited(t)

LEMMA LimiterImplies == LimiterInv /\ LossesShow => ExecsAreLimited
<1> SUFFICES ASSUME LimiterInv, LossesShow,
                    NEW t \in Threads, NEW j \in 1 .. MaxCalls, j \in DOMAIN execs[t]
             PROVE  IF execs[t][j].passed
                      THEN t \in DOMAIN lastEvent =>
                             \A i \in 1 .. (j - 1) :
                               execs[t][i].passed => Apart(execs[t], i, j) > Second
                      ELSE \E i \in 1 .. (j - 1) :
                             /\ execs[t][i].passed /\ Apart(execs[t], i, j) <= Second
                             /\ <<t, i>> \in lost => LossShows("Exec")
  BY Zenon DEF ExecsAreLimited
<1>1. Len(execs[t]) \in Nat /\ DOMAIN execs[t] = 1 .. Len(execs[t])
  BY DEF LimiterInv, LimiterTyped
<1>2. 1 .. (j - 1) \subseteq DOMAIN execs[t] /\ \A i \in 1 .. (j - 1) : i < j
  BY <1>1
<1>3. \A i \in DOMAIN execs[t] : i < j => i \in 1 .. (j - 1)
  BY <1>1
<1>4. ThreadLimited(t)
  BY DEF LimiterInv
<1>5. CASE execs[t][j].passed
  <2>1. j \in Passed(t)
    BY <1>5, Zenon DEF Passed
  <2>2. ASSUME t \in DOMAIN lastEvent, NEW i \in 1 .. (j - 1), execs[t][i].passed
        PROVE  Apart(execs[t], i, j) > Second
    <3>1. i \in Passed(t) /\ i < j
      BY <1>2, <2>2, Zenon DEF Passed
    <3> QED BY <1>4, <2>1, <2>2, <3>1, Zenon DEF ThreadLimited
  <2> QED BY <1>5, <2>2, Zenon
<1>6. CASE ~execs[t][j].passed
  <2>1. j \notin Passed(t)
    BY <1>6, Zenon DEF Passed
  <2>2. PICK i \in Passed(t) : i < j /\ Apart(execs[t], i, j) <= Second
    BY <1>4, <2>1, Zenon DEF ThreadLimited
  <2>3. i \in 1 .. (j - 1) /\ execs[t][i].passed
    BY <1>3, <2>2, Zenon DEF Passed
  <2>4. <<t, i>> \in lost => LossShows("Exec")
    BY Zenon DEF LossesShow
  <2> QED BY <1>6, <2>2, <2>3, <2>4, Zenon
<1> QED BY <1>5, <1>6, Zenon

LEMMA InitLimiter == Init => LimiterInv
<1> SUFFICES ASSUME Init PROVE LimiterInv
  OBVIOUS
<1>1. /\ now = 0 /\ DOMAIN lastEvent = {}
      /\ \A t \in Threads : execs[t] = <<>> /\ DOMAIN execs[t] = {}
  BY DEF Init
<1>2. LimiterTyped
  <2>1. execs \in [Threads -> Seq([at : Nat, passed : BOOLEAN])]
    BY DEF Init
  <2> QED BY <1>1, <2>1, FS_EmptySet DEF LimiterTyped
<1>3. \A t \in Threads : Passed(t) = {} /\ ThreadLimited(t)
  BY <1>1 DEF Passed, ThreadLimited
<1> QED BY <1>1, <1>2, <1>3 DEF EntryIsLastExec, PastExecs, NoEntryMeansFull, LimiterInv

LEMMA ElementTyped ==
  ASSUME NEW S, NEW s \in Seq(S), NEW i \in DOMAIN s PROVE s[i] \in S
<1>1. Len(s) \in Nat /\ DOMAIN s = 1 .. Len(s)
  OBVIOUS
<1> QED BY <1>1

LEMMA ExecTyped ==
  ASSUME NEW n \in Nat, NEW b \in BOOLEAN
  PROVE  [at |-> n, passed |-> b] \in [at : Nat, passed : BOOLEAN]
  OBVIOUS

LEMMA NoExec ==
  ASSUME LimiterInv, execs' = execs, lastEvent' = lastEvent, now' \in Nat, now' >= now
  PROVE  LimiterInv'
<1>1. execs' = execs /\ lastEvent' = lastEvent
  OBVIOUS
<1>2. \A t : Passed(t)' = Passed(t)
  BY <1>1, Zenon DEF Passed
<1>3. LimiterTyped' /\ EntryIsLastExec' /\ NoEntryMeansFull'
  BY <1>1, <1>2 DEF LimiterInv, LimiterTyped, EntryIsLastExec, NoEntryMeansFull
<1>4. PastExecs'
  <2> SUFFICES ASSUME NEW t \in Threads, NEW i \in DOMAIN execs[t]
               PROVE  execs[t][i].at <= now'
    BY <1>1 DEF PastExecs
  <2>1. now \in Nat /\ execs[t] \in Seq([at : Nat, passed : BOOLEAN])
    BY DEF LimiterInv, LimiterTyped
  <2>2. execs[t][i] \in [at : Nat, passed : BOOLEAN]
    BY <2>1, ElementTyped
  <2>3. execs[t][i].at \in Nat
    BY <2>2
  <2>4. execs[t][i].at <= now
    BY DEF LimiterInv, PastExecs
  <2> QED BY <2>1, <2>3, <2>4
<1>5. \A t \in Threads : ThreadLimited(t)'
  BY <1>1, <1>2 DEF LimiterInv, ThreadLimited
<1> QED BY <1>3, <1>4, <1>5 DEF LimiterInv

(* A thread executes a program.                                              *)
LEMMA ExecKept ==
  ASSUME LimiterInv, NEW c \in Cpus, NEW t \in Threads, TraceExecve(c, t)
  PROVE  LimiterInv'
<1>1. /\ execs[t] \in Seq([at : Nat, passed : BOOLEAN]) /\ now \in Nat
      /\ \A i \in DOMAIN execs[t] : execs[t][i].at \in Nat /\ execs[t][i].at <= now
  <2>1. execs[t] \in Seq([at : Nat, passed : BOOLEAN]) /\ now \in Nat
    BY DEF LimiterInv, LimiterTyped
  <2>2. \A i \in DOMAIN execs[t] : execs[t][i] \in [at : Nat, passed : BOOLEAN]
    BY <2>1, ElementTyped
  <2>3. \A i \in DOMAIN execs[t] : execs[t][i].at \in Nat
    BY <2>2
  <2>4. \A i \in DOMAIN execs[t] : execs[t][i].at <= now
    BY DEF LimiterInv, PastExecs
  <2> QED BY <2>1, <2>3, <2>4
<1>2. PICK n \in Nat : n = Len(execs[t]) /\ DOMAIN execs[t] = 1 .. n
  BY <1>1
<1>3. PICK e \in [at : Nat, passed : BOOLEAN] : e = [at |-> now, passed |-> ~Limited(t)]
  <2>1. (~Limited(t)) \in BOOLEAN
    BY Zenon DEF Limited
  <2> QED BY <1>1, <2>1, ExecTyped, Zenon
<1>4. now' = now /\ execs' = [execs EXCEPT ![t] = Append(execs[t], e)]
  BY <1>3, Zenon DEF TraceExecve
<1>5. /\ DOMAIN execs'[t] = 1 .. (n + 1)
      /\ \A i \in 1 .. n : execs'[t][i] = execs[t][i]
      /\ execs'[t][n + 1] = e /\ execs'[t] \in Seq([at : Nat, passed : BOOLEAN])
      /\ \A u \in Threads : u # t => execs'[u] = execs[u]
      /\ execs' \in [Threads -> Seq([at : Nat, passed : BOOLEAN])]
  <2>1. execs \in [Threads -> Seq([at : Nat, passed : BOOLEAN])]
    BY DEF LimiterInv, LimiterTyped
  <2>2. execs'[t] = Append(execs[t], e) /\ \A u \in Threads : u # t => execs'[u] = execs[u]
    BY <1>4, <2>1
  <2>3. Append(execs[t], e) \in Seq([at : Nat, passed : BOOLEAN])
    BY <1>1
  <2>4. /\ DOMAIN Append(execs[t], e) = 1 .. (n + 1)
        /\ \A i \in 1 .. n : Append(execs[t], e)[i] = execs[t][i]
        /\ Append(execs[t], e)[n + 1] = e
    BY <1>1, <1>2
  <2> QED BY <1>4, <2>1, <2>2, <2>3, <2>4
<1>6. /\ Passed(t) \subseteq 1 .. n
      /\ \A i \in 1 .. n : i < n + 1 /\ i \in 1 .. (n + 1) /\ i # n + 1
      /\ n + 1 \in 1 .. (n + 1) /\ \A i \in 1 .. (n + 1) : i \in 1 .. n \/ i = n + 1
  BY <1>2 DEF Passed
<1>7. \A u \in Threads : u # t => Passed(u)' = Passed(u)
  BY <1>5, Zenon DEF Passed
<1>8. e.at = now /\ (e.passed <=> ~Limited(t))
  BY <1>3
<1>9. Passed(t)' = IF Limited(t) THEN Passed(t) ELSE Passed(t) \cup {n + 1}
  <2>1. Passed(t)' = {i \in 1 .. (n + 1) : execs'[t][i].passed}
    BY <1>5, Zenon DEF Passed
  <2>2. Passed(t) = {i \in 1 .. n : execs[t][i].passed}
    BY <1>2, Zenon DEF Passed
  <2>3. \A i \in 1 .. n : execs'[t][i].passed <=> execs[t][i].passed
    BY <1>5, Zenon
  <2>4. execs'[t][n + 1].passed <=> ~Limited(t)
    BY <1>5, <1>8, Zenon
  <2> HIDE DEF Limited
  <2>5. CASE Limited(t)
    BY <1>6, <2>1, <2>2, <2>3, <2>4, <2>5, Zenon
  <2>6. CASE ~Limited(t)
    BY <1>6, <2>1, <2>2, <2>3, <2>4, <2>6, Zenon
  <2> QED BY <2>5, <2>6
<1>10. PastExecs'
  <2> SUFFICES ASSUME NEW u \in Threads, NEW i \in DOMAIN execs'[u]
               PROVE  execs'[u][i].at <= now
    BY <1>4 DEF PastExecs
  <2>1. CASE u # t
    <3>1. execs'[u] = execs[u]
      BY <1>5, <2>1
    <3> QED BY <3>1 DEF LimiterInv, PastExecs
  <2>2. CASE u = t
    <3>1. i \in 1 .. n \/ i = n + 1
      BY <1>5, <1>6, <2>2
    <3>2. CASE i \in 1 .. n
      <4>1. execs'[t][i] = execs[t][i] /\ execs[t][i].at <= now
        BY <1>1, <1>2, <1>5, <3>2
      <4> QED BY <2>2, <4>1
    <3>3. CASE i = n + 1
      <4>1. execs'[t][i].at = now
        BY <1>5, <1>8, <3>3
      <4> QED BY <1>1, <2>2, <4>1
    <3> QED BY <3>1, <3>2, <3>3
  <2> QED BY <2>1, <2>2
<1>11. \A u \in Threads : u # t => (u \in DOMAIN lastEvent' <=> u \in DOMAIN lastEvent)
                                  /\ (u \in DOMAIN lastEvent => lastEvent'[u] = lastEvent[u])
  BY DEF TraceExecve, Insert
<1>12. ASSUME NEW u \in Threads, u # t
       PROVE  /\ ThreadLimited(u)'
              /\ u \in DOMAIN lastEvent' =>
                   /\ \E i \in Passed(u)' : execs'[u][i].at = lastEvent'[u]
                   /\ \A i \in Passed(u)' : execs'[u][i].at <= lastEvent'[u]
  <2>1. Passed(u)' = Passed(u) /\ execs'[u] = execs[u]
    BY <1>5, <1>7, <1>12
  <2>2. ThreadLimited(u)'
    BY <1>11, <1>12, <2>1, Zenon DEF LimiterInv, ThreadLimited, Apart
  <2>3. ASSUME u \in DOMAIN lastEvent'
        PROVE  /\ \E i \in Passed(u)' : execs'[u][i].at = lastEvent'[u]
               /\ \A i \in Passed(u)' : execs'[u][i].at <= lastEvent'[u]
    BY <1>11, <1>12, <2>1, <2>3 DEF LimiterInv, EntryIsLastExec
  <2> QED BY <2>2, <2>3
<1>13. CASE Limited(t)
  <2>1. /\ lastEvent' = lastEvent /\ t \in DOMAIN lastEvent /\ now - lastEvent[t] <= Second
        /\ Passed(t)' = Passed(t)
    BY <1>9, <1>13 DEF TraceExecve, Limited
  <2>2. LimiterTyped'
    BY <1>4, <1>5, <2>1 DEF LimiterInv, LimiterTyped
  <2>3. \A i \in Passed(t) : execs'[t][i] = execs[t][i]
    BY <1>5, <1>6
  <2>4. EntryIsLastExec'
    BY <1>12, <2>1, <2>3 DEF LimiterInv, EntryIsLastExec
  <2>5. NoEntryMeansFull'
    BY <1>7, <2>1 DEF LimiterInv, NoEntryMeansFull
  <2>6. ASSUME NEW j \in DOMAIN execs'[t]
        PROVE  /\ j \in Passed(t)' /\ t \in DOMAIN lastEvent' =>
                    \A i \in Passed(t)' : i < j => Apart(execs'[t], i, j) > Second
               /\ j \notin Passed(t)' =>
                    \E i \in Passed(t)' : i < j /\ Apart(execs'[t], i, j) <= Second
    <3>1. CASE j \in 1 .. n
      BY <1>2, <1>5, <2>1, <2>3, <3>1 DEF LimiterInv, ThreadLimited, Apart
    <3>2. CASE j = n + 1
      <4>1. PICK i \in Passed(t) : execs[t][i].at = lastEvent[t]
        BY <2>1 DEF LimiterInv, EntryIsLastExec
      <4>2. Apart(execs'[t], i, j) <= Second /\ i < j
        BY <1>5, <1>6, <1>8, <2>1, <2>3, <3>2, <4>1 DEF Apart
      <4>3. j \notin Passed(t)
        BY <1>6, <3>2
      <4> QED BY <2>1, <4>2, <4>3
    <3> QED BY <1>5, <1>6, <3>1, <3>2
  <2>7. ThreadLimited(t)'
    BY <2>6, Zenon DEF ThreadLimited
  <2> QED BY <1>10, <1>12, <2>2, <2>4, <2>5, <2>7 DEF LimiterInv
<1>14. CASE ~Limited(t)
  <2>1. /\ lastEvent' = Insert(lastEvent, t, now, LimiterSize)
        /\ Passed(t)' = Passed(t) \cup {n + 1}
    BY <1>9, <1>14 DEF TraceExecve
  <2>2. /\ LimiterSize \in Nat /\ Second \in Nat /\ IsFiniteSet(DOMAIN lastEvent)
        /\ Cardinality(DOMAIN lastEvent) \in Nat
        /\ \A u \in DOMAIN lastEvent : lastEvent[u] \in Nat
    BY ProbesAssumption, FS_CardinalityType DEF LimiterInv, LimiterTyped
  <2>3. CASE t \in DOMAIN lastEvent \/ Cardinality(DOMAIN lastEvent) < LimiterSize
    <3>1. /\ DOMAIN lastEvent' = DOMAIN lastEvent \cup {t}
          /\ lastEvent'[t] = now
          /\ \A u \in DOMAIN lastEvent : u # t => lastEvent'[u] = lastEvent[u]
      BY <2>1, <2>3 DEF Insert
    <3>2. IsFiniteSet(DOMAIN lastEvent')
      BY <2>2, <3>1, FS_AddElement
    <3>3. LimiterTyped'
      BY <1>1, <1>4, <1>5, <2>2, <3>1, <3>2 DEF LimiterTyped
    <3>4. \A i \in Passed(t) : i \in 1 .. n /\ execs'[t][i] = execs[t][i]
      BY <1>5, <1>6
    <3>5. EntryIsLastExec'
      <4>1. ASSUME NEW i \in Passed(t)' PROVE execs'[t][i].at <= lastEvent'[t]
        <5>1. CASE i = n + 1
          BY <1>1, <1>5, <1>8, <3>1, <5>1
        <5>2. CASE i \in Passed(t)
          <6>1. execs'[t][i].at = execs[t][i].at
            BY <3>4, <5>2
          <6> QED BY <1>1, <1>2, <3>1, <3>4, <5>2, <6>1
        <5> QED BY <2>1, <5>1, <5>2
      <4>2. \E i \in Passed(t)' : execs'[t][i].at = lastEvent'[t]
        BY <1>5, <1>8, <2>1, <3>1
      <4> QED BY <1>12, <4>1, <4>2 DEF EntryIsLastExec
    <3>6. ASSUME NEW u \in Threads \ DOMAIN lastEvent', Passed(u)' # {}
          PROVE  Cardinality(DOMAIN lastEvent') >= LimiterSize
      <4>1. u # t /\ u \in Threads \ DOMAIN lastEvent /\ Passed(u) # {}
        BY <1>7, <3>1, <3>6
      <4>2. Cardinality(DOMAIN lastEvent) >= LimiterSize
        BY <4>1 DEF LimiterInv, NoEntryMeansFull
      <4>3. t \in DOMAIN lastEvent /\ DOMAIN lastEvent' = DOMAIN lastEvent
        BY <2>2, <2>3, <3>1, <4>2
      <4> QED BY <4>2, <4>3
    <3>7. ASSUME NEW i \in Passed(t) PROVE now - execs[t][i].at > Second
      <4>1. t \in DOMAIN lastEvent
        <5>1. CASE t \notin DOMAIN lastEvent
          BY <2>2, <2>3, <5>1 DEF LimiterInv, NoEntryMeansFull
        <5> QED BY <5>1
      <4>2. execs[t][i].at <= lastEvent[t] /\ now - lastEvent[t] > Second
        BY <1>1, <1>14, <2>2, <4>1 DEF LimiterInv, EntryIsLastExec, Limited
      <4>3. execs[t][i].at \in Nat
        BY <1>1, <1>2, <3>4
      <4> QED BY SMTT(60), <1>1, <2>2, <4>1, <4>2, <4>3
    <3>8. ASSUME NEW j \in DOMAIN execs'[t]
          PROVE  /\ j \in Passed(t)' =>
                      \A i \in Passed(t)' : i < j => Apart(execs'[t], i, j) > Second
                 /\ j \notin Passed(t)' =>
                      \E i \in Passed(t)' : i < j /\ Apart(execs'[t], i, j) <= Second
      <4>1. CASE j = n + 1
        <5>1. \A i \in Passed(t) : Apart(execs'[t], i, j) > Second
          BY <1>5, <1>8, <3>4, <3>7, <4>1 DEF Apart
        <5> QED BY <1>6, <2>1, <4>1, <5>1
      <4>2. CASE j \in 1 .. n
        <5>1. j \in DOMAIN execs[t] /\ j # n + 1 /\ j \in Passed(t)' <=> j \in Passed(t)
          BY <1>2, <1>6, <2>1, <4>2
        <5>2. ~(n + 1 < j)
          BY <4>2
        <5>3. ASSUME j \in Passed(t), NEW i \in Passed(t), i < j
              PROVE  Apart(execs'[t], i, j) > Second
          <6>1. t \in DOMAIN lastEvent
            <7>1. CASE t \notin DOMAIN lastEvent
              BY <2>2, <2>3, <5>3, <7>1 DEF LimiterInv, NoEntryMeansFull
            <7> QED BY <7>1
          <6> QED BY <1>2, <1>5, <3>4, <4>2, <5>3, <6>1 DEF LimiterInv, ThreadLimited, Apart
        <5>4. ASSUME j \notin Passed(t)
              PROVE  \E i \in Passed(t) : i < j /\ Apart(execs'[t], i, j) <= Second
          BY <1>2, <1>5, <3>4, <4>2, <5>4 DEF LimiterInv, ThreadLimited, Apart
        <5> QED BY <1>6, <2>1, <4>2, <5>2, <5>3, <5>4
      <4> QED BY <1>5, <1>6, <4>1, <4>2
    <3>9. ThreadLimited(t)'
      BY <3>8, Zenon DEF ThreadLimited
    <3> QED BY <1>10, <1>12, <3>3, <3>5, <3>6, <3>9 DEF LimiterInv, NoEntryMeansFull
  <2>4. CASE ~(t \in DOMAIN lastEvent \/ Cardinality(DOMAIN lastEvent) < LimiterSize)
    <3>1. lastEvent' = lastEvent /\ t \notin DOMAIN lastEvent
          /\ Cardinality(DOMAIN lastEvent) >= LimiterSize
      BY <2>1, <2>2, <2>4 DEF Insert
    <3>2. LimiterTyped'
      BY <1>4, <1>5, <3>1 DEF LimiterInv, LimiterTyped
    <3>3. EntryIsLastExec' /\ NoEntryMeansFull'
      BY <1>12, <3>1 DEF EntryIsLastExec, NoEntryMeansFull
    <3>4. ASSUME NEW j \in DOMAIN execs'[t], j \notin Passed(t)'
          PROVE  \E i \in Passed(t)' : i < j /\ Apart(execs'[t], i, j) <= Second
      <4>1. j \in 1 .. n /\ j \notin Passed(t)
        BY <1>5, <1>6, <2>1, <3>4
      <4>2. PICK i \in Passed(t) : i < j /\ Apart(execs[t], i, j) <= Second
        BY <1>2, <4>1 DEF LimiterInv, ThreadLimited
      <4>3. Apart(execs'[t], i, j) = Apart(execs[t], i, j)
        BY <1>5, <1>6, <4>1 DEF Apart
      <4> QED BY <2>1, <4>2, <4>3
    <3>5. ThreadLimited(t)'
      BY <3>1, <3>4, Zenon DEF ThreadLimited
    <3> QED BY <1>10, <1>12, <3>2, <3>3, <3>5 DEF LimiterInv
  <2> QED BY <2>3, <2>4
<1> QED BY <1>13, <1>14

LEMMA NextLimiter == LimiterInv /\ [Next]_vars => LimiterInv'
<1> SUFFICES ASSUME LimiterInv, [Next]_vars PROVE LimiterInv'
  OBVIOUS
<1>1. now \in Nat /\ now >= now
  BY DEF LimiterInv, LimiterTyped
<1>2. ASSUME NEW c \in Cpus, NEW t \in Threads,
             \/ TraceExecve(c, t) \/ TraceTcpV4Connect(c, t) \/ Uprobe(c, t) \/ Transfer(c, t)
             \/ \E k \in TracedKinds : Tracepoint(c, t, k)
             \/ \E a \in Addrs : TraceDoMmap(c, t, a)
      PROVE  LimiterInv'
  <2>1. CASE TraceExecve(c, t)
    BY <2>1, ExecKept
  <2>2. CASE ~TraceExecve(c, t)
    <3>1. execs' = execs /\ lastEvent' = lastEvent /\ now' = now
      BY <1>2, <2>2 DEF TraceTcpV4Connect, Uprobe, Tracepoint, Transfer, TraceTransfer, TraceDoMmap, execVars
    <3> QED BY <1>1, <3>1, NoExec
  <2> QED BY <2>1, <2>2
<1>3. ASSUME NEW c \in Cpus, Program(c) PROVE LimiterInv'
  <2>1. execs' = execs /\ lastEvent' = lastEvent /\ now' = now
    BY <1>3 DEF Program, Reserve, WriteCount, WriteDrop, Account, execVars
  <2> QED BY <1>1, <2>1, NoExec
<1>4. CASE Consume
  BY <1>1, <1>4, NoExec DEF Consume, execVars
<1>5. CASE Tick
  BY <1>1, <1>5, NoExec DEF Tick, execVars
<1>6. CASE UNCHANGED vars
  BY <1>1, <1>6, NoExec DEF vars, execVars
<1> QED BY <1>2, <1>3, <1>4, <1>5, <1>6 DEF Next

LEMMA LossStays ==
  ASSUME LossesShow, lost' = lost, droppedBy' = droppedBy,
         \A c \in Cpus : cpu[c].pc = "drop" => cpu'[c] = cpu[c]
  PROVE  LossesShow'
  BY DEF LossesShow, LossShows

LEMMA HitKeepsLosses ==
  ASSUME LossesShow, Typed, NEW c \in Cpus, NEW t \in Threads,
         \/ TraceExecve(c, t) \/ TraceTcpV4Connect(c, t) \/ Uprobe(c, t) \/ Transfer(c, t)
         \/ \E k \in TracedKinds : Tracepoint(c, t, k)
         \/ \E a \in Addrs : TraceDoMmap(c, t, a)
  PROVE  LossesShow'
<1>1. /\ cpu[c] = Idle /\ lost' = lost /\ droppedBy' = droppedBy
      /\ cpu' = cpu \/ \E new : cpu' = [cpu EXCEPT ![c] = new]
  BY DEF TraceExecve, TraceTcpV4Connect, Uprobe, Tracepoint, Transfer, TraceTransfer,
         TraceDoMmap, Hit, Run, emitVars, execVars
<1>2. cpu[c].pc # "drop"
  BY <1>1, IdleTyped
<1>3. \A d \in Cpus : cpu[d].pc = "drop" => cpu'[d] = cpu[d]
  BY <1>1, <1>2 DEF Typed
<1> QED BY <1>1, <1>3, LossStays

LEMMA ProgramShowsLosses ==
  ASSUME LossesShow, Typed, NEW c \in Cpus, Program(c)
  PROVE  LossesShow'
<1>1. cpu \in [Cpus -> ProgramState] /\ droppedBy \in [Kinds -> Nat] /\ "Exec" \in Kinds
  BY DEF Typed, Kinds
<1>2. CASE Reserve(c)
  <2>1. /\ cpu[c].pc = "reserve" /\ droppedBy' = droppedBy
        /\ \A d \in Cpus : d # c => cpu'[d] = cpu[d]
    BY <1>1, <1>2 DEF Reserve
  <2>2. CASE lost' = lost
    BY <2>1, <2>2, LossStays
  <2>3. CASE lost' # lost
    <3>1. Len(ring) >= RingSize /\ cpu[c].kind = "Exec"
      BY <1>2, <2>3 DEF Reserve
    <3>2. cpu' = [cpu EXCEPT ![c].pc = "drop", ![c].read = droppedBy[cpu[c].kind]]
      BY <1>2, <3>1 DEF Reserve
    <3>3. cpu'[c].pc = "drop" /\ cpu'[c].kind = "Exec"
      BY <1>1, <3>1, <3>2 DEF ProgramState
    <3> QED BY <3>3 DEF LossesShow, LossShows
  <2> QED BY <2>2, <2>3
<1>3. CASE WriteDrop(c)
  <2>1. /\ cpu[c].pc = "drop" /\ lost' = lost /\ cpu[c].read \in Nat
        /\ droppedBy' = [droppedBy EXCEPT ![cpu[c].kind] = cpu[c].read + 1]
        /\ \A d \in Cpus : d # c => cpu'[d] = cpu[d]
    BY <1>1, <1>3 DEF WriteDrop, Run, execVars, ProgramState
  <2>2. CASE cpu[c].kind = "Exec"
    <3>1. droppedBy'["Exec"] > 0
      BY <1>1, <2>1, <2>2
    <3> QED BY <3>1 DEF LossesShow, LossShows
  <2>3. CASE cpu[c].kind # "Exec"
    <3>1. droppedBy'["Exec"] = droppedBy["Exec"]
      BY <1>1, <2>1, <2>3
    <3>2. \A d \in Cpus : cpu[d].pc = "drop" /\ cpu[d].kind = "Exec" => cpu'[d] = cpu[d]
      BY <2>1, <2>3
    <3> QED BY <2>1, <3>1, <3>2 DEF LossesShow, LossShows
  <2> QED BY <2>2, <2>3
<1>4. CASE WriteCount(c) \/ Account(c)
  <2>1. /\ cpu[c].pc # "drop" /\ lost' = lost /\ droppedBy' = droppedBy
        /\ \A d \in Cpus : d # c => cpu'[d] = cpu[d]
    BY <1>1, <1>4 DEF WriteCount, Account, Run, execVars, emitVars
  <2> QED BY <2>1, LossStays
<1> QED BY <1>2, <1>3, <1>4 DEF Program

LEMMA NextLosses == Typed /\ LossesShow /\ [Next]_vars => LossesShow'
<1> SUFFICES ASSUME Typed, LossesShow, [Next]_vars PROVE LossesShow'
  OBVIOUS
<1>1. ASSUME NEW c \in Cpus, NEW t \in Threads,
             \/ TraceExecve(c, t) \/ TraceTcpV4Connect(c, t) \/ Uprobe(c, t) \/ Transfer(c, t)
             \/ \E k \in TracedKinds : Tracepoint(c, t, k)
             \/ \E a \in Addrs : TraceDoMmap(c, t, a)
      PROVE  LossesShow'
  BY <1>1, HitKeepsLosses
<1>2. ASSUME NEW c \in Cpus, Program(c) PROVE LossesShow'
  BY <1>2, ProgramShowsLosses
<1>3. CASE Consume
  BY <1>3, LossStays DEF Consume, execVars
<1>4. CASE Tick
  BY <1>4, LossStays DEF Tick, execVars, emitVars
<1>5. CASE UNCHANGED vars
  BY <1>5, LossStays DEF vars, execVars, emitVars
<1> QED BY <1>1, <1>2, <1>3, <1>4, <1>5 DEF Next

(* An exec is kept back only if one of the same thread got past the limiter  *)
(* within the second before, and if the event of that one was lost to a full *)
(* ring, the counter of losses shows it; two that get past the limiter are   *)
(* more than a second apart unless it had no room for the thread.            *)
(* (trace_enter_execve of tracepoints.rs, emit_event of events.rs)           *)
THEOREM ExecLimitHolds == Spec => []ExecsAreLimited
<1>1. Spec => []LimiterInv
  BY InitLimiter, NextLimiter, PTL DEF Spec
<1>2. Spec => []CountersInv
  BY InitCounters, NextCounters, PTL DEF Spec
<1>3. CountersInv => Typed
  BY DEF CountersInv
<1>4. Init => LossesShow
  BY DEF Init, LossesShow
<1>5. Spec => []LossesShow
  BY <1>2, <1>3, <1>4, NextLosses, PTL DEF Spec
<1> QED BY <1>1, <1>5, LimiterImplies, PTL

-----------------------------------------------------------------------------
(* The accounts of transfers. A thread that runs no program has in its       *)
(* account what it asked for; one that does, that but for the transfer on which  *)
(* its program is.                                                           *)
Amounts == [sent : Nat, received : Nat]

Plus(a, way, bytes) == [a EXCEPT ![way] = @ + bytes]

Transfers(p) == p.kind = "NetTransfer" /\ p.bytes > 0

Due(p, a) == IF Transfers(p) THEN Plus(a, p.way, p.bytes) ELSE a

ProgramOf(p, t) ==
  /\ p.bytes \in Nat
  /\ p.thread = t
  /\ Transfers(p) => p.way \in {"sent", "received"}
  /\ p.pc = "account" => Transfers(p)
  /\ p.pc \in {"reserve", "count", "drop", "account"}

Tracked == Threads \ {"none"}

ProgramsTyped ==
  \A c \in Cpus : cpu[c] = Idle \/ \E t \in Tracked : ProgramOf(cpu[c], t)

Alone == \A c, d \in Cpus : cpu[c].thread = cpu[d].thread => c = d \/ cpu[c].thread = "none"

AccountsTyped ==
  /\ cpu = [c \in Cpus |-> cpu[c]]
  /\ DOMAIN network \subseteq Tracked
  /\ \A t \in DOMAIN network : network[t] \in Amounts
  /\ asked \in [Threads -> Amounts]

AccountsKept ==
  \A t \in DOMAIN network :
    /\ Resting(t) => network[t] = asked[t]
    /\ \A c \in Cpus : cpu[c].thread = t => asked[t] = Due(cpu[c], network[t])

AccountsInv == ProgramsTyped /\ Alone /\ AccountsTyped /\ AccountsKept

LEMMA PlusTyped ==
  ASSUME NEW a \in Amounts, NEW way \in {"sent", "received"}, NEW bytes \in Nat
  PROVE  Plus(a, way, bytes) \in Amounts
<1>1. CASE way = "sent"
  BY <1>1 DEF Plus, Amounts
<1>2. CASE way = "received"
  BY <1>2 DEF Plus, Amounts
<1> QED BY <1>1, <1>2

LEMMA InitAccounts == Init => AccountsInv
<1> SUFFICES ASSUME Init PROVE AccountsInv
  OBVIOUS
<1>1. /\ cpu = [c \in Cpus |-> Idle] /\ DOMAIN network = {}
      /\ asked = [t \in Threads |-> NoBytes]
  BY DEF Init
<1>2. NoBytes \in Amounts
  BY DEF NoBytes, Amounts
<1>3. \A c \in Cpus : cpu[c] = Idle /\ cpu[c].thread = "none"
  BY <1>1 DEF Idle
<1>4. ProgramsTyped /\ Alone
  BY <1>3 DEF ProgramsTyped, Alone
<1>5. AccountsTyped
  BY <1>1, <1>2 DEF AccountsTyped
<1> QED BY <1>1, <1>4, <1>5 DEF AccountsKept, AccountsInv

LEMMA NoTurn ==
  ASSUME AccountsInv, UNCHANGED <<cpu, network, asked>>
  PROVE  AccountsInv'
<1>1. ProgramsTyped' /\ Alone'
  BY DEF AccountsInv, ProgramsTyped, Alone
<1>2. AccountsTyped'
  BY DEF AccountsInv, AccountsTyped
<1>3. AccountsKept'
  BY DEF AccountsInv, AccountsKept, Resting
<1> QED BY <1>1, <1>2, <1>3 DEF AccountsInv

(* A turn of the program that runs for thread t on CPU c.                    *)
LEMMA Turn ==
  ASSUME AccountsInv, NEW c \in Cpus, NEW t \in Tracked,
         NEW new, new = Idle \/ ProgramOf(new, t),
         cpu[c].thread = t \/ (cpu[c] = Idle /\ Resting(t)),
         cpu' = [cpu EXCEPT ![c] = new],
         DOMAIN network' \subseteq DOMAIN network \cup {t},
         \A u \in DOMAIN network' : u # t => network'[u] = network[u],
         asked' \in [Threads -> Amounts], \A u \in Threads : u # t => asked'[u] = asked[u],
         t \in DOMAIN network' => network'[t] \in Amounts /\ asked'[t] = Due(new, network'[t])
  PROVE  AccountsInv'
<1>1. /\ cpu'[c] = new /\ \A d \in Cpus : d # c => cpu'[d] = cpu[d]
      /\ cpu' = [d \in Cpus |-> cpu'[d]]
  BY DEF AccountsInv, AccountsTyped
<1>2. t # "none" /\ t \in Threads
  BY DEF Tracked
<1>3. new.thread \in {"none", t} /\ (new = Idle => new.thread = "none" /\ ~Transfers(new))
      /\ (ProgramOf(new, t) => new.thread = t)
  BY DEF Idle, ProgramOf, Transfers
<1>4. \A d \in Cpus : d # c => cpu[d].thread # t
  <2>1. CASE cpu[c].thread = t
    BY <1>2, <2>1 DEF AccountsInv, Alone
  <2>2. CASE Resting(t)
    BY <2>2 DEF Resting
  <2> QED BY <2>1, <2>2
<1>5. cpu[c].thread \in {"none", t}
  BY DEF Idle
<1>6. ProgramsTyped'
  BY <1>1 DEF AccountsInv, ProgramsTyped
<1>7. Alone'
  BY <1>1, <1>3, <1>4 DEF AccountsInv, Alone
<1>8. AccountsTyped'
  BY <1>1, <1>2 DEF AccountsInv, AccountsTyped
<1>9. ASSUME NEW u \in DOMAIN network'
      PROVE  /\ Resting(u)' => network'[u] = asked'[u]
             /\ \A d \in Cpus : cpu'[d].thread = u => asked'[u] = Due(cpu'[d], network'[u])
  <2>1. CASE u = t
    <3>1. ASSUME Resting(u)' PROVE network'[u] = asked'[u]
      <4>1. new = Idle
        BY <1>1, <1>3, <2>1, <3>1 DEF Resting
      <4> QED BY <1>3, <2>1, <4>1 DEF Due
    <3>2. ASSUME NEW d \in Cpus, cpu'[d].thread = u PROVE asked'[u] = Due(cpu'[d], network'[u])
      <4>1. d = c
        BY <1>1, <1>4, <2>1, <3>2
      <4> QED BY <1>1, <2>1, <4>1
    <3> QED BY <3>1, <3>2
  <2>2. CASE u # t
    <3>1. u \in DOMAIN network /\ network'[u] = network[u] /\ asked'[u] = asked[u] /\ u # "none"
      BY <2>2 DEF AccountsInv, AccountsTyped, Tracked
    <3>2. ASSUME Resting(u)' PROVE Resting(u)
      BY <1>1, <1>5, <2>2, <3>1, <3>2 DEF Resting
    <3>3. ASSUME NEW d \in Cpus, cpu'[d].thread = u PROVE d # c /\ cpu[d].thread = u
      BY <1>1, <1>3, <2>2, <3>1, <3>3
    <3> QED BY <1>1, <3>1, <3>2, <3>3 DEF AccountsInv, AccountsKept
  <2> QED BY <2>1, <2>2
<1> QED BY <1>6, <1>7, <1>8, <1>9 DEF AccountsInv, AccountsKept

LEMMA PlusNothing ==
  ASSUME NEW a \in Amounts, NEW way \in {"sent", "received"}
  PROVE  Plus(a, way, 0) = a
<1>1. CASE way = "sent"
  BY <1>1 DEF Plus, Amounts
<1>2. CASE way = "received"
  BY <1>2 DEF Plus, Amounts
<1> QED BY <1>1, <1>2

LEMMA EmittingOf ==
  ASSUME NEW t, NEW k, NEW b \in Nat, NEW w,
         k = "NetTransfer" /\ b > 0 => w \in {"sent", "received"}
  PROVE  /\ ProgramOf(Emitting(t, k, b, w), t)
         /\ Emitting(t, k, b, w).way = w /\ Emitting(t, k, b, w).bytes = b
         /\ (Transfers(Emitting(t, k, b, w)) <=> k = "NetTransfer" /\ b > 0)
  BY DEF Emitting, Idle, ProgramOf, Transfers

LEMMA HitAccounts ==
  ASSUME AccountsInv, NEW c \in Cpus, NEW t \in Threads,
         \/ TraceExecve(c, t) \/ TraceTcpV4Connect(c, t) \/ Uprobe(c, t) \/ Transfer(c, t)
         \/ \E k \in TracedKinds : Tracepoint(c, t, k)
         \/ \E a \in Addrs : TraceDoMmap(c, t, a)
  PROVE  AccountsInv'
<1>1. cpu[c] = Idle /\ Resting(t)
  BY DEF TraceExecve, TraceTcpV4Connect, Uprobe, Tracepoint, Transfer, TraceTransfer,
         TraceDoMmap, Hit
<1>2. t \in Tracked
  BY <1>1 DEF Resting, Idle, Tracked
<1>3. /\ DOMAIN network \subseteq Tracked /\ asked \in [Threads -> Amounts]
      /\ \A u \in DOMAIN network : network[u] \in Amounts
      /\ t \in DOMAIN network => network[t] = asked[t]
  BY <1>1 DEF AccountsInv, AccountsTyped, AccountsKept
<1>4. ASSUME NEW k, Run(c, Emitting(t, k, 0, "none")), UNCHANGED <<network, asked>>
      PROVE  AccountsInv'
  <2>1. /\ ProgramOf(Emitting(t, k, 0, "none"), t)
        /\ ~Transfers(Emitting(t, k, 0, "none"))
    BY EmittingOf
  <2>2. t \in DOMAIN network => asked[t] = Due(Emitting(t, k, 0, "none"), network[t])
    BY <1>3, <2>1 DEF Due
  <2> QED BY <1>1, <1>2, <1>3, <1>4, <2>1, <2>2, Turn DEF Run
<1>5. CASE TraceExecve(c, t)
  <2>1. CASE Limited(t)
    BY <1>5, <2>1, NoTurn DEF TraceExecve, netVars
  <2>2. CASE ~Limited(t)
    BY <1>4, <1>5, <2>2 DEF TraceExecve, netVars
  <2> QED BY <2>1, <2>2
<1>6. CASE TraceTcpV4Connect(c, t)
  <2> DEFINE new == Emitting(t, "Connect", 0, "none")
  <2>1. ProgramOf(new, t) /\ ~Transfers(new)
    BY EmittingOf
  <2>2. NoBytes \in Amounts
    BY DEF NoBytes, Amounts
  <2>3. /\ network' = Insert(network, t, NoBytes, NetworkSize)
        /\ asked' = [asked EXCEPT ![t] = NoBytes] /\ cpu' = [cpu EXCEPT ![c] = new]
    BY <1>6 DEF TraceTcpV4Connect, Run
  <2>4. /\ asked' \in [Threads -> Amounts] /\ asked'[t] = NoBytes
        /\ \A u \in Threads : u # t => asked'[u] = asked[u]
    BY <1>3, <2>2, <2>3
  <2>5. /\ DOMAIN network' \subseteq DOMAIN network \cup {t}
        /\ \A u \in DOMAIN network' : u # t => network'[u] = network[u]
        /\ t \in DOMAIN network' => network'[t] = NoBytes
    BY <2>3 DEF Insert
  <2>6. t \in DOMAIN network' => network'[t] \in Amounts /\ asked'[t] = Due(new, network'[t])
    BY <2>1, <2>2, <2>4, <2>5 DEF Due
  <2> HIDE DEF new
  <2> QED BY <1>1, <1>2, <2>1, <2>3, <2>4, <2>5, <2>6, Turn
<1>7. CASE Uprobe(c, t)
  BY <1>7, NoTurn DEF Uprobe, netVars
<1>8. ASSUME NEW k \in TracedKinds, Tracepoint(c, t, k)
      PROVE  AccountsInv'
  BY <1>4, <1>8 DEF Tracepoint, netVars
<1>9. ASSUME NEW b \in Nat, NEW way \in {"sent", "received"}, NEW done \in Nat,
             TraceTransfer(c, t, b, way, done)
      PROVE  AccountsInv'
  <2> DEFINE new == Emitting(t, "NetTransfer", b, way)
  <2>1. b \in Nat
    OBVIOUS
  <2>2. /\ ProgramOf(new, t) /\ new.way = way /\ new.bytes = b
        /\ (Transfers(new) <=> b > 0)
    BY <2>1, EmittingOf
  <2>3. /\ asked' = [asked EXCEPT ![t] = Plus(asked[t], way, b)]
        /\ network' = network /\ cpu' = [cpu EXCEPT ![c] = new]
    BY <1>9 DEF TraceTransfer, Run, Plus
  <2>4. asked[t] \in Amounts /\ Plus(asked[t], way, b) \in Amounts
    BY <1>3, <2>1, PlusTyped
  <2>5. /\ asked' \in [Threads -> Amounts] /\ asked'[t] = Plus(asked[t], way, b)
        /\ \A u \in Threads : u # t => asked'[u] = asked[u]
    BY <1>3, <2>3, <2>4
  <2>6. ASSUME t \in DOMAIN network PROVE asked'[t] = Due(new, network[t])
    <3>1. CASE b > 0
      BY <1>3, <2>2, <2>5, <2>6, <3>1 DEF Due
    <3>2. CASE b = 0
      BY <1>3, <2>2, <2>4, <2>5, <2>6, <3>2, PlusNothing DEF Due
    <3> QED BY <2>1, <3>1, <3>2
  <2> HIDE DEF new
  <2> QED BY <1>1, <1>2, <1>3, <2>2, <2>3, <2>5, <2>6, Turn
<1>10. ASSUME NEW a \in Addrs, TraceDoMmap(c, t, a)
       PROVE  AccountsInv'
  BY <1>10, NoTurn DEF TraceDoMmap, netVars
<1>11. CASE Transfer(c, t)
  BY <1>9, <1>11, OneTransfer
<1> QED BY <1>5, <1>6, <1>7, <1>8, <1>10, <1>11

LEMMA BusyProgram ==
  ASSUME AccountsInv, NEW c \in Cpus, cpu[c].pc # "idle"
  PROVE  /\ cpu[c].thread \in Tracked
         /\ ProgramOf(cpu[c], cpu[c].thread)
         /\ asked \in [Threads -> Amounts]
         /\ cpu[c].thread \in DOMAIN network =>
              /\ network[cpu[c].thread] \in Amounts
              /\ asked[cpu[c].thread] = Due(cpu[c], network[cpu[c].thread])
<1>1. cpu[c] # Idle
  BY DEF Idle
<1>2. PICK t \in Tracked : ProgramOf(cpu[c], t)
  BY <1>1 DEF AccountsInv, ProgramsTyped
<1>3. cpu[c].thread = t
  BY <1>2 DEF ProgramOf
<1> QED BY <1>2, <1>3 DEF AccountsInv, AccountsTyped, AccountsKept

(* A program goes on, or ends, with what it owes as before.                  *)
LEMMA GoesOn ==
  ASSUME AccountsInv, NEW c \in Cpus, cpu[c].pc # "idle",
         NEW new, new = Idle \/ ProgramOf(new, cpu[c].thread),
         NEW t, t = cpu[c].thread,
         t \in DOMAIN network => Due(new, network[t]) = Due(cpu[c], network[t]),
         cpu' = [cpu EXCEPT ![c] = new], UNCHANGED <<network, asked>>
  PROVE  AccountsInv'
<1>1. /\ t \in Tracked /\ asked \in [Threads -> Amounts]
      /\ t \in DOMAIN network => network[t] \in Amounts /\ asked[t] = Due(new, network[t])
  BY BusyProgram
<1>2. /\ DOMAIN network' \subseteq DOMAIN network \cup {t}
      /\ \A u \in DOMAIN network' : u # t => network'[u] = network[u]
      /\ asked' \in [Threads -> Amounts] /\ \A u \in Threads : u # t => asked'[u] = asked[u]
      /\ t \in DOMAIN network' => network'[t] \in Amounts /\ asked'[t] = Due(new, network'[t])
  BY <1>1
<1>3. (new = Idle \/ ProgramOf(new, t)) /\ (cpu[c].thread = t \/ (cpu[c] = Idle /\ Resting(t)))
  OBVIOUS
<1> QED BY <1>1, <1>2, <1>3, Turn

LEMMA ReserveAccounts ==
  ASSUME AccountsInv, Typed, NEW c \in Cpus, Reserve(c) PROVE AccountsInv'
<1>1. PICK pc \in {"count", "drop"} : pc = IF Len(ring) >= RingSize THEN "drop" ELSE "count"
  OBVIOUS
<1>2. PICK read : read = IF pc = "drop" THEN droppedBy[cpu[c].kind] ELSE counted[cpu[c].kind]
  OBVIOUS
<1>3. PICK new : new = [cpu[c] EXCEPT !.pc = pc, !.read = read]
  OBVIOUS
<1>4. /\ cpu[c].pc = "reserve" /\ UNCHANGED <<network, asked>> /\ cpu[c] \in ProgramState
      /\ cpu' = [cpu EXCEPT ![c] = new] /\ ProgramOf(cpu[c], cpu[c].thread)
  <2>1. cpu[c].pc = "reserve" /\ UNCHANGED <<network, asked>> /\ cpu[c] \in ProgramState
    BY DEF Reserve, netVars, Typed
  <2>2. cpu' = [cpu EXCEPT ![c] = new]
    BY <1>1, <1>2, <1>3 DEF Reserve
  <2> QED BY <2>1, <2>2, BusyProgram
<1>5. /\ new.pc = pc /\ new.thread = cpu[c].thread /\ new.kind = cpu[c].kind
      /\ new.bytes = cpu[c].bytes /\ new.way = cpu[c].way
  BY <1>3, <1>4 DEF ProgramState
<1>6. ProgramOf(new, cpu[c].thread)
  BY <1>1, <1>4, <1>5 DEF ProgramOf, Transfers
<1>7. \A a : Due(new, a) = Due(cpu[c], a)
  BY <1>5, Zenon DEF Due, Transfers
<1>8. PICK t : t = cpu[c].thread
  OBVIOUS
<1>9. /\ cpu[c].pc # "idle" /\ UNCHANGED <<network, asked>>
      /\ new = Idle \/ ProgramOf(new, cpu[c].thread)
      /\ t \in DOMAIN network => Due(new, network[t]) = Due(cpu[c], network[t])
      /\ cpu' = [cpu EXCEPT ![c] = new]
  BY <1>4, <1>6, <1>7
<1> QED BY <1>8, <1>9, GoesOn

(* The event is counted; then the transfer is accounted for, or all is done. *)
LEMMA WriteAccounts ==
  ASSUME AccountsInv, Typed, NEW c \in Cpus, WriteCount(c) \/ WriteDrop(c) PROVE AccountsInv'
<1>1. /\ cpu[c].pc \in {"count", "drop"} /\ UNCHANGED <<network, asked>>
      /\ cpu' = [cpu EXCEPT ![c] = AfterEmit(cpu[c])] /\ cpu[c] \in ProgramState
  BY DEF WriteCount, WriteDrop, Run, netVars, Typed
<1>2. ProgramOf(cpu[c], cpu[c].thread)
  BY <1>1, BusyProgram
<1>3. PICK new : new = AfterEmit(cpu[c])
  OBVIOUS
<1>4. CASE Transfers(cpu[c])
  <2>1. new = [cpu[c] EXCEPT !.pc = "account", !.read = 0]
    BY <1>3, <1>4 DEF AfterEmit, Transfers
  <2>2. /\ new.pc = "account" /\ new.thread = cpu[c].thread /\ new.kind = cpu[c].kind
        /\ new.bytes = cpu[c].bytes /\ new.way = cpu[c].way
    BY <1>1, <2>1 DEF ProgramState
  <2>3. ProgramOf(new, cpu[c].thread)
    BY <1>2, <1>4, <2>2 DEF ProgramOf, Transfers
  <2>4. \A a : Due(new, a) = Due(cpu[c], a)
    BY <2>2, Zenon DEF Due, Transfers
  <2> QED BY <1>1, <1>3, <2>3, <2>4, GoesOn
<1>5. CASE ~Transfers(cpu[c])
  <2>1. new = Idle /\ ~Transfers(new)
    BY <1>3, <1>5 DEF AfterEmit, Transfers, Idle
  <2>2. \A a : Due(new, a) = Due(cpu[c], a)
    BY <1>5, <2>1, Zenon DEF Due
  <2> QED BY <1>1, <1>3, <2>1, <2>2, GoesOn
<1> QED BY <1>4, <1>5

(* What is judged is what the thread asked for.                              *)
LEMMA JudgedByWhatWasAsked ==
  ASSUME AccountsInv, NEW c \in Cpus, cpu[c].pc = "account",
         cpu[c].thread \in DOMAIN network
  PROVE  /\ Updated(cpu[c].thread, cpu[c].bytes, cpu[c].way) = asked[cpu[c].thread]
         /\ asked[cpu[c].thread] \in Amounts
<1>1. PICK t : t = cpu[c].thread
  OBVIOUS
<1>2. /\ t \in Tracked /\ ProgramOf(cpu[c], t) /\ asked \in [Threads -> Amounts]
      /\ asked[t] = Due(cpu[c], network[t])
  BY <1>1, BusyProgram
<1>3. Transfers(cpu[c])
  BY <1>2 DEF ProgramOf
<1>4. asked[t] = Plus(network[t], cpu[c].way, cpu[c].bytes)
  BY <1>2, <1>3 DEF Due
<1> QED BY <1>1, <1>2, <1>4 DEF Updated, Plus, Tracked

LEMMA AccountAccounts ==
  ASSUME AccountsInv, NEW c \in Cpus, Account(c) PROVE AccountsInv'
<1>1. PICK t : t = cpu[c].thread
  OBVIOUS
<1>2. /\ cpu[c].pc = "account" /\ asked' = asked /\ t \in Tracked
      /\ asked \in [Threads -> Amounts]
  BY <1>1, BusyProgram DEF Account
<1>3. CASE t \in DOMAIN network
  <2>1. PICK a : a = asked[t]
    OBVIOUS
  <2>2. a = Updated(t, cpu[c].bytes, cpu[c].way) /\ a \in Amounts
    BY <1>1, <1>2, <1>3, <2>1, JudgedByWhatWasAsked
  <2>3. PICK new : new = IF Exfiltration(a) THEN Emitting(t, "Suspicious", 0, "alarm") ELSE Idle
    OBVIOUS
  <2>4. network' = [network EXCEPT ![t] = a] /\ cpu' = [cpu EXCEPT ![c] = new]
    BY <1>1, <1>3, <2>2, <2>3 DEF Account, Run
  <2>5. (new = Idle \/ ProgramOf(new, t)) /\ ~Transfers(new)
    BY <2>3, EmittingOf DEF Idle, Transfers
  <2>6. /\ DOMAIN network' \subseteq DOMAIN network \cup {t}
        /\ \A u \in DOMAIN network' : u # t => network'[u] = network[u]
        /\ network'[t] = a
    BY <1>3, <2>4
  <2>7. network'[t] \in Amounts /\ asked'[t] = Due(new, network'[t])
    BY <1>2, <2>1, <2>2, <2>5, <2>6 DEF Due
  <2> QED BY <1>1, <1>2, <2>4, <2>5, <2>6, <2>7, Turn
<1>4. CASE t \notin DOMAIN network
  <2>1. network' = network /\ cpu' = [cpu EXCEPT ![c] = Idle]
    BY <1>1, <1>4 DEF Account, Run
  <2> QED BY <1>1, <1>2, <1>4, <2>1, GoesOn
<1> QED BY <1>3, <1>4

(* A quotient above R is a multiple of at least R + 1.                       *)
LEMMA QuotientAbove ==
  ASSUME NEW s \in Nat, NEW r \in Nat, r > 0, NEW R \in Nat
  PROVE  s \div r > R <=> s >= (R + 1) * r
<1>1. PICK q \in Nat : q = s \div r
  OBVIOUS
<1>2. q * r <= s /\ s < (q + 1) * r
  BY <1>1
<1>3. ASSUME q >= R + 1 PROVE q * r >= (R + 1) * r
  BY <1>3
<1>4. ASSUME q < R + 1 PROVE (q + 1) * r <= (R + 1) * r
  BY <1>4
<1>5. q * r \in Nat /\ (q + 1) * r \in Nat /\ (R + 1) * r \in Nat
  OBVIOUS
<1> QED BY <1>1, <1>2, <1>3, <1>4, <1>5

LEMMA AlarmsAreRight ==
  ASSUME NEW a \in Amounts
  PROVE  /\ Exfiltration(a) => LargeUpload(a.sent) \/ OverTenToOne(a)
         /\ LargeUpload(a.sent) \/ ElevenToOne(a) => Exfiltration(a)
<1>1. a.sent \in Nat /\ a.received \in Nat /\ ExfilRatio \in Nat
  BY ProbesAssumption DEF Amounts
<1>2. CASE a.received > 0
  <2>1. a.sent \div a.received > ExfilRatio <=> a.sent >= (ExfilRatio + 1) * a.received
    BY <1>1, <1>2, QuotientAbove
  <2>2. a.sent >= (ExfilRatio + 1) * a.received => a.sent > ExfilRatio * a.received
    <3>1. (ExfilRatio + 1) * a.received = ExfilRatio * a.received + a.received
      BY SMTT(60), <1>1
    <3>2. ExfilRatio * a.received \in Nat
      BY <1>1
    <3> QED BY <1>1, <1>2, <3>1, <3>2
  <2> QED BY <1>2, <2>1, <2>2, Zenon DEF Exfiltration, LargeUpload, OverTenToOne, ElevenToOne
<1>3. CASE ~(a.received > 0)
  BY <1>3, Zenon DEF Exfiltration, LargeUpload, OverTenToOne, ElevenToOne
<1> QED BY <1>2, <1>3

(* No more was sent than was asked to be.                                    *)
UploadsWithinAsked ==
  /\ uploaded \in [Threads -> Nat]
  /\ \A t \in Threads : uploaded[t] <= asked[t].sent

LEMMA UploadsStay ==
  ASSUME UploadsWithinAsked, uploaded' = uploaded, asked' = asked
  PROVE  UploadsWithinAsked'
  BY DEF UploadsWithinAsked

LEMMA TransferUploads ==
  ASSUME AccountsInv, UploadsWithinAsked, NEW c \in Cpus, NEW t \in Threads, Transfer(c, t)
  PROVE  UploadsWithinAsked'
<1>1. PICK b \in Nat, way \in {"sent", "received"}, done \in Nat :
        /\ TraceTransfer(c, t, b, way, done)
        /\ done <= IF way = "sent" THEN b ELSE 0
  BY OneTransfer
<1>2. /\ asked \in [Threads -> Amounts] /\ uploaded \in [Threads -> Nat]
      /\ uploaded[t] <= asked[t].sent
  BY DEF AccountsInv, AccountsTyped, UploadsWithinAsked
<1>3. asked[t] \in Amounts /\ asked[t].sent \in Nat /\ uploaded[t] \in Nat
  BY <1>2 DEF Amounts
<1>4. asked' = [asked EXCEPT ![t] = Plus(asked[t], way, b)]
      /\ uploaded' = [uploaded EXCEPT ![t] = uploaded[t] + done]
  BY <1>1 DEF TraceTransfer, Plus
<1>5. uploaded' \in [Threads -> Nat] /\ uploaded'[t] = uploaded[t] + done
      /\ asked'[t] = Plus(asked[t], way, b)
      /\ \A u \in Threads : u # t => uploaded'[u] = uploaded[u] /\ asked'[u] = asked[u]
  BY <1>2, <1>3, <1>4
<1>6. Plus(asked[t], way, b).sent = IF way = "sent" THEN asked[t].sent + b ELSE asked[t].sent
  BY <1>3 DEF Plus, Amounts
<1>7. uploaded'[t] <= asked'[t].sent
  <2>1. CASE way = "sent"
    BY <1>1, <1>2, <1>3, <1>5, <1>6, <2>1
  <2>2. CASE way = "received"
    BY <1>1, <1>2, <1>3, <1>5, <1>6, <2>2
  <2> QED BY <2>1, <2>2
<1> QED BY <1>5, <1>7 DEF UploadsWithinAsked

LEMMA NextUploads == AccountsInv /\ UploadsWithinAsked /\ [Next]_vars => UploadsWithinAsked'
<1> SUFFICES ASSUME AccountsInv, UploadsWithinAsked, [Next]_vars PROVE UploadsWithinAsked'
  OBVIOUS
<1>1. ASSUME NEW c \in Cpus, NEW t \in Threads, TraceTcpV4Connect(c, t)
      PROVE  UploadsWithinAsked'
  <2>1. /\ asked' = [asked EXCEPT ![t] = NoBytes] /\ asked \in [Threads -> Amounts]
        /\ uploaded' = [uploaded EXCEPT ![t] = 0]
    BY <1>1 DEF TraceTcpV4Connect, AccountsInv, AccountsTyped
  <2> QED BY <2>1 DEF UploadsWithinAsked, NoBytes
<1>2. ASSUME NEW c \in Cpus, NEW t \in Threads, Transfer(c, t)
      PROVE  UploadsWithinAsked'
  BY <1>2, TransferUploads
<1>3. ASSUME NEW c \in Cpus, NEW t \in Threads,
             \/ TraceExecve(c, t) \/ Uprobe(c, t)
             \/ \E k \in TracedKinds : Tracepoint(c, t, k)
             \/ \E a \in Addrs : TraceDoMmap(c, t, a)
      PROVE  UploadsWithinAsked'
  <2>1. uploaded' = uploaded /\ asked' = asked
    BY <1>3 DEF TraceExecve, Uprobe, Tracepoint, TraceDoMmap, netVars
  <2> QED BY <2>1, UploadsStay
<1>4. ASSUME NEW c \in Cpus, Program(c) PROVE UploadsWithinAsked'
  <2>1. uploaded' = uploaded /\ asked' = asked
    BY <1>4 DEF Program, Reserve, WriteCount, WriteDrop, Account, netVars
  <2> QED BY <2>1, UploadsStay
<1>5. CASE Consume
  BY <1>5, UploadsStay DEF Consume, netVars
<1>6. CASE Tick
  BY <1>6, UploadsStay DEF Tick, netVars
<1>7. CASE UNCHANGED vars
  BY <1>7, UploadsStay DEF vars, netVars
<1> QED BY <1>1, <1>2, <1>3, <1>4, <1>5, <1>6, <1>7 DEF Next

LEMMA AlarmStep ==
  ASSUME AccountsInv, UploadsWithinAsked, NEW c \in Cpus, Account(c),
         cpu[c].thread \in DOMAIN network,
         NEW a, a = asked[cpu[c].thread], NEW n, n = uploaded[cpu[c].thread]
  PROVE  /\ cpu'[c].way = "alarm" => LargeUpload(a.sent) \/ OverTenToOne(a)
         /\ LargeUpload(n) \/ ElevenToOne(a) => cpu'[c].way = "alarm"
<1>1. PICK t : t = cpu[c].thread
  OBVIOUS
<1>2. a = Updated(t, cpu[c].bytes, cpu[c].way) /\ a \in Amounts
  BY <1>1, JudgedByWhatWasAsked DEF Account
<1>3. cpu' = [cpu EXCEPT ![c] = IF Exfiltration(a) THEN Emitting(t, "Suspicious", 0, "alarm")
                                                  ELSE Idle]
  BY <1>1, <1>2 DEF Account, Run
<1>4. cpu'[c] = IF Exfiltration(a) THEN Emitting(t, "Suspicious", 0, "alarm") ELSE Idle
  BY <1>3 DEF AccountsInv, AccountsTyped
<1>5. Idle.way # "alarm" /\ Emitting(t, "Suspicious", 0, "alarm").way = "alarm"
  BY DEF Idle, Emitting
<1>6. t \in Threads
  BY <1>1 DEF AccountsInv, AccountsTyped, Tracked
<1>7. n \in Nat /\ a.sent \in Nat /\ n <= a.sent /\ LargeTransfer \in Nat
  BY <1>1, <1>2, <1>6, ProbesAssumption DEF UploadsWithinAsked, Amounts
<1>8. LargeUpload(n) => LargeUpload(a.sent)
  BY <1>7 DEF LargeUpload
<1> QED BY <1>2, <1>4, <1>5, <1>8, AlarmsAreRight

LEMMA NextAccounts == Typed /\ AccountsInv /\ [Next]_vars => AccountsInv'
<1> SUFFICES ASSUME Typed, AccountsInv, [Next]_vars PROVE AccountsInv'
  OBVIOUS
<1>1. ASSUME NEW c \in Cpus, NEW t \in Threads,
             \/ TraceExecve(c, t) \/ TraceTcpV4Connect(c, t) \/ Uprobe(c, t) \/ Transfer(c, t)
             \/ \E k \in TracedKinds : Tracepoint(c, t, k)
             \/ \E a \in Addrs : TraceDoMmap(c, t, a)
      PROVE  AccountsInv'
  BY <1>1, HitAccounts
<1>2. ASSUME NEW c \in Cpus, Program(c) PROVE AccountsInv'
  BY <1>2, ReserveAccounts, WriteAccounts, AccountAccounts DEF Program
<1>3. CASE Consume
  BY <1>3, NoTurn DEF Consume, netVars
<1>4. CASE Tick
  BY <1>4, NoTurn DEF Tick, netVars
<1>5. CASE UNCHANGED vars
  BY <1>5, NoTurn DEF vars, netVars
<1> QED BY <1>1, <1>2, <1>3, <1>4, <1>5 DEF Next

LEMMA AlarmsMatch ==
  AccountsInv /\ UploadsWithinAsked =>
    \A c \in Cpus :
      Account(c) /\ cpu[c].thread \in DOMAIN network =>
        LET a == asked[cpu[c].thread]
            n == uploaded[cpu[c].thread]
        IN /\ cpu'[c].way = "alarm" => LargeUpload(a.sent) \/ OverTenToOne(a)
           /\ LargeUpload(n) \/ ElevenToOne(a) => cpu'[c].way = "alarm"
  BY AlarmStep

-----------------------------------------------------------------------------
(* The libraries a thread has loaded. What it mapped is in LIBRARY_SEEN as   *)
(* long as there has been room for all that was mapped.                      *)
CountRight(t) ==
  /\ LibraryCount(t) >= Cardinality(mapped[t])
  /\ Cardinality(AllMapped) <= SeenSize => LibraryCount(t) = Cardinality(mapped[t])

LibrariesInv ==
  /\ \A t \in Threads : IsFiniteSet(mapped[t])
  /\ mapped = [t \in Threads |-> mapped[t]]
  /\ IsFiniteSet(AllMapped)
  /\ seen \subseteq AllMapped
  /\ Cardinality(AllMapped) <= SeenSize => seen = AllMapped
  /\ DOMAIN libraries \subseteq Threads
  /\ \A t \in DOMAIN libraries : libraries[t] \in Nat
  /\ \A t \in Threads : CountRight(t)

LEMMA InitLibraries == Init => LibrariesInv
<1> SUFFICES ASSUME Init PROVE LibrariesInv
  OBVIOUS
<1>1. /\ mapped = [t \in Threads |-> {}] /\ seen = {} /\ DOMAIN libraries = {}
      /\ \A t \in Threads : mapped[t] = {}
  BY DEF Init
<1>2. AllMapped = {}
  BY <1>1 DEF AllMapped
<1>3. IsFiniteSet({}) /\ Cardinality({}) = 0
  BY FS_EmptySet
<1>4. \A t \in Threads : CountRight(t)
  BY <1>1, <1>3 DEF CountRight, LibraryCount
<1> QED BY <1>1, <1>2, <1>3, <1>4 DEF LibrariesInv

LEMMA NoMmap ==
  ASSUME LibrariesInv, UNCHANGED libVars
  PROVE  LibrariesInv'
<1>1. seen' = seen /\ libraries' = libraries /\ mapped' = mapped
  BY DEF libVars
<1>2. AllMapped' = AllMapped
  BY <1>1 DEF AllMapped
<1>3. \A t \in Threads : CountRight(t)'
  BY <1>1, <1>2 DEF LibrariesInv, CountRight, LibraryCount
<1> QED BY <1>1, <1>2, <1>3 DEF LibrariesInv

(* LIBRARY_COUNT has room for each thread.                                   *)
LEMMA RoomForCounts ==
  ASSUME LibrariesInv, NEW t \in Threads, t \notin DOMAIN libraries
  PROVE  Cardinality(DOMAIN libraries) < Cardinality(Threads)
<1>1. IsFiniteSet(Threads) /\ DOMAIN libraries \in SUBSET (Threads \ {t})
  BY ProbesAssumption DEF LibrariesInv
<1>2. /\ IsFiniteSet(Threads \ {t}) /\ Cardinality(Threads) \in Nat
      /\ Cardinality(Threads \ {t}) = Cardinality(Threads) - 1
  BY <1>1, FS_RemoveElement, FS_CardinalityType
<1>3. /\ Cardinality(DOMAIN libraries) <= Cardinality(Threads \ {t})
      /\ IsFiniteSet(DOMAIN libraries)
  BY <1>1, <1>2, FS_Subset
<1>4. Cardinality(DOMAIN libraries) \in Nat
  BY <1>3, FS_CardinalityType
<1> QED BY <1>2, <1>3, <1>4

LEMMA MmapCounted ==
  ASSUME LibrariesInv, NEW c \in Cpus, NEW t \in Threads, NEW a \in Addrs, TraceDoMmap(c, t, a)
  PROVE  LibrariesInv'
<1>1. mapped' = [mapped EXCEPT ![t] = mapped[t] \cup {a}]
  BY DEF TraceDoMmap
<1>2. /\ mapped'[t] = mapped[t] \cup {a} /\ \A u \in Threads : u # t => mapped'[u] = mapped[u]
      /\ mapped' = [u \in Threads |-> mapped'[u]]
  BY <1>1 DEF LibrariesInv
<1>3. AllMapped' = AllMapped \cup {<<t, a>>}
  <2>1. \A u, x : <<u, x>> \in AllMapped <=> u \in Threads /\ x \in mapped[u]
    BY DEF AllMapped
  <2>2. \A u, x : <<u, x>> \in AllMapped' <=> u \in Threads /\ x \in mapped'[u]
    BY DEF AllMapped
  <2>3. \A p \in AllMapped : \E u, x : p = <<u, x>>
    BY DEF AllMapped
  <2>4. \A p \in AllMapped' : \E u, x : p = <<u, x>>
    BY DEF AllMapped
  <2>5. ASSUME NEW p \in AllMapped' PROVE p \in AllMapped \cup {<<t, a>>}
    <3>1. PICK u, x : p = <<u, x>>
      BY <2>4
    <3>2. u \in Threads /\ x \in mapped'[u]
      BY <2>2, <3>1
    <3>3. CASE u = t /\ x = a
      BY <3>1, <3>3
    <3>4. CASE ~(u = t /\ x = a)
      <4>1. x \in mapped[u]
        BY <1>2, <3>2, <3>4
      <4> QED BY <2>1, <3>1, <3>2, <4>1
    <3> QED BY <3>3, <3>4
  <2>6. ASSUME NEW p \in AllMapped PROVE p \in AllMapped'
    <3>1. PICK u, x : p = <<u, x>>
      BY <2>3
    <3>2. u \in Threads /\ x \in mapped[u]
      BY <2>1, <3>1
    <3>3. x \in mapped'[u]
      BY <1>2, <3>2
    <3> QED BY <2>2, <3>1, <3>2, <3>3
  <2>7. <<t, a>> \in AllMapped'
    BY <1>2, <2>2
  <2> QED BY <2>5, <2>6, <2>7
<1>4. /\ IsFiniteSet(mapped[t]) /\ Cardinality(mapped[t]) \in Nat
      /\ IsFiniteSet(mapped'[t])
      /\ Cardinality(mapped'[t]) = IF a \in mapped[t] THEN Cardinality(mapped[t])
                                                     ELSE Cardinality(mapped[t]) + 1
  BY <1>2, FS_AddElement, FS_CardinalityType DEF LibrariesInv
<1>5. /\ IsFiniteSet(AllMapped) /\ Cardinality(AllMapped) \in Nat
      /\ IsFiniteSet(AllMapped')
      /\ Cardinality(AllMapped') = IF <<t, a>> \in AllMapped THEN Cardinality(AllMapped)
                                                            ELSE Cardinality(AllMapped) + 1
  BY <1>3, FS_AddElement, FS_CardinalityType DEF LibrariesInv
<1>6. <<t, a>> \in AllMapped <=> a \in mapped[t]
  BY DEF AllMapped
<1>7. LibraryCount(t) \in Nat /\ SeenSize \in Nat
  BY ProbesAssumption DEF LibraryCount, LibrariesInv
<1>8. /\ LibraryCount(t) >= Cardinality(mapped[t])
      /\ Cardinality(AllMapped) <= SeenSize =>
           seen = AllMapped /\ LibraryCount(t) = Cardinality(mapped[t])
  BY DEF LibrariesInv, CountRight
<1>9. \A u \in Threads : IsFiniteSet(mapped'[u])
  BY <1>2, <1>4 DEF LibrariesInv
<1>10. CASE Seen(t, a)
  <2>1. seen' = seen /\ libraries' = libraries
    BY <1>10 DEF TraceDoMmap
  <2>2. <<t, a>> \in AllMapped /\ a \in mapped[t] /\ AllMapped' = AllMapped
    BY <1>3, <1>6, <1>10 DEF Seen, LibrariesInv
  <2>3. mapped'[t] = mapped[t]
    BY <1>2, <2>2
  <2>4. \A u \in Threads : CountRight(u)'
    BY <1>2, <2>1, <2>2, <2>3 DEF LibrariesInv, CountRight, LibraryCount
  <2> QED BY <1>2, <1>5, <1>9, <2>1, <2>2, <2>4 DEF LibrariesInv
<1>11. CASE ~Seen(t, a)
  <2>1. /\ seen' = IF Cardinality(seen) < SeenSize THEN seen \cup {<<t, a>>} ELSE seen
        /\ libraries' = Insert(libraries, t, CountLibrary(t), Cardinality(Threads))
    BY <1>11 DEF TraceDoMmap
  <2>2. t \in DOMAIN libraries \/ Cardinality(DOMAIN libraries) < Cardinality(Threads)
    BY RoomForCounts
  <2>3. /\ DOMAIN libraries' = DOMAIN libraries \cup {t}
        /\ libraries'[t] = CountLibrary(t)
        /\ \A u \in DOMAIN libraries : u # t => libraries'[u] = libraries[u]
    BY <2>1, <2>2 DEF Insert
  <2>4. CountLibrary(t) = LibraryCount(t) + 1
    BY DEF CountLibrary, LibraryCount
  <2>5. /\ LibraryCount(t)' = LibraryCount(t) + 1
        /\ \A u \in Threads : u # t => LibraryCount(u)' = LibraryCount(u)
    BY <2>3, <2>4 DEF LibraryCount
  <2>6. ASSUME Cardinality(AllMapped') <= SeenSize
        PROVE  seen' = AllMapped' /\ a \notin mapped[t] /\ Cardinality(AllMapped) <= SeenSize
    <3>1. Cardinality(AllMapped) <= SeenSize
      BY <1>5, <1>7, <2>6
    <3>2. seen = AllMapped
      BY <1>8, <3>1
    <3>3. <<t, a>> \notin AllMapped
      BY <1>11, <3>2 DEF Seen
    <3>4. Cardinality(seen) < SeenSize
      BY <1>5, <1>7, <2>6, <3>2, <3>3
    <3> QED BY <1>3, <1>6, <2>1, <3>1, <3>2, <3>3, <3>4
  <2>7. CountRight(t)'
    <3>1. LibraryCount(t)' >= Cardinality(mapped'[t])
      BY <1>4, <1>7, <1>8, <2>5
    <3>2. ASSUME Cardinality(AllMapped') <= SeenSize
          PROVE  LibraryCount(t)' = Cardinality(mapped'[t])
      BY <1>4, <1>7, <1>8, <2>5, <2>6, <3>2
    <3> QED BY <3>1, <3>2 DEF CountRight
  <2>8. ASSUME NEW u \in Threads, u # t PROVE CountRight(u)'
    <3>1. mapped'[u] = mapped[u] /\ LibraryCount(u)' = LibraryCount(u)
      BY <1>2, <2>5, <2>8
    <3>2. CountRight(u)
      BY DEF LibrariesInv
    <3> QED BY <2>6, <3>1, <3>2 DEF CountRight
  <2>9. seen' \subseteq AllMapped'
    BY <1>3, <2>1 DEF LibrariesInv
  <2>10. DOMAIN libraries' \subseteq Threads /\ \A u \in DOMAIN libraries' : libraries'[u] \in Nat
    BY <1>7, <2>3, <2>4 DEF LibrariesInv
  <2> QED BY <1>2, <1>5, <1>9, <2>6, <2>7, <2>8, <2>9, <2>10 DEF LibrariesInv
<1> QED BY <1>10, <1>11

LEMMA NextLibraries == LibrariesInv /\ [Next]_vars => LibrariesInv'
<1> SUFFICES ASSUME LibrariesInv, [Next]_vars PROVE LibrariesInv'
  OBVIOUS
<1>1. ASSUME NEW c \in Cpus, NEW t \in Threads, NEW a \in Addrs, TraceDoMmap(c, t, a)
      PROVE  LibrariesInv'
  BY <1>1, MmapCounted
<1>2. ASSUME NEW c \in Cpus, NEW t \in Threads,
             \/ TraceExecve(c, t) \/ TraceTcpV4Connect(c, t) \/ Uprobe(c, t) \/ Transfer(c, t)
             \/ \E k \in TracedKinds : Tracepoint(c, t, k)
      PROVE  LibrariesInv'
  <2>1. UNCHANGED libVars
    BY <1>2 DEF TraceExecve, TraceTcpV4Connect, Uprobe, Tracepoint, Transfer, TraceTransfer
  <2> QED BY <2>1, NoMmap
<1>3. ASSUME NEW c \in Cpus, Program(c) PROVE LibrariesInv'
  <2>1. UNCHANGED libVars
    BY <1>3 DEF Program, Reserve, WriteCount, WriteDrop, Account
  <2> QED BY <2>1, NoMmap
<1>4. CASE Consume
  BY <1>4, NoMmap DEF Consume
<1>5. CASE Tick
  BY <1>5, NoMmap DEF Tick
<1>6. CASE UNCHANGED vars
  BY <1>6, NoMmap DEF vars
<1> QED BY <1>1, <1>2, <1>3, <1>4, <1>5, <1>6 DEF Next

LEMMA TablesExact == AccountsInv /\ LibrariesInv => ThreadTablesExact
  BY DEF AccountsInv, AccountsKept, LibrariesInv, CountRight, ThreadTablesExact

(* Between two programs of a thread its tables say what it did; it is        *)
(* alarmed about when it really sent too much since it connected, or asked   *)
(* for eleven bytes out to one in, and only when what it asked to send was   *)
(* too much or more than ten to one. (update_data_transfer,                  *)
(* check_exfiltration of network.rs, trace_do_mmap of libraries.rs)          *)
THEOREM ThreadsAreJudgedRightly == Spec => ThreadsJudgedRightly
<1>1. Spec => []CountersInv
  BY InitCounters, NextCounters, PTL DEF Spec
<1>2. CountersInv => Typed
  BY DEF CountersInv
<1>3. Spec => []AccountsInv
  BY <1>1, <1>2, InitAccounts, NextAccounts, PTL DEF Spec
<1>4. Spec => []LibrariesInv
  BY InitLibraries, NextLibraries, PTL DEF Spec
<1>5. Spec => []ThreadTablesExact
  BY <1>3, <1>4, TablesExact, PTL
<1>6. Init => UploadsWithinAsked
  BY DEF Init, UploadsWithinAsked, NoBytes
<1>7. Spec => []UploadsWithinAsked
  BY <1>3, <1>6, NextUploads, PTL DEF Spec
<1>8. Spec => AlarmsMatchTransfers
  BY <1>3, <1>7, AlarmsMatch, PTL DEF AlarmsMatchTransfers
<1> QED BY <1>5, <1>8, PTL DEF ThreadsJudgedRightly
=============================================================================
