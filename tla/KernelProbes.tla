---------------------------- MODULE KernelProbes ----------------------------
(***************************************************************************)
(* The eBPF programs in the kernel (scanner-ebpf): the tracepoints, kprobes *)
(* and uprobes that watch the threads, what each keeps in its maps, and     *)
(* emit_event, by which all but the uprobes write to the ring.              *)
(*                                                                         *)
(* A CPU runs one program at a time, for the thread that is on it; the      *)
(* programs of different CPUs interleave between any two map operations.   *)
(* A map operation is atomic. The entry of a map that belongs to a thread   *)
(* is touched by that thread's programs only, so steps that touch nothing   *)
(* else are taken with the one before them.                                *)
(***************************************************************************)
EXTENDS Naturals, Sequences, FiniteSets

CONSTANTS
  Cpus, Threads,
  Addrs,         (* what do_mmap is asked to map at                          *)
  Uploads,       (* bytes one send may ask to move                           *)
  Downloads,     (* bytes one receive may ask for                            *)
  TracedKinds,   (* kinds the plain tracepoints emit                         *)
  RingSize,      (* entries of SECURITY_EVENTS (4096 in the code)            *)
  LimiterSize,   (* entries of LAST_EVENT (100000)                           *)
  SeenSize,      (* entries of LIBRARY_SEEN (100000)                         *)
  NetworkSize,   (* entries of PROCESS_NETWORK (10000)                       *)
  Second,        (* the execve limit: one event per thread in this time      *)
  ExfilRatio, ExfilBytes, LargeTransfer, (* thresholds of check_exfiltration *)
  MaxTime,       (* bound: the clock                                         *)
  MaxCalls       (* bound: program runs                                      *)

Kinds == {"Exec", "File", "Mmap", "Connect", "NetTransfer", "Suspicious"}

ASSUME ProbesAssumption ==
  /\ IsFiniteSet(Cpus) /\ IsFiniteSet(Threads)
  /\ TracedKinds \subseteq Kinds \ {"Exec"}
  /\ Uploads \subseteq Nat /\ Downloads \subseteq Nat
  /\ {LimiterSize, SeenSize, NetworkSize, Second, MaxTime, MaxCalls,
      ExfilRatio, ExfilBytes, LargeTransfer} \subseteq Nat
  /\ RingSize \in Nat \ {0}
  /\ "ready" \notin Cpus

VARIABLES
  now,        (* bpf_ktime_get_ns                                            *)
  calls,      (* program runs so far                                         *)
  cpu,        (* what each CPU is doing                                      *)
  ring,       (* SECURITY_EVENTS: "ready", or the CPU that has reserved it   *)
  counted,    (* EVENT_COUNT_BY_KIND                                         *)
  droppedBy,  (* DROPPED_BY_KIND                                             *)
  lastEvent,  (* LAST_EVENT                                                  *)
  seen,       (* LIBRARY_SEEN: <<thread, address>>                           *)
  libraries,  (* LIBRARY_COUNT                                               *)
  network,    (* PROCESS_NETWORK: bytes sent and received                    *)
  outcomes,   (* history: events submitted and overrun, by kind              *)
  raced,      (* history: counters that two CPUs have updated at once        *)
  execs,      (* history: per thread, its execs: when, and past the limiter?  *)
  lost,       (* history: execs past the limiter that found the ring full:   *)
              (* <<thread, its number among the thread's execs>>             *)
  mapped,     (* history: per thread, the addresses it mapped                *)
  asked,      (* history: per thread, bytes its transfers asked to move since *)
              (* its last IPv4 connect                                       *)
  uploaded    (* history: per thread, what was really sent of them           *)

emitVars  == <<ring, counted, droppedBy, outcomes, raced>>
execVars  == <<lastEvent, execs, lost>>
libVars   == <<seen, libraries, mapped>>
netVars   == <<network, asked, uploaded>>
vars == <<now, calls, cpu, emitVars, execVars, libVars, netVars>>

Idle == [pc |-> "idle", thread |-> "none", kind |-> "none", bytes |-> 0,
         way |-> "none", read |-> 0]

(* A program that is about to emit an event of this kind, then to account   *)
(* for a transfer of so many bytes.                                         *)
Emitting(t, kind, bytes, way) ==
  [Idle EXCEPT !.pc = "reserve", !.thread = t, !.kind = kind, !.bytes = bytes,
               !.way = way]

NoBytes == [sent |-> 0, received |-> 0]
Zeros   == [k \in Kinds |-> 0]

(* HashMap::insert: a map that is full takes no new key.                    *)
Insert(map, key, value, size) ==
  IF key \in DOMAIN map \/ Cardinality(DOMAIN map) < size
    THEN [k \in DOMAIN map \cup {key} |-> IF k = key THEN value ELSE map[k]]
    ELSE map
-----------------------------------------------------------------------------
Init ==
  /\ now = 0
  /\ calls = 0
  /\ cpu = [c \in Cpus |-> Idle]
  /\ ring = <<>>
  /\ counted = Zeros
  /\ droppedBy = Zeros
  /\ lastEvent = <<>>
  /\ seen = {}
  /\ libraries = <<>>
  /\ network = <<>>
  /\ outcomes = [submitted |-> Zeros, overrun |-> Zeros]
  /\ raced = {}
  /\ execs = [t \in Threads |-> <<>>]
  /\ lost = {}
  /\ mapped = [t \in Threads |-> {}]
  /\ asked = [t \in Threads |-> NoBytes]
  /\ uploaded = [t \in Threads |-> 0]
-----------------------------------------------------------------------------
(* A program is hit on a CPU; a thread is on one CPU at a time.             *)
Resting(t) == \A c \in Cpus : cpu[c].thread # t

Hit(c, t) ==
  /\ cpu[c] = Idle
  /\ Resting(t)
  /\ calls < MaxCalls
  /\ calls' = calls + 1

Run(c, what) == cpu' = [cpu EXCEPT ![c] = what]

(* trace_enter_execve. The entry of LAST_EVENT is written before the event  *)
(* is; whether that finds room in the ring (Reserve) is not asked.          *)
Limited(t) == t \in DOMAIN lastEvent /\ now - lastEvent[t] <= Second

(* Faulty: a suppressed exec prolongs the silence. *)
TraceExecveProlonging(c, t) ==
  /\ Hit(c, t)
  /\ execs' = [execs EXCEPT ![t] = Append(@, [at |-> now, passed |-> ~Limited(t)])]
  /\ lastEvent' = Insert(lastEvent, t, now, LimiterSize)
  /\ IF Limited(t) THEN UNCHANGED cpu ELSE Run(c, Emitting(t, "Exec", 0, "none"))
  /\ UNCHANGED <<now, lost, emitVars, libVars, netVars>>

TraceExecve(c, t) ==
  /\ Hit(c, t)
  /\ execs' = [execs EXCEPT ![t] = Append(@, [at |-> now, passed |-> ~Limited(t)])]
  /\ IF Limited(t)
       THEN UNCHANGED <<cpu, lastEvent>>
       ELSE /\ lastEvent' = Insert(lastEvent, t, now, LimiterSize)
            /\ Run(c, Emitting(t, "Exec", 0, "none"))
  /\ UNCHANGED <<now, lost, emitVars, libVars, netVars>>

(* The other tracepoints emit one event and keep nothing: openat, mmap,     *)
(* mprotect (Suspicious when it asks for writable and executable memory),   *)
(* connect, sendto, recvfrom; tcp_v6_connect and tcp_close as well.         *)
Tracepoint(c, t, kind) ==
  /\ Hit(c, t)
  /\ Run(c, Emitting(t, kind, 0, "none"))
  /\ UNCHANGED <<now, emitVars, execVars, libVars, netVars>>

(* trace_tcp_v4_connect: track_tcp_connect starts the thread's account      *)
(* anew. (CONNECTIONS is written there and read nowhere.)                   *)
TraceTcpV4Connect(c, t) ==
  /\ Hit(c, t)
  /\ network' = Insert(network, t, NoBytes, NetworkSize)
  /\ asked' = [asked EXCEPT ![t] = NoBytes]
  /\ uploaded' = [uploaded EXCEPT ![t] = 0]
  /\ Run(c, Emitting(t, "Connect", 0, "none"))
  /\ UNCHANGED <<now, emitVars, execVars, libVars>>

(* The sendmsg and recvmsg kprobes of TCP and UDP: emit_network_event. They *)
(* run when the call is entered and see the size it asks for; the call then *)
(* moves some of it; done is what it sends.                                 *)
TraceTransfer(c, t, bytes, way, done) ==
  /\ Hit(c, t)
  /\ asked' = [asked EXCEPT ![t][way] = @ + bytes]
  /\ uploaded' = [uploaded EXCEPT ![t] = @ + done]
  /\ Run(c, Emitting(t, "NetTransfer", bytes, way))
  /\ UNCHANGED <<now, emitVars, execVars, libVars, network>>

(* What a send that asks for b bytes may really move.                       *)
Sent(b) == {n \in Uploads \cup {0} : n <= b}

Transfer(c, t) ==
  \/ \E b \in Uploads : \E done \in Sent(b) : TraceTransfer(c, t, b, "sent", done)
  \/ \E b \in Downloads : TraceTransfer(c, t, b, "received", 0)

(* The uprobes of usdt.rs: an output that finds no room is lost, and        *)
(* neither outcome is counted.                                              *)
Uprobe(c, t) ==
  /\ Hit(c, t)
  /\ ring' = IF Len(ring) < RingSize THEN Append(ring, "ready") ELSE ring
  /\ UNCHANGED <<now, cpu, counted, droppedBy, outcomes, raced, execVars, libVars,
                 netVars>>

(* trace_do_mmap; all three inserts are best effort. LIBRARY_COUNT is taken *)
(* to have room, and LOADED_LIBRARIES is read nowhere.                      *)
Seen(t, a) == <<t, a>> \in seen

CountLibrary(t) == IF t \in DOMAIN libraries THEN libraries[t] + 1 ELSE 1

TraceDoMmap(c, t, a) ==
  /\ Hit(c, t)
  /\ mapped' = [mapped EXCEPT ![t] = @ \cup {a}]
  /\ IF Seen(t, a)
       THEN UNCHANGED <<seen, libraries>>
       ELSE /\ seen' = IF Cardinality(seen) < SeenSize THEN seen \cup {<<t, a>>} ELSE seen
            /\ libraries' = Insert(libraries, t, CountLibrary(t), Cardinality(Threads))
  /\ UNCHANGED <<now, cpu, emitVars, execVars, netVars>>
-----------------------------------------------------------------------------
(* emit_event.                                                              *)
Counter(full, kind) == <<IF full THEN "dropped" ELSE "counted", kind>>

(* The counters some CPU has read and not yet written back.                 *)
Held(c) == IF cpu[c].pc \in {"count", "drop"}
             THEN {Counter(cpu[c].pc = "drop", cpu[c].kind)} ELSE {}

(* The exec a thread is in.                                                 *)
LastExec(t) == <<t, Len(execs[t])>>

(* The entry is reserved, or not, and the counter is read; nothing else     *)
(* happens in between that anyone can see.                                  *)
Reserve(c) ==
  /\ cpu[c].pc = "reserve"
  /\ LET full == Len(ring) >= RingSize
         k    == cpu[c].kind
     IN /\ ring' = IF full THEN ring ELSE Append(ring, c)
        /\ outcomes' = IF full THEN [outcomes EXCEPT !.overrun[k] = @ + 1]
                               ELSE [outcomes EXCEPT !.submitted[k] = @ + 1]
        /\ raced' = raced \cup (IF \E d \in Cpus : Counter(full, k) \in Held(d)
                                  THEN {Counter(full, k)} ELSE {})
        /\ cpu' = [cpu EXCEPT ![c].pc = IF full THEN "drop" ELSE "count",
                              ![c].read = IF full THEN droppedBy[k] ELSE counted[k]]
        /\ lost' = lost \cup (IF full /\ k = "Exec" THEN {LastExec(cpu[c].thread)} ELSE {})
  /\ UNCHANGED <<now, calls, counted, droppedBy, lastEvent, execs, libVars, netVars>>

(* What follows the event: the account of a transfer, or nothing.           *)
AfterEmit(p) == IF p.kind = "NetTransfer" /\ p.bytes > 0
                  THEN [p EXCEPT !.pc = "account", !.read = 0] ELSE Idle

Submit(c) == [i \in DOMAIN ring |-> IF ring[i] = c THEN "ready" ELSE ring[i]]

WriteCount(c) ==
  /\ cpu[c].pc = "count"
  /\ counted' = [counted EXCEPT ![cpu[c].kind] = cpu[c].read + 1]
  /\ ring' = Submit(c)
  /\ Run(c, AfterEmit(cpu[c]))
  /\ UNCHANGED <<now, calls, droppedBy, outcomes, raced, execVars, libVars, netVars>>

(* Faulty: a lost event is counted with the emitted ones. *)
WriteDropAsCount(c) ==
  /\ cpu[c].pc = "drop"
  /\ counted' = [counted EXCEPT ![cpu[c].kind] = cpu[c].read + 1]
  /\ Run(c, AfterEmit(cpu[c]))
  /\ UNCHANGED <<now, calls, ring, droppedBy, outcomes, raced, execVars, libVars, netVars>>

WriteDrop(c) ==
  /\ cpu[c].pc = "drop"
  /\ droppedBy' = [droppedBy EXCEPT ![cpu[c].kind] = cpu[c].read + 1]
  /\ Run(c, AfterEmit(cpu[c]))
  /\ UNCHANGED <<now, calls, ring, counted, outcomes, raced, execVars, libVars, netVars>>

(* Only the oldest entry can be consumed, and only once it is submitted.    *)
Consume ==
  /\ ring # <<>>
  /\ Head(ring) = "ready"
  /\ ring' = Tail(ring)
  /\ UNCHANGED <<now, calls, cpu, counted, droppedBy, outcomes, raced, execVars,
                 libVars, netVars>>
-----------------------------------------------------------------------------

Updated(t, bytes, way) == [network[t] EXCEPT ![way] = @ + bytes]

(* Faulty: a thread that received nothing is judged by the byte limit. *)
ExfiltrationByBytes(a) ==
  \/ a.sent > ExfilBytes /\ (a.received > 0 => a.sent \div a.received > ExfilRatio)
  \/ a.sent > LargeTransfer

Exfiltration(a) ==
  \/ a.received > 0 /\ a.sent \div a.received > ExfilRatio /\ a.sent > ExfilBytes
  \/ a.sent > LargeTransfer

Account(c) ==
  /\ cpu[c].pc = "account"
  /\ LET t == cpu[c].thread IN
       IF t \in DOMAIN network
         THEN LET a == Updated(t, cpu[c].bytes, cpu[c].way) IN
              /\ network' = [network EXCEPT ![t] = a]
              /\ Run(c, IF Exfiltration(a) THEN Emitting(t, "Suspicious", 0, "alarm")
                                           ELSE Idle)
         ELSE Run(c, Idle) /\ UNCHANGED network
  /\ UNCHANGED <<now, calls, emitVars, execVars, libVars, asked, uploaded>>
-----------------------------------------------------------------------------
Tick ==
  /\ now < MaxTime
  /\ now' = now + 1
  /\ UNCHANGED <<calls, cpu, emitVars, execVars, libVars, netVars>>

Program(c) == Reserve(c) \/ WriteCount(c) \/ WriteDrop(c) \/ Account(c)

Next ==
  \/ \E c \in Cpus, t \in Threads :
       \/ TraceExecve(c, t) \/ TraceTcpV4Connect(c, t) \/ Uprobe(c, t) \/ Transfer(c, t)
       \/ \E k \in TracedKinds : Tracepoint(c, t, k)
       \/ \E a \in Addrs : TraceDoMmap(c, t, a)
  \/ \E c \in Cpus : Program(c)
  \/ Consume
  \/ Tick

Spec == Init /\ [][Next]_vars
-----------------------------------------------------------------------------
(* Properties                                                              *)
Counts == [Kinds -> 0 .. MaxCalls * 2]

(* The state is well formed; a CPU has at most one entry of the ring, and   *)
(* has it exactly while it counts an event.                                 *)
TypeOK ==
  /\ now \in 0 .. MaxTime
  /\ calls \in 0 .. MaxCalls
  /\ \A c \in Cpus :
       /\ cpu[c].pc \in {"idle", "reserve", "count", "drop", "account"}
       /\ cpu[c].pc # "idle" => cpu[c].thread \in Threads /\ cpu[c].kind \in Kinds
       /\ Cardinality({i \in DOMAIN ring : ring[i] = c}) =
            IF cpu[c].pc = "count" THEN 1 ELSE 0
  /\ ring \in Seq(Cpus \cup {"ready"})
  /\ Len(ring) <= RingSize
  /\ counted \in Counts
  /\ droppedBy \in Counts
  /\ DOMAIN lastEvent \subseteq Threads
  /\ seen \subseteq Threads \X Addrs
  /\ DOMAIN libraries \subseteq Threads
  /\ DOMAIN network \subseteq Threads

Counting(k, pc) == Cardinality({c \in Cpus : cpu[c].pc = pc /\ cpu[c].kind = k})

Tallies(n, waiting, truth, exact) ==
  /\ n + waiting <= truth
  /\ exact => n + waiting = truth

(* The counters of events and of drops never say too much, and are wrong    *)
(* only for a kind that two CPUs have counted at once.                      *)
CountersTrueUnlessRaced ==
  \A k \in Kinds :
    /\ Tallies(counted[k], Counting(k, "count"), outcomes.submitted[k],
               Counter(FALSE, k) \notin raced)
    /\ Tallies(droppedBy[k], Counting(k, "drop"), outcomes.overrun[k],
               Counter(TRUE, k) \notin raced)

Apart(s, i, j) == s[j].at - s[i].at

(* The loss of an event of this kind shows: in the counter, or on the way   *)
(* to it.                                                                   *)
LossShows(k) ==
  droppedBy[k] > 0 \/ \E c \in Cpus : cpu[c].pc = "drop" /\ cpu[c].kind = k

(* "Rate limiting: max 1 event per second per PID" (tracepoints.rs): two    *)
(* execs of a thread that get past the limiter, whether the ring then has   *)
(* room for their events or not, are more than a second apart, if the       *)
(* limiter had room for the thread. An exec is kept back only if one of the *)
(* same thread got past the limiter within the second before. The event of  *)
(* that one may have been lost to a full ring, and then nothing is told of  *)
(* either; but DROPPED_BY_KIND says that execs are missing.                 *)
ExecsAreLimited ==
  \A t \in Threads, j \in 1 .. MaxCalls :
    j \in DOMAIN execs[t] =>
      IF execs[t][j].passed
        THEN t \in DOMAIN lastEvent =>
               \A i \in 1 .. (j - 1) :
                 execs[t][i].passed => Apart(execs[t], i, j) > Second
        ELSE \E i \in 1 .. (j - 1) :
               /\ execs[t][i].passed /\ Apart(execs[t], i, j) <= Second
               /\ <<t, i>> \in lost => LossShows("Exec")

AllMapped == UNION {{t} \X mapped[t] : t \in Threads}

LibraryCount(t) == IF t \in DOMAIN libraries THEN libraries[t] ELSE 0

(* Between two programs of a thread its tables say what it did: the bytes   *)
(* it asked to move since it last connected over IPv4, if there was room    *)
(* for it, and how many libraries it has loaded, a count that is too high   *)
(* only after LIBRARY_SEEN was too small.                                   *)
ThreadTablesExact ==
  \A t \in Threads :
    /\ Resting(t) /\ t \in DOMAIN network => network[t] = asked[t]
    /\ LibraryCount(t) >= Cardinality(mapped[t])
    /\ Cardinality(AllMapped) <= SeenSize => LibraryCount(t) = Cardinality(mapped[t])

LargeUpload(bytes) == bytes > LargeTransfer

OverTenToOne(a) ==
  a.sent > ExfilBytes /\ a.received > 0 /\ a.sent > ExfilRatio * a.received

ElevenToOne(a) ==
  a.sent > ExfilBytes /\ a.received > 0 /\ a.sent >= (ExfilRatio + 1) * a.received

(* A transfer of a tracked thread ends in an alarm only if the thread asked *)
(* to send too much, or, as the comment has it, at a ratio of >10:1         *)
(* (network.rs). It does end in one if the thread has really sent too much, *)
(* or has asked to send eleven bytes for each byte it asked for: the code   *)
(* compares a quotient of integers, so between ten and eleven it is silent. *)
(* Of the ratio of the bytes really moved nothing can be said, for a        *)
(* receiver mostly asks for more than it gets.                              *)
AlarmsMatchTransfers ==
  [][\A c \in Cpus :
       Account(c) /\ cpu[c].thread \in DOMAIN network =>
         LET a == asked[cpu[c].thread]
             n == uploaded[cpu[c].thread]
         IN /\ cpu'[c].way = "alarm" => LargeUpload(a.sent) \/ OverTenToOne(a)
            /\ LargeUpload(n) \/ ElevenToOne(a) => cpu'[c].way = "alarm"]_vars

(* The two together: threads are judged by what they asked for, and no      *)
(* large upload passes unseen. (network.rs, libraries.rs)                   *)
ThreadsJudgedRightly == []ThreadTablesExact /\ AlarmsMatchTransfers
=============================================================================
