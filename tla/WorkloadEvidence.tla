--------------------------- MODULE WorkloadEvidence ---------------------------
(***************************************************************************)
(* What StateStore (state.rs) keeps of the events of a workload, and what  *)
(* it lets go at its limits: a full set refuses a new entry, a full list   *)
(* of signals drops its oldest, the bytes stop at their cap. EventPipeline *)
(* has the consumer that applies the events and the rounds that clear.     *)
(*                                                                         *)
(* Commands, paths and flows are values that tell by their set whether the *)
(* code calls them suspicious, a library or sensitive. observed_syscalls   *)
(* takes no more than 13 names, far below its limit, and is left out.      *)
(***************************************************************************)
EXTENDS Naturals, Sequences, FiniteSets, Functions

CONSTANTS
  CgroupIds,
  Commands, Suspicious,             (* is_suspicious_command                 *)
  FilePaths, SharedObjects, Sensitive, (* is_shared_library, is_sensitive_path *)
  Flows,
  TransferSizes, LargeTransferSize, (* 1024 in the code                      *)
  MaxSetEntries,                    (* 5000 in the code                      *)
  MaxSignals,                       (* 1000 in the code                      *)
  MaxDataBytes,                     (* 1 TB in the code                      *)
  MaxApplied                        (* bound: events between two clears      *)

ASSUME EvidenceStoreAssumption ==
  /\ Suspicious \subseteq Commands /\ SharedObjects \cup Sensitive \subseteq FilePaths
  /\ TransferSizes \cup {LargeTransferSize, MaxDataBytes, MaxApplied} \subseteq Nat
  /\ {MaxSetEntries, MaxSignals} \subseteq Nat \ {0}

VARIABLES
  workload,  (* by_cgroup; a cgroup without entry has the empty state        *)
  applied    (* history: the events of each cgroup since the last clear      *)

storeVars == <<workload, applied>>

WorkloadState == [commands |-> {}, observed_paths |-> {}, network_flows |-> {},
                  loaded_libraries |-> {}, signals |-> <<>>, data_transferred_bytes |-> 0]

StoreInit ==
  /\ workload = [g \in CgroupIds |-> WorkloadState]
  /\ applied = [g \in CgroupIds |-> <<>>]

StoreEvents ==
  [kind : {"Exec"}, item : Commands, size : {0}]
    \cup [kind : {"Mmap", "Open", "Mprotect"}, item : FilePaths, size : {0}]
    \cup [kind : {"Net"}, item : Flows, size : TransferSizes]

FileEvent(e) == e.kind \in {"Mmap", "Open", "Mprotect"}
LoadsLibrary(e) == e.kind = "Mmap" /\ e.item \in SharedObjects
-----------------------------------------------------------------------------
(* Faulty: a full set makes room.                                            *)
CappedInsertAnyway(set, value) ==
  IF Cardinality(set) >= MaxSetEntries /\ value \notin set
    THEN (set \ {CHOOSE x \in set : TRUE}) \cup {value} ELSE set \cup {value}

CappedInsert(set, value) ==
  IF Cardinality(set) >= MaxSetEntries /\ value \notin set THEN set ELSE set \cup {value}

PushSignal(signals, signal) ==
  Append(IF Len(signals) >= MaxSignals THEN Tail(signals) ELSE signals, signal)

(* The signals an event gives, in the order they are pushed; at is its time. *)
SignalsOf(e, at) ==
  LET When(holds, type) == IF holds THEN <<[type |-> type, item |-> e.item, at |-> at]>> ELSE <<>>
  IN  When(e.kind = "Exec" /\ e.item \in Suspicious, "SuspiciousExec")
        \o When(LoadsLibrary(e), "LibraryLoaded")
        \o When(FileEvent(e) /\ e.item \in Sensitive, "SensitiveFileAccess")
        \o When(e.kind = "Mprotect", "MprotectExec")
        \o When(e.kind = "Net" /\ e.size > LargeTransferSize, "LargeDataTransfer")

(* push_signal, for each of them.                                            *)
PushAll(signals, new) ==
  LET after[n \in 0 .. Len(new)] == IF n = 0 THEN signals ELSE PushSignal(after[n - 1], new[n])
  IN  after[Len(new)]

AtMost(n, limit) == IF n < limit THEN n ELSE limit

(* apply_exec, apply_file and apply_net.                                     *)
WithEvent(w, e, at) ==
  LET Into(set, holds) == IF holds THEN CappedInsert(set, e.item) ELSE set
  IN  [commands |-> Into(w.commands, e.kind = "Exec"),
       observed_paths |-> Into(w.observed_paths, FileEvent(e)),
       network_flows |-> Into(w.network_flows, e.kind = "Net"),
       loaded_libraries |-> Into(w.loaded_libraries, LoadsLibrary(e)),
       signals |-> PushAll(w.signals, SignalsOf(e, at)),
       data_transferred_bytes |-> AtMost(w.data_transferred_bytes + e.size, MaxDataBytes)]

ApplyEvent(g, e) ==
  /\ SumFunction([h \in CgroupIds |-> Len(applied[h])]) < MaxApplied
  /\ workload' = [workload EXCEPT ![g] = WithEvent(@, e, Len(applied[g]) + 1)]
  /\ applied' = [applied EXCEPT ![g] = Append(@, e)]

(* clear: the map loses the entries of all workloads.                        *)
ClearEvidence ==
  /\ workload' = [g \in CgroupIds |-> WorkloadState]
  /\ applied' = [g \in CgroupIds |-> <<>>]

StoreNext == (\E g \in CgroupIds, e \in StoreEvents : ApplyEvent(g, e)) \/ ClearEvidence

StoreSpec == StoreInit /\ [][StoreNext]_storeVars
-----------------------------------------------------------------------------
(* What is kept was told by an event of the kind; what one told that is not  *)
(* kept found no room, and came after all that is kept.                      *)
FirstComeKept(kept, told, kind) ==
  LET telling == {i \in DOMAIN told : told[i] \in kind}
  IN  /\ kept \subseteq {told[i].item : i \in telling}
      /\ \A j \in telling : told[j].item \notin kept =>
           /\ Cardinality(kept) = MaxSetEntries
           /\ \A x \in kept : \E i \in telling : i < j /\ told[i].item = x

Execs == {e \in StoreEvents : e.kind = "Exec"}
FileEvents == {e \in StoreEvents : FileEvent(e)}
NetEvents == {e \in StoreEvents : e.kind = "Net"}
LibraryLoads == {e \in StoreEvents : LoadsLibrary(e)}

(* All signals that the events gave, and the last ones of a list of signals. *)
Due(told) ==
  LET upTo[n \in 0 .. Len(told)] == IF n = 0 THEN <<>> ELSE upTo[n - 1] \o SignalsOf(told[n], n)
  IN  upTo[Len(told)]

LastSignals(signals) ==
  IF Len(signals) <= MaxSignals THEN signals
  ELSE SubSeq(signals, Len(signals) - MaxSignals + 1, Len(signals))

(* Nothing a workload did since the last clear is lost but to a limit, and   *)
(* the limits lose what they say: sets the latest, signals the oldest. So a  *)
(* library with a signal is listed unless its list was full, and a listed    *)
(* one without has had enough other signals since. (capped_insert,           *)
(* push_signal, apply_exec, apply_file, apply_net, clear)                    *)
EvidenceLostOnlyToLimits ==
  \A g \in CgroupIds :
    LET w == workload[g]
        told == applied[g]
    IN  /\ FirstComeKept(w.commands, told, Execs)
        /\ FirstComeKept(w.observed_paths, told, FileEvents)
        /\ FirstComeKept(w.network_flows, told, NetEvents)
        /\ FirstComeKept(w.loaded_libraries, told, LibraryLoads)
        /\ w.signals = LastSignals(Due(told))
        /\ w.data_transferred_bytes =
             AtMost(SumFunction([i \in DOMAIN told |-> told[i].size]), MaxDataBytes)
        /\ \A n \in DOMAIN w.signals :
             LET s == w.signals[n]
             IN  s.type = "LibraryLoaded" /\ s.item \notin w.loaded_libraries
                   => Cardinality(w.loaded_libraries) = MaxSetEntries
=============================================================================
