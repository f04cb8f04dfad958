------------------------------ MODULE NameCaches ------------------------------
(***************************************************************************)
(* How a workload gets its name: CgroupResolver of cgroup.rs finds the     *)
(* container of a cgroup id in /proc and keeps it, PodCache of k8s.rs      *)
(* finds the pod of a container and is filled once, at start (main.rs).    *)
(* The node runs cgroup v2, where every process has the hierarchy id 0:    *)
(* the resolver then takes the first process whose path names a container. *)
(* Its walk over /proc waits between the entries, and between the answer   *)
(* and the insert; the resolver's lock keeps two walks apart.              *)
(***************************************************************************)
EXTENDS Naturals, FiniteSets, FiniteSetsExt

CONSTANTS
  Cgroups,      (* cgroup ids, numbers: the cache is ordered by them         *)
  Pids,         (* numbers: /proc is listed in their order                   *)
  Containers,   (* numbers                                                   *)
  MaxEntries    (* MAX_CACHE_ENTRIES: 10000 in the code                      *)

ASSUME NamesAssumption ==
  /\ Cgroups \subseteq Nat /\ Pids \subseteq Nat /\ Containers \subseteq Nat \ {0}
  /\ IsFiniteSet(Cgroups) /\ IsFiniteSet(Pids) /\ Pids # {} /\ MaxEntries \in Nat \ {0}

VARIABLES
  proc,      (* per pid of the node: [cgroup, container]; container 0 none   *)
  cache,     (* CgroupResolver::cache: container per cgroup resolved         *)
  search,    (* resolve under way: [cgroup, from, found, step]               *)
  pods,      (* PodCache: the containers that have an identity               *)
  listed,    (* whether refresh ran                                          *)
  crowded,   (* history: cgroups answered while two containers ran           *)
  reused     (* history: cgroups that a new container got since the answer   *)

nameVars == <<proc, cache, search, pods, listed, crowded, reused>>

NoSearch == [cgroup |-> 0, from |-> 0, found |-> 0, step |-> "idle"]

Running == {proc[p].container : p \in DOMAIN proc} \ {0}

(* The map f with x bound to v.                                              *)
With(f, x, v) == [y \in DOMAIN f \union {x} |-> IF y = x THEN v ELSE f[y]]

NamesInit ==
  /\ \E c \in Containers, g \in Cgroups :
       proc = [p \in {CHOOSE q \in Pids : TRUE} |-> [cgroup |-> g, container |-> c]]
  /\ cache = [g \in {} |-> 0] /\ search = NoSearch /\ pods = {} /\ listed = FALSE
  /\ crowded = {} /\ reused = {}
-----------------------------------------------------------------------------
(* The node: a cgroup belongs to one container at a time; a process of the   *)
(* host has a cgroup of its own.                                             *)
Owner(g) == {proc[p].container : p \in {q \in DOMAIN proc : proc[q].cgroup = g}}

(* What the resolver holds of a cgroup, kept or about to be kept.            *)
Answers(g) ==
  {cache[h] : h \in DOMAIN cache \intersect {g}}
    \union {s.found : s \in {t \in {search} : t.step = "found" /\ t.cgroup = g}}

StartProcess ==
  /\ \E p \in Pids \ DOMAIN proc, g \in Cgroups, c \in Containers \union {0} :
       /\ Owner(g) \subseteq {c}
       /\ c # 0 => \A q \in DOMAIN proc : proc[q].container = c => proc[q].cgroup = g
       /\ proc' = With(proc, p, [cgroup |-> g, container |-> c])
       /\ reused' = IF Answers(g) \subseteq {c} THEN reused ELSE reused \union {g}
  /\ UNCHANGED <<cache, search, pods, listed, crowded>>

ExitProcess ==
  /\ \E p \in DOMAIN proc : proc' = [q \in DOMAIN proc \ {p} |-> proc[q]]
  /\ UNCHANGED <<cache, search, pods, listed, crowded, reused>>

(* Faulty: a process without a container is an answer too.                   *)
NamedProcessesAll(g) == DOMAIN proc

(* The processes that parse_cgroup_file accepts for the id: under v2, all    *)
(* whose path names a container, whatever the id.                            *)
NamedProcesses(g) == {p \in DOMAIN proc : proc[p].container # 0}

Evicted(c) ==
  IF Cardinality(DOMAIN c) >= MaxEntries
  THEN [g \in DOMAIN c \ {Min(DOMAIN c)} |-> c[g]] ELSE c

(* resolve on a miss. The cgroups are those of events, which may be of the   *)
(* host or gone since. On a hit nothing changes.                             *)
Resolve(g) ==
  /\ search.step = "idle" /\ g \notin DOMAIN cache
  /\ search' = [cgroup |-> g, from |-> 0, found |-> 0, step |-> "walk"]
  /\ UNCHANGED <<proc, cache, pods, listed, crowded, reused>>

Ahead == {p \in DOMAIN proc : p >= search.from}

(* The next process of /proc: the first that names a container is the        *)
(* answer, and the walk ends.                                                *)
ReadCgroupFile ==
  LET g == search.cgroup  p == Min(Ahead)  hit == p \in NamedProcesses(g)
  IN  /\ search.step = "walk" /\ Ahead # {}
      /\ search' = IF hit THEN [cgroup |-> g, from |-> 0, found |-> proc[p].container, step |-> "found"]
                   ELSE [cgroup |-> g, from |-> p + 1, found |-> 0, step |-> "walk"]
      /\ crowded' = IF hit /\ Cardinality(Running) > 1 THEN crowded \union {g} ELSE crowded \ {g}
      /\ reused' = reused \ {g}
      /\ UNCHANGED <<proc, cache, pods, listed>>

NotFound ==
  /\ search.step = "walk" /\ Ahead = {} /\ search' = NoSearch
  /\ UNCHANGED <<proc, cache, pods, listed, crowded, reused>>

(* The answer is kept; the entry with the smallest id makes room.            *)
KeepContainer ==
  LET gone == DOMAIN cache \ DOMAIN Evicted(cache)
  IN  /\ search.step = "found" /\ search' = NoSearch
      /\ cache' = With(Evicted(cache), search.cgroup, search.found)
      /\ crowded' = crowded \ gone /\ reused' = reused \ gone
      /\ UNCHANGED <<proc, pods, listed>>

(* refresh, once at start: the pods of the node as they are then.            *)
PodRefresh ==
  /\ ~listed /\ listed' = TRUE
  /\ pods' = Running
  /\ UNCHANGED <<proc, cache, search, crowded, reused>>

NamesNext ==
  \/ StartProcess \/ ExitProcess \/ PodRefresh
  \/ \E g \in Cgroups : Resolve(g)
  \/ ReadCgroupFile \/ NotFound \/ KeepContainer

NamesSpec == NamesInit /\ [][NamesNext]_nameVars

(* What the pipeline calls the workload of a cgroup: 0 is skipped.           *)
NameOf(g) == IF g \in DOMAIN cache /\ cache[g] \in pods THEN cache[g] ELSE 0
-----------------------------------------------------------------------------
(* A container is taken for another only if another ran when its cgroup was  *)
(* answered or had the cgroup before; and never is a cgroup resolved to      *)
(* something that is no container, nor the cache over its limit.             *)
(* (cgroup.rs resolve, parse_cgroup_file; k8s.rs lookup)                     *)
MisnamedOnlyWhenCrowded ==
  /\ Cardinality(DOMAIN cache) <= MaxEntries
  /\ \A g \in DOMAIN cache : cache[g] # 0
  /\ \A g \in Cgroups, c \in Containers :
       c \in Owner(g) /\ NameOf(g) \notin {0, c} => g \in crowded \union reused
=============================================================================
