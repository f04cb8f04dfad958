----------------------------- MODULE Aggregator -----------------------------
(***************************************************************************)
(* The cluster aggregator (scanner-aggregator): requests that run          *)
(* concurrently over four tokio RwLocks.                                   *)
(*                                                                         *)
(* A request is always at an await of one of the locks; an action is what  *)
(* it does from the moment it gets that lock to its next await. A tokio    *)
(* RwLock is fair: it is granted in the order in which it was asked for,   *)
(* so a waiting writer holds up every later reader.                        *)
(***************************************************************************)
EXTENDS Naturals, Sequences, FiniteSets

CONSTANTS
  Requests,       (* the requests of a run                                   *)
  Loads,          (* bound: what they may ask for, see Request               *)
  Paths,          (* attack paths: records [cluster, id, cves]               *)
  Reports,        (* correlations of peers: records [id, cve, clusters]      *)
  Peers,          (* federation peers                                        *)
  MaxDisconnects  (* bound: how many clients hang up before their answer     *)

(* AggregatorState.paths is a map from this key: it, and the paths a peer    *)
(* sends of it, hold one path of a key.                                      *)
Key(p) == <<p.cluster, p.id>>

OnePathPerKey(ps) == \A p, q \in ps : Key(p) = Key(q) => p = q

Request ==
       [op : {"add"}, path : Paths]
  \cup [op : {"sync"}, peer : Peers, paths : {ps \in SUBSET Paths : OnePathPerKey(ps)},
        reports : SUBSET Reports]
  \cup [op : {"register"}, peer : Peers]
  \cup [op : {"stats", "correlations", "peers"}]

ASSUME AggregatorAssumption ==
  /\ Loads \subseteq [Requests -> Request]
  /\ IsFiniteSet(Paths)
  /\ MaxDisconnects \in Nat
  /\ \A r, s \in Reports : r.id = s.id => r = s
  /\ \A r \in Reports : r.id # "local"

VARIABLES
  load,           (* what each request asks for                              *)
  paths,          (* AggregatorState.paths: one path per key                 *)
  correlations,   (* AggregatorState.correlations                            *)
  heartbeats,     (* clusters with an entry in cluster_heartbeat             *)
  peers,          (* federation_peers: registered, and synced since or not   *)
  pc,             (* the await each request is at                            *)
  queue,          (* per lock: the requests that wait for it, in order       *)
  guard,          (* per request and lock: the guard it holds                *)
  found,          (* new_correlations of a running analysis                  *)
  disconnects     (* how many clients have hung up                           *)

dataVars == <<paths, correlations, heartbeats, peers>>
vars == <<load, dataVars, pc, queue, guard, found, disconnects>>

Locks == {"paths", "correlations", "heartbeats", "peers"}

(* The awaits: which lock, for reading or for writing.                      *)
On(lock, mode) == [lock |-> lock, mode |-> mode]

Await == [addPaths  |-> On("paths", "write"),
          addBeat   |-> On("heartbeats", "write"),
          analyze   |-> On("paths", "read"),
          store     |-> On("correlations", "write"),
          syncPaths |-> On("paths", "write"),
          syncCorr  |-> On("correlations", "write"),
          syncPeer  |-> On("peers", "write"),
          statPaths |-> On("paths", "read"),
          statCorr  |-> On("correlations", "read"),
          statBeats |-> On("heartbeats", "read"),
          getCorr   |-> On("correlations", "read"),
          register  |-> On("peers", "write"),
          getPeers  |-> On("peers", "read")]

Awaits == DOMAIN Await

FirstAwait == [add |-> "addPaths", sync |-> "syncPaths", stats |-> "statPaths",
               correlations |-> "getCorr", register |-> "register",
               peers |-> "getPeers"]

NoGuards == [l \in Locks |-> "none"]
-----------------------------------------------------------------------------
Init ==
  /\ load \in Loads
  /\ paths = {}
  /\ correlations = {}
  /\ heartbeats = {}
  /\ peers = [p \in Peers |-> "unknown"]
  /\ pc = [r \in Requests |-> "new"]
  /\ queue = [l \in Locks |-> <<>>]
  /\ guard = [r \in Requests |-> NoGuards]
  /\ found = [r \in Requests |-> {}]
  /\ disconnects = 0
-----------------------------------------------------------------------------
(* Locks.                                                                   *)
Granted(r) ==
  LET lock == Await[pc[r]].lock
      bars == IF Await[pc[r]].mode = "write" THEN {"read", "write"} ELSE {"write"}
  IN  /\ queue[lock] # <<>>
      /\ Head(queue[lock]) = r
      /\ \A q \in Requests : guard[q][lock] \notin bars

Enqueue(q, r, next, l) ==
  IF next \in Awaits /\ Await[next].lock = l THEN Append(q, r) ELSE q

(* Request r, at the given await, gets its lock, keeps the guards of kept   *)
(* and goes on to wait at next, or is answered.                             *)
Proceed(r, at, kept, next) ==
  /\ pc[r] = at
  /\ Granted(r)
  /\ pc' = [pc EXCEPT ![r] = next]
  /\ queue' = [l \in Locks |->
                 Enqueue(IF l = Await[at].lock THEN Tail(queue[l]) ELSE queue[l], r, next, l)]
  /\ guard' = [guard EXCEPT ![r] =
                 [l \in Locks |-> IF l \notin kept THEN "none"
                                  ELSE IF l = Await[at].lock THEN Await[at].mode
                                  ELSE @[l]]]
  /\ UNCHANGED <<load, disconnects>>

Arrive(r) ==
  /\ pc[r] = "new"
  /\ pc' = [pc EXCEPT ![r] = FirstAwait[load[r].op]]
  /\ queue' = [l \in Locks |-> Enqueue(queue[l], r, FirstAwait[load[r].op], l)]
  /\ UNCHANGED <<load, dataVars, guard, found, disconnects>>

(* The client hangs up: the handler is dropped at its await, with every     *)
(* guard it holds; what it has stored stays.                                *)
HangUp(r) ==
  LET Others(q) == q # r IN
  /\ pc[r] \in Awaits
  /\ disconnects < MaxDisconnects
  /\ disconnects' = disconnects + 1
  /\ pc' = [pc EXCEPT ![r] = "gone"]
  /\ queue' = [l \in Locks |-> SelectSeq(queue[l], Others)]
  /\ guard' = [guard EXCEPT ![r] = NoGuards]
  /\ UNCHANGED <<load, dataVars, found>>
-----------------------------------------------------------------------------

Put(ps, new) == {p \in ps : \A q \in new : Key(p) # Key(q)} \cup new

AddPaths(r) ==
  /\ Proceed(r, "addPaths", {"paths"}, "addBeat")
  /\ paths' = Put(paths, {load[r].path})
  /\ UNCHANGED <<correlations, heartbeats, peers, found>>

(* Faulty: the guard on paths is not dropped. *)
AddBeatNoDrop(r) ==
  /\ Proceed(r, "addBeat", {"paths", "heartbeats"}, "analyze")
  /\ heartbeats' = heartbeats \cup {load[r].path.cluster}
  /\ UNCHANGED <<paths, correlations, peers, found>>

(* drop(paths) lets the first guard go; the second, heartbeats, lives to    *)
(* the end of add_path and is held through the analysis.                    *)
AddBeat(r) ==
  /\ Proceed(r, "addBeat", {"heartbeats"}, "analyze")
  /\ heartbeats' = heartbeats \cup {load[r].path.cluster}
  /\ UNCHANGED <<paths, correlations, peers, found>>

(* A CVE seen on more than one path and in more than one cluster. Each      *)
(* analysis gives its reports new ids.                                      *)
Affected(ps, cve) == {p.cluster : p \in {q \in ps : cve \in q.cves}}

Correlate(ps) ==
  {[id |-> "local", cve |-> c, clusters |-> Affected(ps, c)] :
     c \in {d \in UNION {p.cves : p \in ps} : Cardinality(Affected(ps, d)) > 1}}

(* Faulty: the guard on paths is let go before the result is stored. *)
AnalyzeUnguarded(r) ==
  LET kept == IF Correlate(paths) = {} THEN {} ELSE {"heartbeats"}
      next == IF Correlate(paths) = {} THEN "answered" ELSE "store"
  IN  /\ Proceed(r, "analyze", kept, next)
      /\ found' = [found EXCEPT ![r] = Correlate(paths)]
      /\ UNCHANGED dataVars

Analyze(r) ==
  LET kept == IF Correlate(paths) = {} THEN {} ELSE {"heartbeats", "paths"}
      next == IF Correlate(paths) = {} THEN "answered" ELSE "store"
  IN  /\ Proceed(r, "analyze", kept, next)
      /\ found' = [found EXCEPT ![r] = Correlate(paths)]
      /\ UNCHANGED dataVars

Store(r) ==
  /\ Proceed(r, "store", {}, "answered")
  /\ correlations' = found[r]
  /\ found' = [found EXCEPT ![r] = {}]
  /\ UNCHANGED <<paths, heartbeats, peers>>
-----------------------------------------------------------------------------
(* receive_federation_sync: every guard lives to the end.                   *)
SyncPaths(r) ==
  /\ Proceed(r, "syncPaths", {"paths"}, "syncCorr")
  /\ paths' = Put(paths, load[r].paths)
  /\ UNCHANGED <<correlations, heartbeats, peers, found>>

SyncCorr(r) ==
  /\ Proceed(r, "syncCorr", {"paths", "correlations"}, "syncPeer")
  /\ correlations' = correlations \cup
       {c \in load[r].reports : \A d \in correlations : d.id # c.id}
  /\ UNCHANGED <<paths, heartbeats, peers, found>>

SyncPeer(r) ==
  /\ Proceed(r, "syncPeer", {}, "answered")
  /\ peers' = [peers EXCEPT ![load[r].peer] = IF @ = "unknown" THEN @ ELSE "synced"]
  /\ UNCHANGED <<paths, correlations, heartbeats, found>>
-----------------------------------------------------------------------------
(* get_stats takes three read guards and holds them together.               *)
StatPaths(r) ==
  /\ Proceed(r, "statPaths", {"paths"}, "statCorr")
  /\ UNCHANGED <<dataVars, found>>

StatCorr(r) ==
  /\ Proceed(r, "statCorr", {"paths", "correlations"}, "statBeats")
  /\ UNCHANGED <<dataVars, found>>

StatBeats(r) ==
  /\ Proceed(r, "statBeats", {}, "answered")
  /\ UNCHANGED <<dataVars, found>>

GetCorrelations(r) ==
  /\ Proceed(r, "getCorr", {}, "answered")
  /\ UNCHANGED <<dataVars, found>>

Register(r) ==
  /\ Proceed(r, "register", {}, "answered")
  /\ peers' = [peers EXCEPT ![load[r].peer] = "registered"]
  /\ UNCHANGED <<paths, correlations, heartbeats, found>>

GetPeers(r) ==
  /\ Proceed(r, "getPeers", {}, "answered")
  /\ UNCHANGED <<dataVars, found>>

Handle(r) ==
  \/ AddPaths(r) \/ AddBeat(r) \/ Analyze(r) \/ Store(r)
  \/ SyncPaths(r) \/ SyncCorr(r) \/ SyncPeer(r)
  \/ StatPaths(r) \/ StatCorr(r) \/ StatBeats(r)
  \/ GetCorrelations(r) \/ Register(r) \/ GetPeers(r)

Next == \E r \in Requests : Arrive(r) \/ Handle(r) \/ HangUp(r)

(* The runtime polls a handler whose lock was granted. Clients need not     *)
(* come, nor hang up.                                                       *)
Fairness == \A r \in Requests : WF_vars(Handle(r))

Spec == Init /\ [][Next]_vars /\ Fairness
-----------------------------------------------------------------------------
(* Properties                                                              *)
Modes == {"none", "read", "write"}
Over  == {"new", "answered", "gone"}

Correlations ==
  Reports \cup [id : {"local"}, cve : UNION {p.cves : p \in Paths},
                clusters : SUBSET {p.cluster : p \in Paths}]

(* The state is well formed; two paths never share a key.                   *)
TypeOK ==
  /\ load \in Loads
  /\ paths \subseteq Paths
  /\ OnePathPerKey(paths)
  /\ correlations \subseteq Correlations
  /\ heartbeats \subseteq {p.cluster : p \in Paths}
  /\ peers \in [Peers -> {"unknown", "registered", "synced"}]
  /\ pc \in [Requests -> Awaits \cup Over]
  /\ queue \in [Locks -> Seq(Requests)]
  /\ guard \in [Requests -> [Locks -> Modes]]
  /\ found \in [Requests -> SUBSET Correlations]
  /\ disconnects \in 0 .. MaxDisconnects

(* What an analysis stores is true of the paths at that moment, although it *)
(* read them before it waited for the correlations lock.                    *)
StoredReportsAreCurrent ==
  [][\A r \in Requests : pc[r] = "store" /\ pc'[r] = "answered" =>
       correlations' = Correlate(paths')]_vars

(* No other request brings a path of the same key as r's.                   *)
BroughtOnce(r) ==
  \A t \in Requests \ {r} :
    /\ load[t].op = "add" => Key(load[t].path) # Key(load[r].path)
    /\ load[t].op = "sync" => \A p \in load[t].paths : Key(p) # Key(load[r].path)

(* Two paths that were both answered with CREATED, from different clusters  *)
(* and with a CVE in common, are correlated: whichever came second saw the  *)
(* first, and no older analysis overwrites the result.                      *)
AnsweredPathsAreCorrelated ==
  \A r, s \in {t \in Requests : load[t].op = "add" /\ pc[t] = "answered"} :
    /\ BroughtOnce(r) /\ BroughtOnce(s)
    /\ load[r].path.cluster # load[s].path.cluster
    => \A c \in load[r].path.cves \cap load[s].path.cves :
         \E k \in correlations : k.cve = c

(* The reports a client reads are right, whatever analyses overlap: true    *)
(* when they are stored, and complete for the paths that were answered.     *)
(* (analyze_correlations, receive_path)                                     *)
ReportsAreRight == StoredReportsAreCurrent /\ []AnsweredPathsAreCorrelated

Answered(r) == pc[r] \in Awaits ~> pc[r] \in {"answered", "gone"}

(* As long as paths come one at a time and nobody asks for statistics,      *)
(* every request is answered, syncs and queries among them.                 *)
InService(r) == pc[r] \in Awaits

Calm == /\ \A r, s \in {t \in Requests : load[t].op = "add" /\ InService(t)} : r = s
        /\ \A r \in Requests : load[r].op = "stats" => ~InService(r)

CalmRequestsAreAnswered == []Calm => \A r \in Requests : Answered(r)

(* "API: Receive path from scanner" and its siblings answer each request:   *)
(* with nobody hanging up, every request that came in is answered.          *)
EveryRequestIsAnswered == \A r \in Requests : Answered(r)
=============================================================================
