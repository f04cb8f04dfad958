-------------------------- MODULE Aggregator_proofs --------------------------
(***************************************************************************)
(* For any set of requests, any paths and any clients that hang up: the    *)
(* reports that clients read are right, whatever analyses overlap. The     *)
(* read guard on the paths that an analysis keeps over its wait for the    *)
(* correlations is what makes it so.                                       *)
(***************************************************************************)
EXTENDS Aggregator, FiniteSetTheorems, TLAPS

Adding == {"addPaths", "addBeat", "analyze", "store"}

Typed ==
  /\ load \in Loads
  /\ paths \subseteq Paths
  /\ pc \in [Requests -> Awaits \cup Over]
  /\ guard \in [Requests -> [Locks -> Modes]]
  /\ found \in [Requests -> SUBSET Correlations]

(* A request is at the awaits of its own handler.                            *)
OnTrack ==
  \A r \in Requests :
    /\ pc[r] \in Awaits => (load[r].op = "add" <=> pc[r] \in Adding)
    /\ pc[r] \in {"syncPaths", "syncCorr", "syncPeer"} => load[r].op = "sync"

(* An analysis that waits to store has the paths locked for reading and has  *)
(* found what is true of them.                                               *)
StillTrue ==
  \A r \in Requests :
    pc[r] = "store" => guard[r]["paths"] = "read" /\ found[r] = Correlate(paths)

(* A path that nobody else brings is there once it was put there.            *)
Late == {"addBeat", "analyze", "store", "answered"}

PathKept ==
  \A r \in Requests :
    load[r].op = "add" /\ pc[r] \in Late /\ BroughtOnce(r) => load[r].path \in paths

AggregatorInv ==
  Typed /\ OnTrack /\ StillTrue /\ PathKept /\ AnsweredPathsAreCorrelated
-----------------------------------------------------------------------------
LEMMA LoadFacts ==
  ASSUME Typed, NEW r \in Requests
  PROVE  /\ load[r].op \in {"add", "sync", "register", "stats", "correlations", "peers"}
         /\ load[r].op = "add" => load[r].path \in Paths
         /\ load[r].op = "sync" => load[r].paths \subseteq Paths /\ load[r].reports \subseteq Reports
<1>1. load[r] \in Request
  BY AggregatorAssumption DEF Typed
<1> QED BY <1>1 DEF Request

LEMMA AwaitFacts ==
  /\ Awaits = {"addPaths", "addBeat", "analyze", "store", "syncPaths", "syncCorr",
               "syncPeer", "statPaths", "statCorr", "statBeats", "getCorr",
               "register", "getPeers"}
  /\ \A a \in Awaits : Await[a].lock \in Locks /\ Await[a].mode \in {"read", "write"}
  /\ Await["addPaths"] = On("paths", "write")
  /\ Await["syncPaths"] = On("paths", "write")
  /\ Await["analyze"] = On("paths", "read")
  /\ Over \cap Awaits = {}
  BY DEF Awaits, Await, On, Locks, Over

(* What a cluster reports of a CVE that another reports too is correlated.   *)
LEMMA SharedIsCorrelated ==
  ASSUME NEW ps, IsFiniteSet(ps), NEW p \in ps, NEW q \in ps,
         p.cluster # q.cluster, NEW c \in p.cves \cap q.cves
  PROVE  \E k \in Correlate(ps) : k.cve = c
<1> DEFINE touched == {x \in ps : c \in x.cves}
           clusters == Affected(ps, c)
           name == [x \in touched |-> x.cluster]
           pair == {p.cluster} \cup {q.cluster}
<1>1. IsFiniteSet(touched)
  BY FS_Subset
<1>2. clusters = {x.cluster : x \in touched}
  BY DEF Affected
<1>3. name \in Surjection(touched, clusters)
  BY <1>2 DEF Surjection
<1>4. IsFiniteSet(clusters)
  BY <1>1, <1>3, FS_Surjection
<1>5. pair \in SUBSET clusters
  BY <1>2
<1>6. Cardinality(pair) = 2
  <2>1. IsFiniteSet({p.cluster}) /\ Cardinality({p.cluster}) = 1
    BY FS_Singleton
  <2>2. q.cluster \notin {p.cluster}
    OBVIOUS
  <2>3. Cardinality(pair) = Cardinality({p.cluster}) + 1
    BY <2>1, <2>2, FS_AddElement
  <2> QED BY <2>1, <2>3
<1>7. Cardinality(clusters) \in Nat /\ Cardinality(pair) <= Cardinality(clusters)
  BY <1>4, <1>5, FS_Subset, FS_CardinalityType
<1>8. Cardinality(clusters) > 1
  BY <1>6, <1>7
<1>9. c \in UNION {x.cves : x \in ps}
  OBVIOUS
<1> HIDE DEF clusters
<1>10. [id |-> "local", cve |-> c, clusters |-> Affected(ps, c)] \in Correlate(ps)
  BY <1>8, <1>9 DEF Correlate, clusters
<1> QED BY <1>10

LEMMA CorrelateTyped ==
  ASSUME NEW ps \in SUBSET Paths
  PROVE  Correlate(ps) \subseteq Correlations
<1> SUFFICES ASSUME NEW d \in UNION {p.cves : p \in ps}
             PROVE  [id |-> "local", cve |-> d, clusters |-> Affected(ps, d)] \in Correlations
  BY DEF Correlate
<1>1. Affected(ps, d) \in SUBSET {p.cluster : p \in Paths}
  BY DEF Affected
<1>2. d \in UNION {p.cves : p \in Paths}
  OBVIOUS
<1> QED BY <1>1, <1>2 DEF Correlations
-----------------------------------------------------------------------------
LEMMA InitInv == Init => AggregatorInv
<1> SUFFICES ASSUME Init PROVE AggregatorInv
  OBVIOUS
<1>1. Typed
  BY DEF Init, Typed, Over, NoGuards, Modes
<1>2. \A r \in Requests : pc[r] = "new"
  BY DEF Init
<1>3. OnTrack /\ StillTrue /\ PathKept
  BY <1>2, AwaitFacts DEF OnTrack, StillTrue, PathKept, Late, Over
<1>4. AnsweredPathsAreCorrelated
  BY <1>2 DEF AnsweredPathsAreCorrelated
<1> QED BY <1>1, <1>3, <1>4 DEF AggregatorInv

(* What an await that ends leaves: r is one further, the guards it keeps are *)
(* its own, and nobody else has moved.                                       *)
LEMMA ProceedFacts ==
  ASSUME Typed, NEW r \in Requests, NEW at \in Awaits, NEW kept,
         NEW next \in Awaits \cup Over, Proceed(r, at, kept, next)
  PROVE  /\ load' = load
         /\ pc[r] = at /\ pc'[r] = next
         /\ pc' \in [Requests -> Awaits \cup Over]
         /\ \A q \in Requests : q # r => pc'[q] = pc[q] /\ guard'[q] = guard[q]
         /\ guard' \in [Requests -> [Locks -> Modes]]
         /\ Await[at].lock \in kept => guard'[r][Await[at].lock] = Await[at].mode
         /\ Await[at].mode = "write" =>
              \A q \in Requests : guard[q][Await[at].lock] = "none"
<1>1. Await[at].lock \in Locks /\ Await[at].mode \in {"read", "write"}
  BY AwaitFacts
<1>2. /\ load' = load /\ pc[r] = at /\ pc' = [pc EXCEPT ![r] = next]
      /\ guard' = [guard EXCEPT ![r] =
                     [l \in Locks |-> IF l \notin kept THEN "none"
                                      ELSE IF l = Await[at].lock THEN Await[at].mode
                                      ELSE guard[r][l]]]
  BY DEF Proceed
<1>3. /\ pc'[r] = next /\ pc' \in [Requests -> Awaits \cup Over]
      /\ \A q \in Requests : q # r => pc'[q] = pc[q]
  BY <1>2 DEF Typed
<1> DEFINE new == [l \in Locks |-> IF l \notin kept THEN "none"
                                   ELSE IF l = Await[at].lock THEN Await[at].mode
                                   ELSE guard[r][l]]
<1>4. new \in [Locks -> Modes]
  BY <1>1 DEF Typed, Modes
<1>5. guard' = [guard EXCEPT ![r] = new]
  BY <1>2
<1>6. Await[at].lock \in kept => new[Await[at].lock] = Await[at].mode
  BY <1>1
<1> HIDE DEF new
<1>7. /\ guard' \in [Requests -> [Locks -> Modes]]
      /\ guard'[r] = new
      /\ \A q \in Requests : q # r => guard'[q] = guard[q]
  BY <1>4, <1>5 DEF Typed
<1>8. Await[at].mode = "write" => \A q \in Requests : guard[q][Await[at].lock] = "none"
  <2> SUFFICES ASSUME Await[at].mode = "write", NEW q \in Requests
               PROVE  guard[q][Await[at].lock] = "none"
    OBVIOUS
  <2>1. guard[q][Await[at].lock] \notin {"read", "write"}
    BY <1>2 DEF Proceed, Granted
  <2>2. guard[q][Await[at].lock] \in Modes
    BY <1>1 DEF Typed
  <2> QED BY <2>1, <2>2 DEF Modes
<1> QED BY <1>2, <1>3, <1>6, <1>7, <1>8

(* A request that stays away from the paths, and that neither begins to wait *)
(* to store nor answers a report, takes nothing of the invariant with it.    *)
LEMMA QuietProceed ==
  ASSUME AggregatorInv, NEW r \in Requests, NEW at \in Awaits, NEW kept,
         NEW next \in Awaits \cup Over, Proceed(r, at, kept, next),
         paths' = paths, found' = found, correlations \subseteq correlations',
         next # "store",
         next \in Awaits => (at \in Adding <=> next \in Adding),
         next \in {"syncPaths", "syncCorr", "syncPeer"} => load[r].op = "sync",
         at \in Adding => at \in Late /\ next # "answered"
  PROVE  AggregatorInv'
<1>1. /\ load' = load
      /\ pc[r] = at /\ pc'[r] = next
      /\ pc' \in [Requests -> Awaits \cup Over]
      /\ \A q \in Requests : q # r => pc'[q] = pc[q] /\ guard'[q] = guard[q]
      /\ guard' \in [Requests -> [Locks -> Modes]]
  BY ProceedFacts DEF AggregatorInv
<1>2. load[r].op = "add" <=> at \in Adding
  BY <1>1 DEF AggregatorInv, OnTrack
<1>3. Typed'
  BY <1>1 DEF AggregatorInv, Typed
<1>4. OnTrack'
  BY <1>1, <1>2 DEF AggregatorInv, OnTrack
<1>5. StillTrue'
  BY <1>1 DEF AggregatorInv, StillTrue
<1>6. PathKept'
  <2> SUFFICES ASSUME NEW q \in Requests, load[q].op = "add", pc'[q] \in Late, BroughtOnce(q)
               PROVE  load[q].path \in paths
    BY <1>1 DEF PathKept, BroughtOnce
  <2>1. pc[q] \in Late
    BY <1>1, <1>2
  <2> QED BY <2>1 DEF AggregatorInv, PathKept
<1>7. AnsweredPathsAreCorrelated'
  <2>1. \A q \in Requests : load[q].op = "add" /\ pc'[q] = "answered" => pc[q] = "answered"
    BY <1>1, <1>2
  <2> QED BY <2>1, <1>1 DEF AggregatorInv, AnsweredPathsAreCorrelated, BroughtOnce
<1> QED BY <1>3, <1>4, <1>5, <1>6, <1>7 DEF AggregatorInv

(* Paths are put while nobody waits to store, and of those that others will  *)
(* not bring again none is replaced.                                         *)
LEMMA PutProceed ==
  ASSUME AggregatorInv, NEW r \in Requests, NEW at \in {"addPaths", "syncPaths"}, NEW kept,
         NEW next \in Awaits, Proceed(r, at, kept, next),
         NEW new \in SUBSET Paths, paths' = Put(paths, new),
         found' = found, correlations' = correlations,
         next # "store",
         at \in Adding <=> next \in Adding,
         next \in {"syncPaths", "syncCorr", "syncPeer"} => load[r].op = "sync",
         load[r].op = "add" => load[r].path \in new,
         \A q \in Requests \ {r} :
           load[q].op = "add" /\ BroughtOnce(q) => \A p \in new : Key(p) # Key(load[q].path)
  PROVE  AggregatorInv'
<1>0. at \in Awaits /\ Await[at] = On("paths", "write")
  BY AwaitFacts
<1>1. /\ load' = load
      /\ pc[r] = at /\ pc'[r] = next
      /\ pc' \in [Requests -> Awaits \cup Over]
      /\ \A q \in Requests : q # r => pc'[q] = pc[q] /\ guard'[q] = guard[q]
      /\ guard' \in [Requests -> [Locks -> Modes]]
      /\ Await[at].mode = "write" =>
           \A q \in Requests : guard[q][Await[at].lock] = "none"
  BY <1>0, ProceedFacts DEF AggregatorInv
<1>2. \A q \in Requests : guard[q]["paths"] = "none"
  BY <1>0, <1>1 DEF On
<1>3. load[r].op = "add" <=> at \in Adding
  BY <1>0, <1>1 DEF AggregatorInv, OnTrack
<1>4. Typed'
  BY <1>1 DEF AggregatorInv, Typed, Put
<1>5. OnTrack'
  BY <1>1, <1>3 DEF AggregatorInv, OnTrack
<1>6. StillTrue'
  <2>1. \A q \in Requests : pc[q] # "store"
    BY <1>2 DEF AggregatorInv, StillTrue
  <2> QED BY <1>1, <2>1 DEF StillTrue
<1>7. PathKept'
  <2> SUFFICES ASSUME NEW q \in Requests, load[q].op = "add", pc'[q] \in Late, BroughtOnce(q)
               PROVE  load[q].path \in paths'
    BY <1>1 DEF PathKept, BroughtOnce
  <2>1. CASE q = r
    BY <2>1 DEF Put
  <2>2. CASE q # r
    <3>1. load[q].path \in paths
      BY <1>1, <2>2 DEF AggregatorInv, PathKept
    <3>2. \A p \in new : Key(load[q].path) # Key(p)
      BY <2>2
    <3> QED BY <3>1, <3>2 DEF Put
  <2> QED BY <2>1, <2>2
<1>8. AnsweredPathsAreCorrelated'
  <2>1. \A q \in Requests : pc'[q] = "answered" => pc[q] = "answered"
    BY <1>1, AwaitFacts DEF Over
  <2> QED BY <2>1, <1>1 DEF AggregatorInv, AnsweredPathsAreCorrelated, BroughtOnce
<1> QED BY <1>4, <1>5, <1>6, <1>7, <1>8 DEF AggregatorInv
-----------------------------------------------------------------------------
LEMMA ArriveInv == ASSUME AggregatorInv, NEW r \in Requests, Arrive(r) PROVE AggregatorInv'
<1> DEFINE first == FirstAwait[load[r].op]
<1>1. /\ load' = load /\ paths' = paths /\ correlations' = correlations
      /\ guard' = guard /\ found' = found
      /\ pc[r] = "new" /\ pc' = [pc EXCEPT ![r] = first]
  BY DEF Arrive, dataVars
<1>2. /\ first \in Awaits \ {"store"}
      /\ first \in Adding <=> load[r].op = "add"
      /\ first \notin Late
      /\ first \in {"syncPaths", "syncCorr", "syncPeer"} => load[r].op = "sync"
  BY LoadFacts, AwaitFacts DEF AggregatorInv, FirstAwait, Adding, Late
<1> HIDE DEF first
<1>3. /\ pc'[r] = first /\ pc' \in [Requests -> Awaits \cup Over]
      /\ \A q \in Requests : q # r => pc'[q] = pc[q]
  BY <1>1, <1>2 DEF AggregatorInv, Typed
<1>4. Typed'
  BY <1>1, <1>3 DEF AggregatorInv, Typed
<1>5. OnTrack'
  BY <1>1, <1>2, <1>3 DEF AggregatorInv, OnTrack
<1>6. StillTrue'
  BY <1>1, <1>2, <1>3 DEF AggregatorInv, StillTrue
<1>7. PathKept'
  BY <1>1, <1>2, <1>3 DEF AggregatorInv, PathKept, BroughtOnce
<1>8. AnsweredPathsAreCorrelated'
  <2>1. \A q \in Requests : pc'[q] = "answered" => pc[q] = "answered"
    BY <1>2, <1>3 DEF Late
  <2> QED BY <2>1, <1>1 DEF AggregatorInv, AnsweredPathsAreCorrelated, BroughtOnce
<1> QED BY <1>4, <1>5, <1>6, <1>7, <1>8 DEF AggregatorInv

LEMMA HangUpInv == ASSUME AggregatorInv, NEW r \in Requests, HangUp(r) PROVE AggregatorInv'
<1>1. /\ load' = load /\ paths' = paths /\ correlations' = correlations
      /\ found' = found
      /\ guard' = [guard EXCEPT ![r] = NoGuards] /\ pc' = [pc EXCEPT ![r] = "gone"]
  BY DEF HangUp, dataVars
<1>2. /\ pc'[r] = "gone" /\ pc' \in [Requests -> Awaits \cup Over]
      /\ guard' \in [Requests -> [Locks -> Modes]]
      /\ \A q \in Requests : q # r => pc'[q] = pc[q] /\ guard'[q] = guard[q]
  BY <1>1 DEF AggregatorInv, Typed, Over, NoGuards, Modes
<1>3. Typed'
  BY <1>1, <1>2 DEF AggregatorInv, Typed
<1>4. OnTrack'
  BY <1>1, <1>2, AwaitFacts DEF AggregatorInv, OnTrack, Over
<1>5. StillTrue'
  BY <1>1, <1>2 DEF AggregatorInv, StillTrue
<1>6. PathKept'
  BY <1>1, <1>2 DEF AggregatorInv, PathKept, BroughtOnce, Late
<1>7. AnsweredPathsAreCorrelated'
  <2>1. \A q \in Requests : pc'[q] = "answered" => pc[q] = "answered"
    BY <1>2
  <2> QED BY <2>1, <1>1 DEF AggregatorInv, AnsweredPathsAreCorrelated, BroughtOnce
<1> QED BY <1>3, <1>4, <1>5, <1>6, <1>7 DEF AggregatorInv
-----------------------------------------------------------------------------
LEMMA AddPathsInv == ASSUME AggregatorInv, NEW r \in Requests, AddPaths(r) PROVE AggregatorInv'
<1>1. /\ Proceed(r, "addPaths", {"paths"}, "addBeat")
      /\ paths' = Put(paths, {load[r].path})
      /\ correlations' = correlations /\ found' = found
  BY DEF AddPaths
<1>2. pc[r] = "addPaths"
  BY <1>1 DEF Proceed
<1>3. load[r].op = "add"
  BY <1>2, AwaitFacts DEF AggregatorInv, OnTrack, Adding
<1>4. {load[r].path} \in SUBSET Paths
  BY <1>3, LoadFacts DEF AggregatorInv
<1>5. \A q \in Requests \ {r} :
        load[q].op = "add" /\ BroughtOnce(q) =>
          \A p \in {load[r].path} : Key(p) # Key(load[q].path)
  BY <1>3 DEF BroughtOnce
<1>6. /\ "addBeat" \in Awaits /\ "addPaths" \in {"addPaths", "syncPaths"}
      /\ "addPaths" \in Adding /\ "addBeat" \in Adding
  BY AwaitFacts DEF Adding
<1> QED BY <1>1, <1>3, <1>4, <1>5, <1>6, PutProceed

LEMMA SyncPathsInv == ASSUME AggregatorInv, NEW r \in Requests, SyncPaths(r) PROVE AggregatorInv'
<1>1. /\ Proceed(r, "syncPaths", {"paths"}, "syncCorr")
      /\ paths' = Put(paths, load[r].paths)
      /\ correlations' = correlations /\ found' = found
  BY DEF SyncPaths
<1>2. pc[r] = "syncPaths"
  BY <1>1 DEF Proceed
<1>3. load[r].op = "sync"
  BY <1>2 DEF AggregatorInv, OnTrack
<1>4. load[r].paths \in SUBSET Paths
  BY <1>3, LoadFacts DEF AggregatorInv
<1>5. \A q \in Requests \ {r} :
        load[q].op = "add" /\ BroughtOnce(q) =>
          \A p \in load[r].paths : Key(p) # Key(load[q].path)
  BY <1>3 DEF BroughtOnce
<1>6. /\ "syncCorr" \in Awaits /\ "syncPaths" \in {"addPaths", "syncPaths"}
      /\ "syncPaths" \notin Adding /\ "syncCorr" \notin Adding
  BY AwaitFacts DEF Adding
<1> QED BY <1>1, <1>3, <1>4, <1>5, <1>6, PutProceed

(* A quiet step of a request that brings no path of its own.                 *)
LEMMA OtherProceed ==
  ASSUME AggregatorInv, NEW r \in Requests, NEW at \in Awaits \ Adding, NEW kept,
         NEW next \in (Awaits \ Adding) \cup {"answered"}, Proceed(r, at, kept, next),
         paths' = paths, found' = found, correlations \subseteq correlations',
         next \in {"syncPaths", "syncCorr", "syncPeer"} => load[r].op = "sync"
  PROVE  AggregatorInv'
<1>1. next \in Awaits \cup Over /\ next # "store"
  BY DEF Over, Adding
<1>2. next \in Awaits => (at \in Adding <=> next \in Adding)
  BY AwaitFacts DEF Over
<1> QED BY <1>1, <1>2, QuietProceed

LEMMA AddBeatInv == ASSUME AggregatorInv, NEW r \in Requests, AddBeat(r) PROVE AggregatorInv'
<1>1. /\ Proceed(r, "addBeat", {"heartbeats"}, "analyze")
      /\ paths' = paths /\ correlations' = correlations /\ found' = found
  BY DEF AddBeat
<1>2. /\ "addBeat" \in Awaits /\ "analyze" \in Awaits
      /\ "addBeat" \in Adding /\ "analyze" \in Adding /\ "addBeat" \in Late
  BY AwaitFacts DEF Adding, Late
<1> QED BY <1>1, <1>2, QuietProceed

(* The paths are locked for reading from here to the end of the analysis.    *)
LEMMA AnalyzeInv == ASSUME AggregatorInv, NEW r \in Requests, Analyze(r) PROVE AggregatorInv'
<1> DEFINE none == Correlate(paths) = {}
           kept == IF none THEN {} ELSE {"heartbeats", "paths"}
           next == IF none THEN "answered" ELSE "store"
<1>1. /\ Proceed(r, "analyze", kept, next)
      /\ found' = [found EXCEPT ![r] = Correlate(paths)]
      /\ paths' = paths /\ correlations' = correlations
  BY DEF Analyze, dataVars
<1>2. /\ "analyze" \in Awaits /\ Await["analyze"] = On("paths", "read")
      /\ next \in Awaits \cup Over
  BY AwaitFacts DEF Over
<1> HIDE DEF kept, next
<1>3. /\ load' = load
      /\ pc[r] = "analyze" /\ pc'[r] = next
      /\ pc' \in [Requests -> Awaits \cup Over]
      /\ \A q \in Requests : q # r => pc'[q] = pc[q] /\ guard'[q] = guard[q]
      /\ guard' \in [Requests -> [Locks -> Modes]]
      /\ "paths" \in kept => guard'[r]["paths"] = "read"
  BY <1>1, <1>2, ProceedFacts DEF AggregatorInv, On
<1>4. load[r].op = "add"
  BY <1>2, <1>3 DEF AggregatorInv, OnTrack, Adding
<1>5. Correlate(paths) \in SUBSET Correlations
  BY CorrelateTyped DEF AggregatorInv, Typed
<1>6. /\ found' \in [Requests -> SUBSET Correlations]
      /\ found'[r] = Correlate(paths)
      /\ \A q \in Requests : q # r => found'[q] = found[q]
  BY <1>1, <1>5 DEF AggregatorInv, Typed
<1>7. Typed'
  BY <1>1, <1>3, <1>6 DEF AggregatorInv, Typed
<1>8. OnTrack'
  BY <1>3, <1>4, AwaitFacts DEF AggregatorInv, OnTrack, Adding, next, Over
<1>9. StillTrue'
  BY <1>1, <1>3, <1>6 DEF AggregatorInv, StillTrue, kept, next
<1>10. PathKept'
  <2> SUFFICES ASSUME NEW q \in Requests, load[q].op = "add", pc'[q] \in Late, BroughtOnce(q)
               PROVE  load[q].path \in paths
    BY <1>1, <1>3 DEF PathKept, BroughtOnce
  <2>1. pc[q] \in Late
    BY <1>3 DEF Late
  <2> QED BY <2>1 DEF AggregatorInv, PathKept
<1>11. AnsweredPathsAreCorrelated'
  <2>1. CASE ~none
    <3>1. \A q \in Requests : pc'[q] = "answered" => pc[q] = "answered"
      BY <1>3, <2>1 DEF next
    <3> QED BY <3>1, <1>1, <1>3 DEF AggregatorInv, AnsweredPathsAreCorrelated, BroughtOnce
  <2>2. CASE none
    <3>1. \A p, q \in paths : p.cluster # q.cluster => p.cves \cap q.cves = {}
      <4> SUFFICES ASSUME NEW p \in paths, NEW q \in paths, p.cluster # q.cluster,
                          NEW c \in p.cves \cap q.cves
                   PROVE  FALSE
        OBVIOUS
      <4>1. IsFiniteSet(paths)
        BY AggregatorAssumption, FS_Subset DEF AggregatorInv, Typed
      <4> QED BY <2>2, <4>1, SharedIsCorrelated
    <3>2. \A q \in Requests : load[q].op = "add" /\ pc'[q] = "answered" /\ BroughtOnce(q)
                               => load[q].path \in paths
      BY <1>1, <1>3, <1>10 DEF PathKept, Late, BroughtOnce
    <3> QED BY <3>1, <3>2, <1>3 DEF AnsweredPathsAreCorrelated, BroughtOnce
  <2> QED BY <2>1, <2>2
<1> QED BY <1>7, <1>8, <1>9, <1>10, <1>11 DEF AggregatorInv

LEMMA StoreInv ==
  ASSUME AggregatorInv, NEW r \in Requests, Store(r)
  PROVE  AggregatorInv' /\ correlations' = Correlate(paths')
<1>1. /\ Proceed(r, "store", {}, "answered")
      /\ correlations' = found[r]
      /\ found' = [found EXCEPT ![r] = {}]
      /\ paths' = paths
  BY DEF Store
<1>2. "store" \in Awaits /\ "answered" \in Awaits \cup Over
  BY AwaitFacts DEF Over
<1>3. /\ load' = load
      /\ pc[r] = "store" /\ pc'[r] = "answered"
      /\ pc' \in [Requests -> Awaits \cup Over]
      /\ \A q \in Requests : q # r => pc'[q] = pc[q] /\ guard'[q] = guard[q]
      /\ guard' \in [Requests -> [Locks -> Modes]]
  BY <1>1, <1>2, ProceedFacts DEF AggregatorInv
<1>4. correlations' = Correlate(paths)
  BY <1>1, <1>3 DEF AggregatorInv, StillTrue
<1>5. /\ found' \in [Requests -> SUBSET Correlations]
      /\ \A q \in Requests : q # r => found'[q] = found[q]
  BY <1>1 DEF AggregatorInv, Typed
<1>6. Typed'
  BY <1>1, <1>3, <1>5 DEF AggregatorInv, Typed
<1>7. OnTrack'
  BY <1>3, AwaitFacts DEF AggregatorInv, OnTrack, Over
<1>8. StillTrue'
  BY <1>1, <1>3, <1>5 DEF AggregatorInv, StillTrue
<1>9. PathKept'
  <2> SUFFICES ASSUME NEW q \in Requests, load[q].op = "add", pc'[q] \in Late, BroughtOnce(q)
               PROVE  load[q].path \in paths
    BY <1>1, <1>3 DEF PathKept, BroughtOnce
  <2>1. pc[q] \in Late
    BY <1>3 DEF Late
  <2> QED BY <2>1 DEF AggregatorInv, PathKept
<1>10. AnsweredPathsAreCorrelated'
  <2>1. \A q \in Requests : load[q].op = "add" /\ pc'[q] = "answered" /\ BroughtOnce(q)
                             => load[q].path \in paths
    BY <1>1, <1>3, <1>9 DEF PathKept, Late, BroughtOnce
  <2>2. IsFiniteSet(paths)
    BY AggregatorAssumption, FS_Subset DEF AggregatorInv, Typed
  <2> SUFFICES ASSUME NEW q \in Requests, NEW s \in Requests,
                      load[q].op = "add", load[s].op = "add",
                      pc'[q] = "answered", pc'[s] = "answered",
                      BroughtOnce(q), BroughtOnce(s),
                      load[q].path.cluster # load[s].path.cluster,
                      NEW c \in load[q].path.cves \cap load[s].path.cves
               PROVE  \E k \in correlations' : k.cve = c
    BY <1>3 DEF AnsweredPathsAreCorrelated, BroughtOnce
  <2>3. load[q].path \in paths /\ load[s].path \in paths
    BY <2>1
  <2> QED BY <1>4, <2>2, <2>3, SharedIsCorrelated
<1> QED BY <1>1, <1>4, <1>6, <1>7, <1>8, <1>9, <1>10 DEF AggregatorInv

LEMMA OthersInv ==
  ASSUME AggregatorInv, NEW r \in Requests,
         \/ SyncCorr(r) \/ SyncPeer(r) \/ StatPaths(r) \/ StatCorr(r) \/ StatBeats(r)
         \/ GetCorrelations(r) \/ Register(r) \/ GetPeers(r)
  PROVE  AggregatorInv'
<1> DEFINE other == Awaits \ Adding
<1>0. {"syncCorr", "syncPeer", "statPaths", "statCorr", "statBeats", "getCorr",
       "register", "getPeers"} \subseteq other
  BY AwaitFacts DEF Adding
<1> HIDE DEF other
<1>a. ASSUME NEW at \in other, NEW kept, NEW next \in other \cup {"answered"},
             Proceed(r, at, kept, next), paths' = paths, found' = found,
             correlations \subseteq correlations',
             next \in {"syncPaths", "syncCorr", "syncPeer"} => load[r].op = "sync"
      PROVE  AggregatorInv'
  BY <1>a, OtherProceed DEF other
<1>1. CASE SyncCorr(r)
  <2>1. /\ Proceed(r, "syncCorr", {"paths", "correlations"}, "syncPeer")
        /\ paths' = paths /\ found' = found /\ correlations \subseteq correlations'
    BY <1>1 DEF SyncCorr
  <2>2. load[r].op = "sync"
    BY <2>1 DEF Proceed, AggregatorInv, OnTrack
  <2> QED BY <1>0, <1>a, <2>1, <2>2
<1>2. CASE SyncPeer(r)
  BY <1>0, <1>a, <1>2 DEF SyncPeer
<1>3. CASE StatPaths(r)
  BY <1>0, <1>a, <1>3 DEF StatPaths, dataVars
<1>4. CASE StatCorr(r)
  BY <1>0, <1>a, <1>4 DEF StatCorr, dataVars
<1>5. CASE StatBeats(r)
  BY <1>0, <1>a, <1>5 DEF StatBeats, dataVars
<1>6. CASE GetCorrelations(r)
  BY <1>0, <1>a, <1>6 DEF GetCorrelations, dataVars
<1>7. CASE Register(r)
  BY <1>0, <1>a, <1>7 DEF Register
<1>8. CASE GetPeers(r)
  BY <1>0, <1>a, <1>8 DEF GetPeers, dataVars
<1> QED BY <1>1, <1>2, <1>3, <1>4, <1>5, <1>6, <1>7, <1>8

LEMMA StepInv == AggregatorInv /\ [Next]_vars => AggregatorInv'
<1>1. ASSUME AggregatorInv, Next PROVE AggregatorInv'
  <2>1. PICK r \in Requests : Arrive(r) \/ Handle(r) \/ HangUp(r)
    BY <1>1 DEF Next
  <2>2. CASE Arrive(r)
    BY <1>1, <2>2, ArriveInv
  <2>3. CASE HangUp(r)
    BY <1>1, <2>3, HangUpInv
  <2>4. CASE Handle(r)
    BY <1>1, <2>4, AddPathsInv, AddBeatInv, AnalyzeInv, StoreInv, SyncPathsInv, OthersInv
       DEF Handle
  <2> QED BY <2>1, <2>2, <2>3, <2>4
<1>2. ASSUME AggregatorInv, UNCHANGED vars PROVE AggregatorInv'
  <2>1. /\ load' = load /\ paths' = paths /\ correlations' = correlations
        /\ pc' = pc /\ guard' = guard /\ found' = found
    BY <1>2 DEF vars, dataVars
  <2>2. Typed' /\ OnTrack'
    BY <1>2, <2>1 DEF AggregatorInv, Typed, OnTrack
  <2>3. StillTrue' /\ PathKept'
    BY <1>2, <2>1 DEF AggregatorInv, StillTrue, PathKept, BroughtOnce
  <2>4. AnsweredPathsAreCorrelated'
    BY <1>2, <2>1 DEF AggregatorInv, AnsweredPathsAreCorrelated, BroughtOnce
  <2> QED BY <2>2, <2>3, <2>4 DEF AggregatorInv
<1> QED BY <1>1, <1>2

(* Only Store answers a request that waited to store, unless it was not the  *)
(* request that moved.                                                       *)
LEMMA StoreStep ==
  ASSUME AggregatorInv, Next, NEW r \in Requests, pc[r] = "store", pc'[r] = "answered"
  PROVE  correlations' = Correlate(paths')
<1>1. PICK q \in Requests : Arrive(q) \/ Handle(q) \/ HangUp(q)
  BY DEF Next
<1>2. ASSUME NEW at \in Awaits, NEW kept, NEW next \in Awaits \cup Over, at # "store",
             Proceed(q, at, kept, next)
      PROVE  FALSE
  BY <1>2, ProceedFacts DEF AggregatorInv
<1>3. /\ {"answered", "store"} \subseteq Awaits \cup Over
      /\ Awaits \subseteq Awaits \cup Over
  BY AwaitFacts DEF Over
<1>4. CASE Arrive(q)
  <2>1. pc[q] = "new" /\ pc' = [pc EXCEPT ![q] = FirstAwait[load[q].op]]
    BY <1>4 DEF Arrive
  <2> QED BY <2>1 DEF AggregatorInv, Typed
<1>5. CASE HangUp(q)
  <2>1. pc' = [pc EXCEPT ![q] = "gone"]
    BY <1>5 DEF HangUp
  <2> QED BY <2>1 DEF AggregatorInv, Typed
<1>6. CASE Store(q)
  BY <1>6, StoreInv
<1>7. CASE AddPaths(q) \/ AddBeat(q) \/ SyncPaths(q) \/ SyncCorr(q) \/ SyncPeer(q)
  BY <1>2, <1>3, <1>7, AwaitFacts DEF AddPaths, AddBeat, SyncPaths, SyncCorr, SyncPeer
<1>8. CASE StatPaths(q) \/ StatCorr(q) \/ StatBeats(q) \/ GetCorrelations(q)
             \/ Register(q) \/ GetPeers(q)
  BY <1>2, <1>3, <1>8, AwaitFacts
     DEF StatPaths, StatCorr, StatBeats, GetCorrelations, Register, GetPeers
<1>9. CASE Analyze(q)
  <2> DEFINE kept == IF Correlate(paths) = {} THEN {} ELSE {"heartbeats", "paths"}
             next == IF Correlate(paths) = {} THEN "answered" ELSE "store"
  <2>1. Proceed(q, "analyze", kept, next)
    BY <1>9 DEF Analyze
  <2>2. next \in Awaits \cup Over
    BY <1>3
  <2> HIDE DEF kept, next
  <2> QED BY <1>2, <2>1, <2>2, AwaitFacts
<1> QED BY <1>1, <1>4, <1>5, <1>6, <1>7, <1>8, <1>9 DEF Handle

(* The states are of their types; a request waits only for locks that its    *)
(* handler asks for.                                                         *)
THEOREM AggregatorTyped == Spec => [](Typed /\ OnTrack)
<1>1. AggregatorInv => Typed /\ OnTrack
  BY DEF AggregatorInv
<1> QED BY <1>1, InitInv, StepInv, PTL DEF Spec

(* What is stored is true of the paths when it is stored, and two paths that *)
(* were answered and share a CVE over clusters are correlated, for any       *)
(* requests in any order, with clients that hang up where they like: of the  *)
(* steps of receive_path and receive_federation_sync alone.                  *)
THEOREM ReportsStayRight == Spec => ReportsAreRight
<1>1. AggregatorInv => AnsweredPathsAreCorrelated
  BY DEF AggregatorInv
<1>2. AggregatorInv /\ [Next]_vars
      => [\A r \in Requests : pc[r] = "store" /\ pc'[r] = "answered" =>
            correlations' = Correlate(paths')]_vars
  BY StoreStep
<1> QED BY <1>1, <1>2, InitInv, StepInv, PTL
        DEF Spec, ReportsAreRight, StoredReportsAreCurrent
=============================================================================
