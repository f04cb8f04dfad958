-------------------------- MODULE AttackGraph_proofs --------------------------
(* Proofs about AttackGraph: its types, that bursts collapse whatever order  *)
(* transfers come in, that no transfer is lost or counted twice and the      *)
(* updates tell them all, what an enforceable path must contain, and that    *)
(* evidence ranks before its absence. Then about the two graphs that are     *)
(* drawn from what was seen: the chains of attack_graph.rs follow it, and    *)
(* the findings of runtime_attack_graph.rs are told of it.                   *)
EXTENDS AttackGraph, ObservedGraphs, InductionFacts, SequenceTheorems, FiniteSetTheorems, TLAPS

(* The window is measured from the newest edge.                              *)
Newest ==
  /\ conns = <<>> => last = 0
  /\ conns # <<>> => last = conns[Len(conns)].time

Inv == TypeOK /\ Newest /\ BurstsCollapse

LEMMA InitInv == Init => Inv
  BY GraphAssumption, SMTT(30) DEF Init, Inv, TypeOK, Newest, BurstsCollapse, Stages

(* A ranking cut to the top K is a sequence of CVEs.                         *)
LEMMA TopTyped ==
  ASSUME found \subseteq Cves, NEW vs \in SUBSET found, NEW r \in Rankings(vs)
  PROVE  Top(r) \in Seq(Cves)
<1>1. IsFiniteSet(vs)
  BY GraphAssumption, FS_Subset
<1>2. Cardinality(vs) \in Nat
  BY <1>1, FS_CardinalityType
<1>3. r \in [1 .. Cardinality(vs) -> vs]
  BY DEF Rankings, Bijection, Injection
<1>4. r \in Seq(Cves) /\ Len(r) \in Nat
  BY <1>2, <1>3
<1> DEFINE n == IF Len(r) < TopK THEN Len(r) ELSE TopK
<1>5. n \in 0 .. Len(r)
  BY <1>4, GraphAssumption
<1> HIDE DEF n
<1>6. SubSeq(r, 1, n) \in Seq(Cves)
  BY <1>4, <1>5
<1> QED BY <1>6 DEF Top, n

(* Aggregation changes the newest edge, and not its time.                    *)
LEMMA AggregateTyped ==
  ASSUME conns \in Seq(Edge), conns # <<>>
  PROVE  /\ Aggregate \in Seq(Edge)
         /\ Len(Aggregate) = Len(conns)
         /\ \A i \in 1 .. Len(conns) : Aggregate[i].time = conns[i].time
<1> DEFINE n == Len(conns)
<1>1. n \in Nat /\ n > 0 /\ conns \in [1 .. n -> Edge]
  OBVIOUS
<1> DEFINE e == conns[n]
<1> DEFINE c == IF e.confidence + Boost > MaxConfidence THEN MaxConfidence
                ELSE e.confidence + Boost
<1> DEFINE f == [time |-> e.time, bytes |-> e.bytes + Bytes, count |-> e.count + 1,
                 confidence |-> c]
<1>2. e \in Edge
  BY <1>1
<1>3. c \in NewConfidence .. MaxConfidence
  <2>1. e.confidence \in 70 .. 95
    BY <1>2 DEF Edge, MaxConfidence, NewConfidence
  <2>2. \A x \in 70 .. 95 : (IF x + 5 > 95 THEN 95 ELSE x + 5) \in 70 .. 95
    BY SMT
  <2> QED BY <2>1, <2>2, Zenon DEF Boost, MaxConfidence, NewConfidence
<1>4. f \in Edge
  BY SMTT(60), <1>2, <1>3 DEF Edge, Bytes
<1>5. Aggregate = [conns EXCEPT ![n] = f]
  BY Zenon DEF Aggregate
<1> HIDE DEF f, c, e
<1>6. Aggregate \in [1 .. n -> Edge]
  BY <1>1, <1>4, <1>5
<1>7. \A i \in 1 .. n : Aggregate[i] = IF i = n THEN f ELSE conns[i]
  BY <1>1, <1>5
<1>8. f.time = conns[n].time
  BY DEF f, e
<1>9. Aggregate \in Seq(Edge) /\ Len(Aggregate) = n
  BY <1>1, <1>6 
<1> QED BY <1>7, <1>8, <1>9

LEMMA AssociateTyped ==
  ASSUME vulnerable \in [Cves -> [Libs -> Nat]], NEW lib, NEW present
  PROVE  Associate(lib, present) \in [Cves -> [Libs -> Nat]]
  BY DEF Associate
-----------------------------------------------------------------------------
LEMMA CollapseInv ==
  ASSUME Inv, NEW time \in 1 .. MaxTime, Collapse(time),
         UNCHANGED <<workVars, loads, vulnerable, report>>, transfers' = transfers + 1
  PROVE  Inv'
<1>1. conns # <<>>
  BY DEF Inv, Newest, Collapse, Collapses, TypeOK
<1>2. conns' = Aggregate /\ conns \in Seq(Edge)
  BY DEF Collapse, Inv, TypeOK
<1>3. /\ conns' \in Seq(Edge) /\ Len(conns') = Len(conns)
      /\ \A i \in 1 .. Len(conns) : conns'[i].time = conns[i].time
  BY <1>1, <1>2, AggregateTyped
<1>4. updates' \in Seq(Update) /\ collapsed' \in Nat
  <2>1. [type |-> "more", bytes |-> Bytes] \in Update
    BY SMT DEF Update, Bytes
  <2> QED BY <2>1 DEF Collapse, Inv, TypeOK
<1>5. TypeOK'
  <2>1. /\ pc' = pc /\ left' = left /\ loaded' = loaded /\ found' = found
        /\ calls' = calls /\ loads' = loads /\ vulnerable' = vulnerable
        /\ report' = report /\ attempts' = attempts /\ last' = last
    BY DEF workVars, Collapse
  <2>2. TypeOK
    BY Zenon DEF Inv
  <2>3. transfers \in Nat
    BY <2>2 DEF TypeOK
  <2>4. transfers' \in Nat
    BY <2>3
  <2> QED BY <1>3, <1>4, <2>1, <2>2, <2>4 DEF TypeOK
<1>6. Len(conns) \in Nat /\ Len(conns) > 0
  BY <1>1, <1>2
<1>7. conns' # <<>>
  BY <1>3, <1>6
<1>8. Newest'
  BY <1>1, <1>3, <1>6, <1>7 DEF Inv, Newest, Collapse
<1>9. BurstsCollapse'
  <2> SUFFICES ASSUME NEW i \in 1 .. Len(conns) - 1,
                      conns'[i + 1].time > conns'[i].time
               PROVE  conns'[i + 1].time - conns'[i].time >= NetworkWindow
    BY <1>3 DEF BurstsCollapse
  <2>1. i \in 1 .. Len(conns) /\ i + 1 \in 1 .. Len(conns)
    BY <1>6
  <2>2. conns'[i].time = conns[i].time /\ conns'[i + 1].time = conns[i + 1].time
    BY <1>3, <2>1
  <2> QED BY <2>2 DEF Inv, BurstsCollapse
<1> QED BY <1>5, <1>8, <1>9 DEF Inv

LEMMA OpenEdgeInv ==
  ASSUME Inv, NEW time \in 1 .. MaxTime, OpenEdge(time),
         UNCHANGED <<workVars, loads, vulnerable, report>>, transfers' = transfers + 1
  PROVE  Inv'
<1> DEFINE e == [time |-> time, bytes |-> Bytes, count |-> 1, confidence |-> NewConfidence]
<1> DEFINE n == Len(conns)
<1>1. e \in Edge /\ e.time = time
  BY SMT DEF Edge, Bytes, NewConfidence, MaxConfidence
<1>2. conns' = Append(conns, e) /\ last' = time /\ conns \in Seq(Edge)
  BY DEF OpenEdge, Inv, TypeOK
<1> HIDE DEF e
<1>3. /\ conns' \in Seq(Edge) /\ Len(conns') = n + 1 /\ n \in Nat
      /\ conns'[n + 1] = e
      /\ \A i \in 1 .. n : conns'[i] = conns[i]
  BY <1>1, <1>2
<1>4. attempts' \in [Libs -> Nat]
  <2>1. attempts \in [Libs -> Nat] /\ loads \in [Libs -> Nat]
    BY DEF Inv, TypeOK
  <2>2. [l \in Libs |-> attempts[l] + loads[l]] \in [Libs -> Nat]
    BY <2>1
  <2>3. \/ attempts' = [l \in Libs |-> attempts[l] + loads[l]]
        \/ attempts' = attempts
    BY DEF OpenEdge, CorrelateWithLibraries
  <2> QED BY <2>1, <2>2, <2>3
<1>5. updates' \in Seq(Update)
  <2>1. [type |-> "conn", bytes |-> Bytes] \in Update
    BY SMT DEF Update, Bytes
  <2> QED BY <2>1 DEF OpenEdge, Inv, TypeOK
<1>6. TypeOK'
  <2>1. /\ pc' = pc /\ left' = left /\ loaded' = loaded /\ found' = found
        /\ calls' = calls /\ loads' = loads /\ vulnerable' = vulnerable
        /\ report' = report /\ collapsed' = collapsed
    BY DEF workVars, OpenEdge
  <2>2. TypeOK
    BY Zenon DEF Inv
  <2>3. transfers \in Nat
    BY <2>2 DEF TypeOK
  <2>4. transfers' \in Nat
    BY <2>3
  <2>5. last' \in 0 .. MaxTime
    BY <1>2, GraphAssumption
  <2> QED BY <1>3, <1>4, <1>5, <2>1, <2>2, <2>4, <2>5 DEF TypeOK
<1>7. conns' # <<>>
  BY <1>3
<1>8. Newest'
  BY <1>1, <1>2, <1>3, <1>7 DEF Newest
<1>9. BurstsCollapse'
  <2> SUFFICES ASSUME NEW i \in 1 .. n, conns'[i + 1].time > conns'[i].time
               PROVE  conns'[i + 1].time - conns'[i].time >= NetworkWindow
    BY <1>3 DEF BurstsCollapse
  <2>1. CASE i < n
    <3>1. i \in 1 .. n - 1 /\ i + 1 \in 1 .. n
      BY <1>3, <2>1
    <3>2. conns'[i + 1] = conns[i + 1] /\ conns'[i] = conns[i]
      BY <1>3, <3>1
    <3> QED BY <3>1, <3>2 DEF Inv, BurstsCollapse
  <2>2. CASE i = n
    <3>1. conns'[i] = conns[n] /\ conns'[i + 1].time = time
      BY <1>1, <1>3, <2>2
    <3>2. conns # <<>> /\ last = conns[n].time /\ conns[n] \in Edge
      BY <1>2, <1>3, <2>2 DEF Inv, Newest
    <3>3. last > 0 /\ last \in Nat
      BY <3>2 DEF Edge
    <3>4. ~ (time - last < NetworkWindow)
      BY <3>1, <3>2, <3>3 DEF OpenEdge, Collapses
    <3> QED BY SMTT(60), <3>1, <3>2, <3>3, <3>4, GraphAssumption
  <2> QED BY <1>3, <2>1, <2>2
<1> QED BY <1>6, <1>8, <1>9 DEF Inv

LEMMA NextInv == Inv /\ [Next]_vars => Inv'
<1> SUFFICES ASSUME Inv, [Next]_vars PROVE Inv'
  OBVIOUS
<1>1. CASE Begin
  <2>1. TypeOK'
    BY <1>1 DEF Begin, Inv, TypeOK, Stages, graphVars
  <2> QED BY <1>1, <2>1 DEF Begin, Inv, Newest, BurstsCollapse, graphVars
<1>2. ASSUME NEW lib \in Libs, LoadLibrary(lib) PROVE Inv'
  <2>1. vulnerable' \in [Cves -> [Libs -> Nat]]
    BY <1>2, AssociateTyped DEF LoadLibrary, Inv, TypeOK
  <2>2. loads' \in [Libs -> Nat]
    BY <1>2 DEF LoadLibrary, Inv, TypeOK
  <2>3. updates' \in Seq(Update)
    BY <1>2 DEF LoadLibrary, Inv, TypeOK, Update
  <2>4. left' \in SUBSET Libs /\ loaded' \in SUBSET (Libs \ left')
    BY <1>2 DEF LoadLibrary, Inv, TypeOK
  <2>5. TypeOK'
    BY <1>2, <2>1, <2>2, <2>3, <2>4 DEF LoadLibrary, Inv, TypeOK
  <2> QED BY <1>2, <2>5 DEF LoadLibrary, Inv, Newest, BurstsCollapse
<1>3. ASSUME NEW time \in 1 .. MaxTime, Transfer(time) PROVE Inv'
  <2>1. CASE Collapse(time)
    BY <1>3, <2>1, CollapseInv DEF Transfer
  <2>2. CASE OpenEdge(time)
    BY <1>3, <2>2, OpenEdgeInv DEF Transfer
  <2> QED BY <1>3, <2>1, <2>2 DEF Transfer
<1>4. CASE Report
  <2>1. PICK opened \in SUBSET found :
          \E r \in Rankings(Reachable(opened)) : report' = Top(r)
    BY <1>4 DEF Report
  <2>2. Reachable(opened) \in SUBSET found
    BY DEF Reachable
  <2>3. report' \in Seq(Cves)
    BY <2>1, <2>2, TopTyped DEF Inv, TypeOK
  <2>4. updates' \in Seq(Update) /\ pc' \in Stages
    BY <1>4 DEF Report, Stages
  <2>5. TypeOK'
    BY <1>4, <2>3, <2>4 DEF Report, Inv, TypeOK
  <2> QED BY <1>4, <2>5 DEF Report, Inv, Newest, BurstsCollapse
<1>5. CASE UNCHANGED vars
  BY <1>5 DEF vars, workVars, graphVars, Inv, TypeOK, Newest, BurstsCollapse
<1> QED BY <1>1, <1>2, <1>3, <1>4, <1>5 DEF Next

LEMMA AlwaysInv == Spec => []Inv
  BY InitInv, NextInv, PTL DEF Spec
-----------------------------------------------------------------------------
(* The types of the graph, for all libraries, CVEs, matchers and windows.    *)
THEOREM GraphTyped == Spec => []TypeOK
<1>1. Inv => TypeOK
  BY DEF Inv
<1> QED BY <1>1, AlwaysInv, PTL

(* However late and out of order transfers come (process_network_event),     *)
(* connections that follow one another in time are a window apart.           *)
THEOREM BurstsAlwaysCollapse == Spec => []BurstsCollapse
<1>1. Inv => BurstsCollapse
  BY DEF Inv
<1> QED BY <1>1, AlwaysInv, PTL

(* The score of a path without network activity, or of a CVE nobody is known *)
(* or likely to exploit, is below meets_enforcement_criteria at any depth.   *)
LEMMA ScoreNeedsEvidence ==
  ASSUME NEW v, Confidence(v) >= 80
  PROVE  HasNetwork(v) /\ v \in Kev \cup HighEpss
<1> DEFINE a == IF Depth(v) >= 4 THEN 20 ELSE 0
           b == IF Depth(v) = 3 THEN 10 ELSE 0
           c == IF HasNetwork(v) THEN 20 ELSE 0
           d == IF v \in Kev THEN 15 ELSE 0
           e == IF v \in HighEpss THEN 10 ELSE 0
           f == IF Depth(v) < 3 THEN 20 ELSE 0
           g == IF HasLibrary(v) /\ ~IsStrong(v) THEN 10 ELSE 0
           sum == 30 + a + b + c + d + e - f - g
<1>1. Confidence(v) = IF sum > 100 THEN 100 ELSE IF sum < 0 THEN 0 ELSE sum
  BY DEF Confidence
<1>2. a \in {0, 20} /\ b \in {0, 10} /\ ~ (a = 20 /\ b = 10)
  BY SMT
<1>3. d \in {0, 15} /\ e \in {0, 10} /\ c \in {0, 20} /\ f \in {0, 20} /\ g \in {0, 10}
  OBVIOUS
<1>4. c = 0 <=> ~ HasNetwork(v)
  OBVIOUS
<1>5. (d = 0 /\ e = 0) <=> v \notin Kev \cup HighEpss
  OBVIOUS
<1> HIDE DEF a, b, c, d, e, f, g
<1>6. c # 0 /\ ~ (d = 0 /\ e = 0)
  BY <1>1, <1>2, <1>3, SMT
<1> QED BY <1>4, <1>5, <1>6

(* No path is enforced without the whole chain and an exploited CVE, whatever *)
(* parallel edges add to its depth.                                           *)
THEOREM EnforcementNeedsEvidence == Spec => []EnforceableIsEvident
<1>1. EnforceableIsEvident
  BY ScoreNeedsEvidence DEF EnforceableIsEvident, Enforceable
<1> QED BY <1>1, PTL
-----------------------------------------------------------------------------
(* The updates. What a reader knows after a sequence of them is defined by a *)
(* loop; the lemmas unroll it at its end.                                    *)
Knowns == [loads : [Libs -> Nat], edges : Nat, bytes : Nat]

LEMMA HearTyped ==
  ASSUME NEW known \in Knowns, NEW u \in Update
  PROVE  Hear(known, u) \in Knowns
<1>1. CASE u \in [type : {"load"}, lib : Libs]
  <2>1. Hear(known, u) = [known EXCEPT !.loads[u.lib] = @ + 1] /\ u.lib \in Libs
    BY <1>1 DEF Hear
  <2>2. [known.loads EXCEPT ![u.lib] = @ + 1] \in [Libs -> Nat]
    BY <2>1 DEF Knowns
  <2> QED BY <2>1, <2>2 DEF Knowns
<1>2. CASE u \in [type : {"conn", "more"}, bytes : Nat]
  <2>1. CASE u.type = "conn"
    <3>1. Hear(known, u) = [loads |-> known.loads, edges |-> known.edges + 1,
                        bytes |-> known.bytes + u.bytes]
      BY <2>1 DEF Hear
    <3>2. u.bytes \in Nat /\ known.edges \in Nat /\ known.bytes \in Nat
      BY <1>2 DEF Knowns
    <3>3. known.edges + 1 \in Nat /\ known.bytes + u.bytes \in Nat
      BY <3>2
    <3> QED BY <3>1, <3>3 DEF Knowns
  <2>2. CASE u.type = "more"
    <3>1. Hear(known, u) = [known EXCEPT !.bytes = @ + u.bytes]
      BY <2>2 DEF Hear
    <3>2. u.bytes \in Nat /\ known.bytes \in Nat
      BY <1>2 DEF Knowns
    <3>3. known.bytes + u.bytes \in Nat
      BY <3>2
    <3> QED BY <3>1, <3>3 DEF Knowns
  <2> QED BY <1>2, <2>1, <2>2
<1> QED BY <1>1, <1>2 DEF Update

Heard(h, known, us) ==
  h[0] = known /\ \A i \in 1 .. Len(us) : h[i] = Hear(h[i - 1], us[i])

LEMMA HearAllUnrolled ==
  ASSUME NEW known \in Knowns, NEW us \in Seq(Update)
  PROVE  \E h \in [0 .. Len(us) -> Knowns] :
            Heard(h, known, us) /\ HearAll(known, us) = h[Len(us)]
<1> DEFINE n == Len(us)
           step == [x \in (1 .. n) \X Knowns |-> Hear(x[2], us[x[1]])]
<1>1. n \in Nat /\ \A i \in 1 .. n : us[i] \in Update
  OBVIOUS
<1>2. \A i \in 1 .. n, v \in Knowns : Hear(v, us[i]) \in Knowns
  BY <1>1, HearTyped
<1>3. step \in [(1 .. n) \X Knowns -> Knowns]
  BY <1>2
<1>4. \A i \in 1 .. n, v \in Knowns : step[<<i, v>>] = Hear(v, us[i])
  OBVIOUS
<1> HIDE DEF step
<1>5. PICK g \in [0 .. n -> Knowns] : Follows(g, n, known, step)
  BY <1>1, <1>3, StepwiseExists
<1> DEFINE Eq(f) == f = [i \in 0 .. n |-> IF i = 0 THEN known ELSE Hear(f[i - 1], us[i])]
<1>6. Eq(g)
  <2>1. ASSUME NEW i \in 0 .. n PROVE g[i] = IF i = 0 THEN known ELSE Hear(g[i - 1], us[i])
    <3>1. i # 0 => i \in 1 .. n /\ g[i - 1] \in Knowns
      BY <1>1
    <3> QED BY <1>4, <1>5, <3>1 DEF Follows
  <2> HIDE DEF n
  <2> QED BY <2>1
<1> DEFINE after == CHOOSE f : Eq(f)
<1>7. Eq(after)
  <2> HIDE DEF Eq
  <2> QED BY <1>6, Zenon
<1>8. HearAll(known, us) = after[n]
  BY DEF HearAll
<1>9. \A i \in 0 .. n : after[i] = IF i = 0 THEN known ELSE Hear(after[i - 1], us[i])
  <2> HIDE DEF after, n
  <2> QED BY <1>7
<1>10. after = [i \in 0 .. n |-> after[i]]
  <2> HIDE DEF after, n
  <2> QED BY <1>7
<1> HIDE DEF after, Eq, n
<1>11. FollowsWithin(after, n, Knowns, known, step)
  BY <1>1, <1>4, <1>9 DEF FollowsWithin
<1>12. \A i \in 0 .. n : after[i] \in Knowns
  BY <1>1, <1>3, <1>11, StepwiseTyped
<1>13. after \in [0 .. n -> Knowns]
  BY <1>10, <1>12
<1>14. after[0] = known /\ \A i \in 1 .. n : after[i] = Hear(after[i - 1], us[i])
  BY <1>1, <1>9
<1> QED BY <1>8, <1>13, <1>14 DEF n, Heard

LEMMA HearAllTyped ==
  ASSUME NEW known \in Knowns, NEW us \in Seq(Update)
  PROVE  HearAll(known, us) \in Knowns
<1>1. PICK h \in [0 .. Len(us) -> Knowns] :
         Heard(h, known, us) /\ HearAll(known, us) = h[Len(us)]
  BY HearAllUnrolled
<1>2. Len(us) \in 0 .. Len(us)
  OBVIOUS
<1> QED BY <1>1, <1>2

LEMMA HearNothing ==
  ASSUME NEW known \in Knowns
  PROVE  HearAll(known, <<>>) = known
<1> DEFINE none == <<>>
<1>1. none \in Seq(Update) /\ Len(none) = 0
  OBVIOUS
<1> HIDE DEF none
<1>2. PICK h \in [0 .. Len(none) -> Knowns] :
         Heard(h, known, none) /\ HearAll(known, none) = h[Len(none)]
  BY <1>1, HearAllUnrolled
<1>3. h[0] = known
  BY <1>2 DEF Heard
<1> QED BY <1>1, <1>2, <1>3 DEF none

LEMMA HearOneMore ==
  ASSUME NEW known \in Knowns, NEW us \in Seq(Update), NEW u \in Update
  PROVE  HearAll(known, Append(us, u)) = Hear(HearAll(known, us), u)
<1> DEFINE n == Len(us)
           more == Append(us, u)
<1>1. n \in Nat /\ more \in Seq(Update) /\ Len(more) = n + 1 /\ more[n + 1] = u
      /\ \A i \in 1 .. n : more[i] = us[i]
  OBVIOUS
<1> HIDE DEF more
<1>2. PICK h \in [0 .. n -> Knowns] : Heard(h, known, us) /\ HearAll(known, us) = h[n]
  BY HearAllUnrolled
<1>3. PICK g \in [0 .. n + 1 -> Knowns] :
         Heard(g, known, more) /\ HearAll(known, more) = g[n + 1]
  BY <1>1, HearAllUnrolled
<1> DEFINE P == {k \in 0 .. n : h[k] = g[k]}
<1>4. 0 \in P
  BY <1>1, <1>2, <1>3 DEF Heard
<1>5. ASSUME NEW k \in 0 .. n - 1, k \in P PROVE k + 1 \in P
  <2>1. k + 1 \in 1 .. n /\ k + 1 \in 1 .. n + 1 /\ k + 1 \in 0 .. n /\ (k + 1) - 1 = k
    BY <1>1
  <2>2. h[k + 1] = Hear(h[k], us[k + 1]) /\ g[k + 1] = Hear(g[k], us[k + 1])
    BY <1>1, <1>2, <1>3, <2>1 DEF Heard
  <2> QED BY <1>5, <2>1, <2>2
<1> HIDE DEF P
<1>6. 0 .. n \subseteq P
  <2>1. n \in Nat
    BY <1>1
  <2> HIDE DEF n
  <2> QED BY <1>4, <1>5, <2>1, UpTo
<1>7. h[n] = g[n]
  BY <1>1, <1>6 DEF P
<1>8. g[n + 1] = Hear(g[n], u)
  <2>1. n + 1 \in 1 .. n + 1 /\ (n + 1) - 1 = n
    BY <1>1
  <2> QED BY <1>1, <1>3, <2>1 DEF Heard
<1> QED BY <1>2, <1>3, <1>7, <1>8 DEF more
-----------------------------------------------------------------------------
(* No transfer is lost: the counts, the bytes and the updates.               *)
BytesOf(s) == SumFunctionOnSet([i \in DOMAIN s |-> s[i].bytes], DOMAIN s)
CountOf(s) == SumFunctionOnSet([i \in DOMAIN s |-> s[i].count], DOMAIN s)

LEMMA EdgeNumbers == \A e \in Edge : e.bytes \in Int /\ e.count \in Int
  BY DEF Edge

LEMMA SumsOfOneMore ==
  ASSUME NEW s \in Seq(Edge), NEW e \in Edge
  PROVE  /\ BytesOf(Append(s, e)) = BytesOf(s) + e.bytes
         /\ CountOf(Append(s, e)) = CountOf(s) + e.count
<1> DEFINE n == Len(s)
           t == Append(s, e)
           sb == [i \in DOMAIN s |-> s[i].bytes]
           tb == [i \in DOMAIN t |-> t[i].bytes]
           sc == [i \in DOMAIN s |-> s[i].count]
           tc == [i \in DOMAIN t |-> t[i].count]
<1>1. /\ n \in Nat /\ DOMAIN s = 1 .. n /\ DOMAIN t = 1 .. n + 1 /\ t[n + 1] = e
      /\ \A i \in 1 .. n : t[i] = s[i] /\ s[i] \in Edge
  OBVIOUS
<1>2. /\ e.bytes \in Int /\ e.count \in Int
      /\ \A i \in 1 .. n : s[i].bytes \in Int /\ s[i].count \in Int
  BY <1>1, EdgeNumbers
<1> HIDE DEF t, n
<1>3. /\ tb[n + 1] \in Int /\ tc[n + 1] \in Int /\ tb[n + 1] = e.bytes /\ tc[n + 1] = e.count
      /\ \A i \in 1 .. n : sb[i] \in Int /\ tb[i] = sb[i] /\ sc[i] \in Int /\ tc[i] = sc[i]
  BY <1>1, <1>2
<1> HIDE DEF tb, tc, sb, sc
<1>4. SumFunctionOnSet(tb, 1 .. n + 1) = SumFunctionOnSet(sb, 1 .. n) + tb[n + 1]
  BY <1>1, <1>3, SumAppended
<1>5. SumFunctionOnSet(tc, 1 .. n + 1) = SumFunctionOnSet(sc, 1 .. n) + tc[n + 1]
  BY <1>1, <1>3, SumAppended
<1>6. /\ BytesOf(t) = SumFunctionOnSet(tb, 1 .. n + 1) /\ BytesOf(s) = SumFunctionOnSet(sb, 1 .. n)
      /\ CountOf(t) = SumFunctionOnSet(tc, 1 .. n + 1) /\ CountOf(s) = SumFunctionOnSet(sc, 1 .. n)
  BY <1>1 DEF BytesOf, CountOf, tb, tc, sb, sc
<1> QED BY <1>3, <1>4, <1>5, <1>6 DEF t

LEMMA SumsOfOneChanged ==
  ASSUME NEW s \in Seq(Edge), NEW t \in Seq(Edge), NEW k \in 1 .. Len(s),
         Len(t) = Len(s), \A i \in (1 .. Len(s)) \ {k} : t[i] = s[i]
  PROVE  /\ BytesOf(t) = BytesOf(s) - s[k].bytes + t[k].bytes
         /\ CountOf(t) = CountOf(s) - s[k].count + t[k].count
         /\ BytesOf(s) \in Int /\ CountOf(s) \in Int
<1> DEFINE D == 1 .. Len(s)
           sb == [i \in DOMAIN s |-> s[i].bytes]
           tb == [i \in DOMAIN t |-> t[i].bytes]
           sc == [i \in DOMAIN s |-> s[i].count]
           tc == [i \in DOMAIN t |-> t[i].count]
<1>1. DOMAIN s = D /\ DOMAIN t = D /\ k \in D /\ \A i \in D : s[i] \in Edge /\ t[i] \in Edge
  OBVIOUS
<1>2. IsFiniteSet(D)
  <2>1. Len(s) \in Nat
    OBVIOUS
  <2> QED BY <2>1, FS_Interval
<1>3. \A i \in D : /\ s[i].bytes \in Int /\ s[i].count \in Int
                   /\ t[i].bytes \in Int /\ t[i].count \in Int
  <2> HIDE DEF D
  <2> QED BY <1>1, EdgeNumbers
<1>4. \A i \in D \ {k} : t[i] = s[i]
  OBVIOUS
<1> HIDE DEF D
<1>5. \A i \in D : sb[i] = s[i].bytes /\ tb[i] = t[i].bytes /\ sc[i] = s[i].count /\ tc[i] = t[i].count
  BY <1>1
<1>6. /\ BytesOf(t) = SumFunctionOnSet(tb, D) /\ BytesOf(s) = SumFunctionOnSet(sb, D)
      /\ CountOf(t) = SumFunctionOnSet(tc, D) /\ CountOf(s) = SumFunctionOnSet(sc, D)
  BY <1>1 DEF BytesOf, CountOf
<1> HIDE DEF tb, tc, sb, sc
<1>7. SameBut(sb, tb, D, k) /\ SameBut(sc, tc, D, k)
  BY <1>3, <1>4, <1>5 DEF SameBut
<1>8. \A i \in D : sb[i] \in Int /\ sc[i] \in Int
  BY <1>3, <1>5
<1>c. k \in D
  BY <1>1
<1>9. SumFunctionOnSet(tb, D) = SumFunctionOnSet(sb, D) - sb[k] + tb[k]
  BY <1>c, <1>2, <1>7, SumOneChange
<1>10. SumFunctionOnSet(tc, D) = SumFunctionOnSet(sc, D) - sc[k] + tc[k]
  BY <1>c, <1>2, <1>7, SumOneChange
<1>11. SumFunctionOnSet(sb, D) \in Int /\ SumFunctionOnSet(sc, D) \in Int
  BY <1>2, <1>8, SumInt
<1> QED BY <1>1, <1>5, <1>6, <1>9, <1>10, <1>11

LEMMA SumsTyped ==
  ASSUME NEW s \in Seq(Edge)
  PROVE  BytesOf(s) \in Int /\ CountOf(s) \in Int
<1> DEFINE sb == [i \in DOMAIN s |-> s[i].bytes]
           sc == [i \in DOMAIN s |-> s[i].count]
<1>1. DOMAIN s = 1 .. Len(s) /\ Len(s) \in Nat /\ \A i \in DOMAIN s : s[i] \in Edge
  OBVIOUS
<1>2. IsFiniteSet(DOMAIN s)
  BY <1>1, FS_Interval
<1>3. \A i \in DOMAIN s : sb[i] \in Int /\ sc[i] \in Int
  BY <1>1 DEF Edge
<1> HIDE DEF sb, sc
<1>4. SumFunctionOnSet(sb, DOMAIN s) \in Int /\ SumFunctionOnSet(sc, DOMAIN s) \in Int
  BY <1>2, <1>3, SumInt
<1> QED BY <1>4 DEF BytesOf, CountOf, sb, sc

Totals == [loads |-> loads, edges |-> Len(conns), bytes |-> BytesOf(conns)]

Conserved ==
  /\ told \in Knowns
  /\ transfers = Len(conns) + collapsed
  /\ transfers = CountOf(conns)
  /\ transfers * Bytes = BytesOf(conns)
  /\ HearAll(told, updates) = Totals

LEMMA ConservedIsConserved == Conserved => TransfersConserved
  BY DEF Conserved, TransfersConserved, Totals, BytesOf, CountOf, SumFunction

LEMMA InitConserved == Init => Conserved
<1> SUFFICES ASSUME Init PROVE Conserved
  OBVIOUS
<1>1. told \in Knowns /\ HearAll(told, <<>>) = told
  <2>1. told \in Knowns
    BY DEF Init, Nothing, Knowns
  <2> QED BY <2>1, HearNothing
<1>2. CountOf(conns) = 0 /\ BytesOf(conns) = 0
  <2>1. conns = <<>> /\ DOMAIN conns = {}
    BY DEF Init
  <2> QED BY <2>1, SumEmpty DEF CountOf, BytesOf
<1>3. Len(conns) = 0 /\ updates = <<>> /\ transfers = 0 /\ collapsed = 0
  BY DEF Init
<1>4. told = Totals
  BY <1>2, <1>3 DEF Totals, Init, Nothing
<1>5. 0 * Bytes = 0
  BY DEF Bytes
<1> QED BY <1>1, <1>2, <1>3, <1>4, <1>5 DEF Conserved

(* What a reader of the updates knows after one more of each kind.           *)
LEMMA TotalsTyped ==
  ASSUME Inv, Conserved
  PROVE  /\ Totals \in Knowns /\ told \in Knowns /\ updates \in Seq(Update)
         /\ Len(conns) \in Nat /\ BytesOf(conns) \in Int /\ CountOf(conns) \in Int
         /\ transfers \in Nat /\ collapsed \in Nat
<1>1. conns \in Seq(Edge) /\ updates \in Seq(Update) /\ transfers \in Nat /\ collapsed \in Nat
  BY DEF Inv, TypeOK
<1>2. HearAll(told, updates) \in Knowns /\ told \in Knowns
  BY <1>1, HearAllTyped DEF Conserved
<1> QED BY <1>1, <1>2, SumsTyped DEF Conserved

LEMMA OneMoreCounted ==
  ASSUME NEW t \in Nat, NEW n \in Nat, NEW c \in Nat, NEW m \in Int, NEW b \in Int,
         t = n + c, t = m, t * 1024 = b
  PROVE  /\ t + 1 = n + (c + 1) /\ t + 1 = (n + 1) + c
         /\ t + 1 = m + 1 /\ (t + 1) * 1024 = b + 1024
  OBVIOUS

LEMMA TransferConserved ==
  ASSUME Inv, Inv', Conserved, NEW time \in 1 .. MaxTime, Transfer(time)
  PROVE  Conserved'
<1>1. /\ transfers' = transfers + 1 /\ told' = told /\ loads' = loads
      /\ conns \in Seq(Edge) /\ conns' \in Seq(Edge)
      /\ transfers * 1024 = BytesOf(conns) /\ transfers = CountOf(conns)
      /\ transfers = Len(conns) + collapsed
      /\ HearAll(told, updates) = Totals
  BY DEF Transfer, Inv, TypeOK, Conserved, Bytes
<1>t. /\ Totals \in Knowns /\ told \in Knowns /\ updates \in Seq(Update)
      /\ BytesOf(conns) \in Int /\ CountOf(conns) \in Int
      /\ transfers \in Nat /\ collapsed \in Nat
  BY TotalsTyped
<1>n. /\ transfers + 1 = Len(conns) + (collapsed + 1)
      /\ transfers + 1 = (Len(conns) + 1) + collapsed
      /\ transfers + 1 = CountOf(conns) + 1 /\ (transfers + 1) * 1024 = BytesOf(conns) + 1024
  <2>1. Len(conns) \in Nat
    BY <1>1
  <2> QED BY <1>1, <1>t, <2>1, OneMoreCounted
<1>2. CASE Collapse(time)
  <2> DEFINE n == Len(conns)
             u == [type |-> "more", bytes |-> Bytes]
  <2>1. conns # <<>>
    BY <1>2 DEF Inv, Newest, Collapse, Collapses, TypeOK
  <2>2. /\ conns' = Aggregate /\ collapsed' = collapsed + 1 /\ updates' = Append(updates, u)
    BY <1>2 DEF Collapse
  <2>3. n \in 1 .. n /\ n \in Nat /\ conns[n] \in Edge
    BY <1>1, <2>1
  <2>4. Len(conns') = n /\ \A i \in (1 .. n) \ {n} : conns'[i] = conns[i]
    BY <1>1, <2>1, <2>2, AggregateTyped DEF Aggregate
  <2>5. conns'[n].bytes = conns[n].bytes + 1024 /\ conns'[n].count = conns[n].count + 1
    BY <1>1, <2>2, <2>3 DEF Aggregate, Bytes
  <2>6. conns[n].bytes \in Nat /\ conns[n].count \in Nat
    BY <2>3 DEF Edge
  <2> HIDE DEF n
  <2>7. /\ BytesOf(conns') = BytesOf(conns) - conns[n].bytes + conns'[n].bytes
        /\ CountOf(conns') = CountOf(conns) - conns[n].count + conns'[n].count
    BY ZenonT(60), <1>1, <2>3, <2>4, SumsOfOneChanged DEF n
  <2>8. BytesOf(conns') = BytesOf(conns) + 1024 /\ CountOf(conns') = CountOf(conns) + 1
    BY SMTT(60), <1>t, <2>5, <2>6, <2>7
  <2>9. u \in Update /\ u.type = "more" /\ u.bytes = 1024
    BY DEF Update, Bytes
  <2> HIDE DEF u
  <2>10. HearAll(told, Append(updates, u)) = Hear(Totals, u)
    BY SMTT(60), <1>1, <2>9, HearOneMore, TotalsTyped
  <2>11. Hear(Totals, u) = [Totals EXCEPT !.bytes = @ + u.bytes]
    BY <2>9 DEF Hear
  <2>12. [Totals EXCEPT !.bytes = @ + u.bytes] = Totals'
    BY <1>1, <2>4, <2>8, <2>9 DEF Totals, n
  <2>13. HearAll(told', updates') = Totals'
    BY <1>1, <2>2, <2>10, <2>11, <2>12
  <2>14. /\ transfers' = Len(conns') + collapsed' /\ transfers' = CountOf(conns')
         /\ transfers' * Bytes = BytesOf(conns')
    <3>1. transfers' = transfers + 1 /\ collapsed' = collapsed + 1 /\ Len(conns') = Len(conns)
      BY <1>1, <2>2, <2>4 DEF n
    <3>2. transfers' = Len(conns') + collapsed'
      BY <1>n, <3>1
    <3>3. transfers' = CountOf(conns')
      BY <1>n, <2>8, <3>1
    <3>4. transfers' * Bytes = BytesOf(conns')
      BY <1>n, <2>8, <3>1 DEF Bytes
    <3> QED BY <3>2, <3>3, <3>4
  <2> QED BY <1>1, <1>t, <2>13, <2>14 DEF Conserved, BytesOf, CountOf
<1>3. CASE OpenEdge(time)
  <2> DEFINE n == Len(conns)
             e == [time |-> time, bytes |-> Bytes, count |-> 1, confidence |-> NewConfidence]
             u == [type |-> "conn", bytes |-> Bytes]
  <2>1. /\ conns' = Append(conns, e) /\ collapsed' = collapsed /\ updates' = Append(updates, u)
    BY <1>3 DEF OpenEdge
  <2>2. e \in Edge /\ e.bytes = 1024 /\ e.count = 1
    BY SMT DEF Edge, Bytes, NewConfidence, MaxConfidence
  <2>3. u \in Update /\ u.type = "conn" /\ u.bytes = 1024
    BY DEF Update, Bytes
  <2> HIDE DEF e, u
  <2>4. Len(conns') = n + 1 /\ n \in Nat
    BY <1>1, <2>1
  <2>5. BytesOf(conns') = BytesOf(conns) + 1024 /\ CountOf(conns') = CountOf(conns) + 1
    <3>0. conns \in Seq(Edge) /\ e \in Edge
      BY <1>1, <2>2
    <3>1. /\ BytesOf(Append(conns, e)) = BytesOf(conns) + e.bytes
          /\ CountOf(Append(conns, e)) = CountOf(conns) + e.count
      BY <3>0, SumsOfOneMore
    <3>2. BytesOf(conns') = BytesOf(conns) + e.bytes /\ CountOf(conns') = CountOf(conns) + e.count
      BY <2>1, <3>1, Zenon DEF BytesOf, CountOf
    <3> QED BY <2>2, <3>2
  <2>6. HearAll(told, Append(updates, u)) = Hear(Totals, u)
    BY SMTT(60), <1>1, <2>3, HearOneMore, TotalsTyped
  <2>7. Hear(Totals, u) = [loads |-> Totals.loads, edges |-> Totals.edges + 1,
                           bytes |-> Totals.bytes + 1024]
    BY <2>3 DEF Hear
  <2>8. Hear(Totals, u) = Totals'
    <3>1. Totals' = [loads |-> loads, edges |-> Len(conns) + 1, bytes |-> BytesOf(conns) + 1024]
      BY <1>1, <2>4, <2>5 DEF Totals, BytesOf
    <3>2. /\ Totals.loads = loads /\ Totals.edges = Len(conns) /\ Totals.bytes = BytesOf(conns)
      BY DEF Totals
    <3> QED BY <2>7, <3>1, <3>2
  <2>9. HearAll(told', updates') = Totals'
    BY <1>1, <2>1, <2>6, <2>8
  <2>10. /\ transfers' = Len(conns') + collapsed' /\ transfers' = CountOf(conns')
         /\ transfers' * Bytes = BytesOf(conns')
    <3>1. transfers' = transfers + 1 /\ collapsed' = collapsed /\ Len(conns') = Len(conns) + 1
      BY <1>1, <2>1, <2>4 DEF n
    <3>2. transfers' = Len(conns') + collapsed'
      BY <1>n, <3>1
    <3>3. transfers' = CountOf(conns')
      BY <1>n, <2>5, <3>1
    <3>4. transfers' * Bytes = BytesOf(conns')
      BY <1>n, <2>5, <3>1 DEF Bytes
    <3> QED BY <3>2, <3>3, <3>4
  <2> QED BY <1>1, <1>t, <2>9, <2>10 DEF Conserved, BytesOf, CountOf
<1> QED BY <1>2, <1>3 DEF Transfer

LEMMA NextConserved == Inv /\ Inv' /\ Conserved /\ [Next]_vars => Conserved'
<1> SUFFICES ASSUME Inv, Inv', Conserved, [Next]_vars PROVE Conserved'
  OBVIOUS
<1>1. CASE Begin
  BY <1>1 DEF Begin, graphVars, Conserved, Totals, BytesOf, CountOf
<1>2. ASSUME NEW lib \in Libs, LoadLibrary(lib) PROVE Conserved'
  <2> DEFINE u == [type |-> "load", lib |-> lib]
  <2>1. /\ loads' = [loads EXCEPT ![lib] = @ + 1] /\ updates' = Append(updates, u)
        /\ UNCHANGED <<conns, collapsed, transfers, told>>
    BY <1>2 DEF LoadLibrary
  <2>2. u \in Update /\ u.type = "load" /\ u.lib = lib
    BY DEF Update
  <2> HIDE DEF u
  <2>3. HearAll(told, Append(updates, u)) = Hear(Totals, u)
    BY <2>2, HearOneMore, TotalsTyped DEF Conserved
  <2>4. Hear(Totals, u) = [Totals EXCEPT !.loads[lib] = @ + 1]
    BY <2>2 DEF Hear
  <2>5. [Totals EXCEPT !.loads[lib] = @ + 1] = Totals'
    <3>1. Totals' = [loads |-> loads', edges |-> Len(conns), bytes |-> BytesOf(conns)]
      BY <2>1 DEF Totals, BytesOf
    <3>2. /\ Totals.loads = loads /\ Totals.edges = Len(conns) /\ Totals.bytes = BytesOf(conns)
      BY DEF Totals
    <3>3. [Totals EXCEPT !.loads[lib] = @ + 1]
            = [loads |-> [Totals.loads EXCEPT ![lib] = @ + 1],
               edges |-> Totals.edges, bytes |-> Totals.bytes]
      <4> DEFINE T == Totals
      <4>1. T \in Knowns
        BY TotalsTyped
      <4> HIDE DEF T
      <4>2. [T EXCEPT !.loads[lib] = @ + 1]
              = [loads |-> [T.loads EXCEPT ![lib] = @ + 1], edges |-> T.edges, bytes |-> T.bytes]
        BY <4>1 DEF Knowns
      <4> QED BY <4>2 DEF T
    <3> QED BY <2>1, <3>1, <3>2, <3>3, Zenon
  <2>6. HearAll(told', updates') = Totals'
    BY <2>1, <2>3, <2>4, <2>5
  <2> QED BY <2>1, <2>6 DEF Conserved, BytesOf, CountOf
<1>3. ASSUME NEW time \in 1 .. MaxTime, Transfer(time) PROVE Conserved'
  BY <1>3, TransferConserved
<1>4. CASE Report
  <2>1. told' = HearAll(told, updates) /\ updates' = <<>>
        /\ UNCHANGED <<conns, collapsed, transfers, loads>>
    BY <1>4 DEF Report
  <2>2. told' = Totals /\ Totals \in Knowns /\ Totals' = Totals
    BY <2>1, TotalsTyped DEF Conserved, Totals, BytesOf
  <2>3. HearAll(told', updates') = Totals'
    BY <2>1, <2>2, HearNothing
  <2> QED BY <2>1, <2>2, <2>3 DEF Conserved, BytesOf, CountOf
<1>5. CASE UNCHANGED vars
  BY <1>5 DEF vars, workVars, graphVars, Conserved, Totals, BytesOf, CountOf
<1> QED BY <1>1, <1>2, <1>3, <1>4, <1>5 DEF Next

(* Whatever the transfers and their order: each is counted with its bytes by *)
(* one edge, and the updates that were drained and those that wait tell the  *)
(* graph as it is.                                                           *)
THEOREM NoTransferIsLost == Spec => []TransfersConserved
<1>1. Spec => []Conserved
  BY AlwaysInv, InitConserved, NextConserved, PTL DEF Spec
<1> QED BY <1>1, ConservedIsConserved, PTL
-----------------------------------------------------------------------------
(* Evidence ranks first. A path without it is one node of a low confidence,  *)
(* one with network activity has at least four nodes and twice the           *)
(* confidence.                                                               *)
LEMMA ParallelCounts ==
  ASSUME NEW n \in [Libs -> Nat]
  PROVE  Parallel(n) \in Nat /\ (Parallel(n) = 0 <=> \A l \in Libs : n[l] = 0)
<1> DEFINE edges == [l \in Libs |-> {l} \X (1 .. n[l])]
           All == {edges[l] : l \in Libs}
<1>1. IsFiniteSet(All)
  <2>0. edges \in [Libs -> All] /\ \A T \in All : \E l \in Libs : edges[l] = T
    <3>1. edges = [l \in Libs |-> edges[l]] /\ \A T \in All : \E l \in Libs : edges[l] = T
      OBVIOUS
    <3> HIDE DEF edges
    <3> QED BY <3>1
  <2> HIDE DEF edges, All
  <2>1. edges \in Surjection(Libs, All)
    BY <2>0 DEF Surjection
  <2> QED BY <2>1, GraphAssumption, FS_Surjection
<1>2. \A l \in Libs : IsFiniteSet(edges[l])
  <2> SUFFICES ASSUME NEW l \in Libs PROVE IsFiniteSet({l} \X (1 .. n[l]))
    OBVIOUS
  <2>1. n[l] \in Nat
    OBVIOUS
  <2>2. IsFiniteSet({l})
    BY FS_Singleton
  <2>3. IsFiniteSet(1 .. n[l])
    <3> DEFINE m == n[l]
    <3>1. m \in Int /\ 1 \in Int
      BY <2>1
    <3> HIDE DEF m
    <3>2. IsFiniteSet(1 .. m)
      BY <3>1, FS_Interval
    <3> QED BY <3>2 DEF m
  <2> QED BY <2>2, <2>3, FS_Product
<1>3. Parallel(n) = Cardinality(UNION All)
  BY DEF Parallel
<1>4. \A T \in All : IsFiniteSet(T)
  BY <1>2
<1>5. (UNION All = {}) <=> \A l \in Libs : n[l] = 0
  <2>1. ASSUME NEW l \in Libs, n[l] # 0 PROVE UNION All # {}
    <3>1. <<l, 1>> \in edges[l]
      BY <2>1
    <3> QED BY <3>1
  <2>2. ASSUME \A l \in Libs : n[l] = 0 PROVE UNION All = {}
    <3>1. \A l \in Libs : edges[l] = {}
      BY <2>2
    <3> QED BY <3>1
  <2> QED BY <2>1, <2>2
<1> HIDE DEF All
<1>6. IsFiniteSet(UNION All)
  BY <1>1, <1>4, FS_UNION
<1> QED BY <1>3, <1>5, <1>6, FS_CardinalityType, FS_EmptySet

LEMMA HitsAndVisits ==
  ASSUME TypeOK, NEW v \in Cves
  PROVE  /\ Hits(v) \in Nat /\ Visits(v) \in Nat
         /\ Visits(v) > 0 => Hits(v) > 0
<1> DEFINE both == [l \in Libs |-> vulnerable[v][l] * loads[l]]
<1>1. /\ vulnerable[v] \in [Libs -> Nat]
      /\ \A l \in Libs : vulnerable[v][l] \in Nat /\ loads[l] \in Nat
  BY DEF TypeOK
<1>2. both \in [Libs -> Nat]
  <2>1. \A a, b \in Nat : a * b \in Nat
    OBVIOUS
  <2> QED BY <1>1, <2>1
<1>3. ASSUME \A l \in Libs : vulnerable[v][l] = 0 PROVE \A l \in Libs : both[l] = 0
  <2>1. \A b \in Nat : 0 * b = 0
    OBVIOUS
  <2> QED BY <1>1, <1>3, <2>1
<1>4. Hits(v) = Parallel(vulnerable[v]) /\ Visits(v) = Parallel(both)
  BY DEF Hits, Visits
<1> HIDE DEF both
<1>5. Hits(v) \in Nat /\ Visits(v) \in Nat
  BY <1>1, <1>2, <1>4, ParallelCounts
<1>6. Hits(v) = 0 => Visits(v) = 0
  BY <1>1, <1>2, <1>3, <1>4, ParallelCounts
<1> QED BY <1>5, <1>6

LEMMA WithoutEvidence ==
  ASSUME TypeOK, NEW u \in Cves, ~HasLibrary(u)
  PROVE  Confidence(u) \in 10 .. 35 /\ Worth(u) = Confidence(u) * Score[u] * 1
<1>1. Hits(u) = 0 /\ Visits(u) = 0
  BY HitsAndVisits DEF HasLibrary
<1>2. Depth(u) = 1 /\ ~HasNetwork(u)
  BY <1>1 DEF Depth, HasNetwork
<1>3. Confidence(u) \in 10 .. 35
  BY <1>2, SMT DEF Confidence
<1>4. Worth(u) = Confidence(u) * Score[u] * 1
  BY <1>2 DEF Worth
<1> QED BY <1>3, <1>4

LEMMA WithNetwork ==
  ASSUME TypeOK, NEW v \in Cves, HasNetwork(v)
  PROVE  /\ HasLibrary(v) /\ Confidence(v) \in 60 .. 100
         /\ \E length \in {4, 5} : Worth(v) = Confidence(v) * Score[v] * length
<1>1. /\ Hits(v) \in Nat /\ Visits(v) \in Nat /\ Visits(v) > 0 /\ Hits(v) > 0
      /\ Len(conns) \in Nat /\ Len(conns) > 0
  <2>1. conns # <<>> /\ conns \in Seq(Edge)
    BY DEF HasNetwork, TypeOK
  <2>2. Len(conns) \in Nat /\ Len(conns) > 0
    BY <2>1
  <2> QED BY <2>2, HitsAndVisits DEF HasNetwork
<1>2. Depth(v) = 2 + Hits(v) + Visits(v) * Len(conns)
  BY <1>1 DEF Depth
<1>3. \A a, b \in Nat : a > 0 /\ b > 0 => a * b \in Nat /\ a * b > 0
  OBVIOUS
<1>4. Depth(v) \in Nat /\ Depth(v) >= 4
  BY <1>1, <1>2, <1>3
<1>5. Confidence(v) \in 60 .. 100
  BY <1>4, SMT DEF Confidence
<1>6. \E length \in {4, 5} : Worth(v) = Confidence(v) * Score[v] * length
  BY <1>4 DEF Worth
<1> QED BY <1>1, <1>5, <1>6 DEF HasLibrary

LEMMA EvidenceIsWorthMore ==
  ASSUME TypeOK, NEW u \in Cves, NEW v \in Cves, ~HasLibrary(u), HasNetwork(v),
         Score[v] >= Score[u], Score[v] > 0
  PROVE  /\ Worth(u) \in Int /\ Worth(v) \in Int /\ Worth(v) > Worth(u)
         /\ HasLibrary(v)
<1>1. Score[u] \in Nat /\ Score[v] \in Nat
  BY GraphAssumption
<1>2. Confidence(u) \in 10 .. 35 /\ Worth(u) = Confidence(u) * Score[u] * 1
  BY WithoutEvidence
<1>3. PICK length \in {4, 5} : Worth(v) = Confidence(v) * Score[v] * length
  BY WithNetwork
<1>4. Confidence(v) \in 60 .. 100 /\ HasLibrary(v)
  BY WithNetwork
<1>5. \A a, b, s, t, n \in Nat : a <= 35 /\ b >= 60 /\ t >= s /\ t > 0 /\ n >= 4
        => b * t * n > a * s * 1 /\ b * t * n \in Nat /\ a * s * 1 \in Nat
  <2> SUFFICES ASSUME NEW a \in Nat, NEW b \in Nat, NEW s \in Nat, NEW t \in Nat, NEW n \in Nat,
                      a <= 35, b >= 60, t >= s, t > 0, n >= 4
               PROVE  b * t * n > a * s * 1 /\ b * t * n \in Nat /\ a * s * 1 \in Nat
    OBVIOUS
  <2>1. a * s <= 35 * s /\ a * s \in Nat
    OBVIOUS
  <2>2. 60 * t <= b * t /\ b * t \in Nat
    OBVIOUS
  <2>3. \A x \in Nat : x * n >= x * 4 /\ x * n \in Nat
    OBVIOUS
  <2>4. b * t * n >= b * t * 4 /\ b * t * n \in Nat
    BY <2>2, <2>3
  <2> QED BY <2>1, <2>2, <2>4
<1> DEFINE a == Confidence(u)
           b == Confidence(v)
<1>6. a \in Nat /\ b \in Nat /\ length \in Nat /\ a <= 35 /\ b >= 60 /\ length >= 4
  BY <1>2, <1>3, <1>4
<1> HIDE DEF a, b
<1>7. /\ b * Score[v] * length > a * Score[u] * 1
      /\ b * Score[v] * length \in Nat /\ a * Score[u] * 1 \in Nat
  BY <1>1, <1>5, <1>6
<1>8. Worth(u) = a * Score[u] * 1 /\ Worth(v) = b * Score[v] * length
  BY <1>2, <1>3 DEF a, b
<1> QED BY <1>4, <1>7, <1>8

LEMMA RankedFirst ==
  ASSUME TypeOK, NEW opened \in SUBSET found, NEW r \in Rankings(Reachable(opened)),
         NEW i \in DOMAIN Top(r), NEW v \in Reachable({}),
         HasNetwork(v), ~HasLibrary(Top(r)[i]),
         Score[v] >= Score[Top(r)[i]], Score[v] > 0
  PROVE  \E j \in 1 .. i - 1 : Top(r)[j] = v
<1> DEFINE R == Reachable(opened)
           n == Cardinality(R)
           k == IF n < TopK THEN n ELSE TopK
<1>1. R \subseteq Cves /\ v \in R
  BY DEF Reachable, TypeOK
<1>2. n \in Nat
  <2>1. IsFiniteSet(R)
    <3>1. IsFiniteSet(Cves)
      BY GraphAssumption
    <3> QED BY <1>1, <3>1, FS_Subset
  <2> QED BY <2>1, FS_CardinalityType
<1>3. /\ r \in [1 .. n -> R]
      /\ \A x \in R : \E j \in 1 .. n : r[j] = x
      /\ \A a, b \in 1 .. n : a < b => Worth(r[a]) >= Worth(r[b])
  BY DEF Rankings, Bijection, Injection, Surjection
<1> HIDE DEF n
<1>4. r \in Seq(R) /\ Len(r) = n
  BY <1>2, <1>3
<1>5. k \in 0 .. n
  BY <1>2, GraphAssumption
<1>6. Top(r) = SubSeq(r, 1, k)
  BY <1>4 DEF Top
<1> HIDE DEF k, R
<1>7. Len(Top(r)) = k /\ \A j \in 1 .. k : Top(r)[j] = r[j]
  BY <1>2, <1>4, <1>5, <1>6
<1>8. i \in 1 .. k /\ i \in 1 .. n
  <2>1. DOMAIN Top(r) = 1 .. k
    BY <1>2, <1>4, <1>5, <1>6
  <2> QED BY <1>2, <1>5, <2>1
<1>9. PICK j \in 1 .. n : r[j] = v
  BY <1>1, <1>3
<1>10. Top(r)[i] = r[i] /\ r[i] \in Cves /\ v \in Cves
  BY <1>1, <1>3, <1>7, <1>8
<1>11. /\ Worth(r[i]) \in Int /\ Worth(v) \in Int /\ Worth(v) > Worth(r[i])
       /\ HasLibrary(v)
  BY <1>10, EvidenceIsWorthMore
<1>12. ~ (i < j)
  <2> SUFFICES ASSUME i < j PROVE FALSE
    OBVIOUS
  <2>1. Worth(r[i]) >= Worth(v)
    BY <1>3, <1>8, <1>9
  <2> QED BY <1>11, <2>1
<1>13. i # j
  BY <1>9, <1>10, <1>11
<1>14. j \in 1 .. i - 1 /\ j \in 1 .. k
  BY <1>2, <1>5, <1>8, <1>9, <1>12, <1>13
<1> QED BY <1>7, <1>9, <1>14

LEMMA NextRanked == TypeOK /\ EvidenceRanksFirst /\ [Next]_vars => EvidenceRanksFirst'
<1> SUFFICES ASSUME TypeOK, EvidenceRanksFirst, [Next]_vars PROVE EvidenceRanksFirst'
  OBVIOUS
<1>1. CASE Report
  <2>1. UNCHANGED <<found, loaded, conns, loads, vulnerable>>
    BY <1>1 DEF Report
  <2>2. PICK opened \in SUBSET found :
          \E r \in Rankings(Reachable(opened)) : report' = Top(r)
    BY <1>1 DEF Report
  <2>3. PICK r \in Rankings(Reachable(opened)) : report' = Top(r)
    BY <2>2
  <2>4. \A i \in DOMAIN report', v \in Reachable({}) :
          HasNetwork(v) /\ ~ HasLibrary(report'[i])
          /\ Score[v] >= Score[report'[i]] /\ Score[v] > 0
          => \E j \in 1 .. i - 1 : report'[j] = v
    BY <2>3, RankedFirst
  <2>5. Reachable({})' = Reachable({})
    BY <2>1 DEF Reachable
  <2>6. ASSUME NEW v PROVE (HasNetwork(v)' <=> HasNetwork(v)) /\ (HasLibrary(v)' <=> HasLibrary(v))
    BY <2>1 DEF HasNetwork, HasLibrary, Hits, Visits, Parallel
  <2> QED BY <2>4, <2>5, <2>6 DEF EvidenceRanksFirst
<1>2. CASE Begin \/ (\E lib \in Libs : LoadLibrary(lib)) \/ (\E time \in 1 .. MaxTime : Transfer(time))
  <2>1. pc' = "busy"
    BY <1>2 DEF Begin, LoadLibrary, Transfer, workVars
  <2> QED BY <2>1 DEF EvidenceRanksFirst
<1>3. CASE UNCHANGED vars
  <2>1. UNCHANGED <<pc, found, loaded, conns, loads, vulnerable, report>>
    BY <1>3 DEF vars, workVars, graphVars
  <2>2. Reachable({})' = Reachable({})
    BY <2>1 DEF Reachable
  <2>3. ASSUME NEW v PROVE (HasNetwork(v)' <=> HasNetwork(v)) /\ (HasLibrary(v)' <=> HasLibrary(v))
    BY <2>1 DEF HasNetwork, HasLibrary, Hits, Visits, Parallel
  <2> QED BY <2>1, <2>2, <2>3 DEF EvidenceRanksFirst
<1> QED BY <1>1, <1>2, <1>3 DEF Next

(* Whatever has piled up in the graph: a reported CVE that nothing in it     *)
(* supports has before it every CVE with network activity that scores no     *)
(* less. (get_top_k_paths, calculate_path_confidence)                        *)
THEOREM EvidenceAlwaysRanksFirst == Spec => []EvidenceRanksFirst
<1>1. Init => EvidenceRanksFirst
  <2>1. DOMAIN <<>> = {}
    OBVIOUS
  <2> QED BY <2>1 DEF Init, EvidenceRanksFirst
<1> QED BY <1>1, GraphTyped, NextRanked, PTL DEF Spec
-----------------------------------------------------------------------------
(* The chains of attack_graph.rs. Nodes are added at the end and never       *)
(* twice, so what a position means stays what it was.                        *)
Orders == {o \in Seq(Ids) : \A i, j \in 1 .. Len(o) : o[i] = o[j] => i = j}

Continues(o, q) == Len(o) <= Len(q) /\ \A i \in 1 .. Len(o) : q[i] = o[i]

Holds(o, id) == \E i \in 1 .. Len(o) : o[i] = id

LinksOf(o) == [from : 1 .. Len(o), to : 1 .. Len(o), kind : LinkKinds]

(* Edges join ids, those of s.                                               *)
Observed(o, ls, s) == \A p : p \in s <=> \E i \in 1 .. Len(ls) : p = <<o[ls[i].from], o[ls[i].to]>>

Pairs(o, new) == {<<o[l.from], o[l.to]>> : l \in Range(new)}

(* The id at the first position that holds an address.                       *)
Owner(o, a, id) ==
  \E i \in 1 .. Len(o) :
    /\ o[i] = id /\ <<id, a>> \in Named
    /\ \A j \in 1 .. i - 1 : <<o[j], a>> \notin Named

(* The graph knows what the first n requests have brought, each id in turn.  *)
NamesFollow(o, past, n) ==
  /\ \A id \in Ids : Holds(o, id) <=> Known(past, n, id)
  /\ \A id \in Ids : \A a : Owner(o, a, id) <=> Owns(past, n, id, a)

SeenBy(past, n) == {p \in Ids \X Ids : \E k \in 1 .. n : Draws(past, k, p[1], p[2])}

GraphInv(o, ls, past, n) ==
  /\ o \in Orders /\ ls \in Seq(LinksOf(o))
  /\ NamesFollow(o, past, n) /\ Observed(o, ls, SeenBy(past, n))

Requests ==
  [type : {"node"}, id : Ids] \union Findings \union Connections
    \union [type : {"edge"}, from : Ids, to : Ids, kind : LinkKinds]

ChainsInv ==
  /\ nodes \in Orders
  /\ links \in Seq(LinksOf(nodes))
  /\ Observed(nodes, links, Seen(requested))
  /\ requested \in Seq(Requests)
  /\ NamesFollow(nodes, requested, Len(requested))

LEMMA WithNodeIs ==
  ASSUME NEW o \in Orders, NEW id \in Ids, NEW q, q = WithNode(o, id)
  PROVE  /\ q \in Orders /\ Continues(o, q)
         /\ \/ Holds(o, id) /\ q = o
            \/ ~Holds(o, id) /\ Len(q) = Len(o) + 1 /\ q[Len(o) + 1] = id
<1>1. PICK n \in Nat : n = Len(o) /\ DOMAIN o = 1 .. n
  BY DEF Orders
<1>2. o \in Seq(Ids) /\ (\A i \in 1 .. n : o[i] \in Ids) /\ \A i, j \in 1 .. n : o[i] = o[j] => i = j
  BY <1>1 DEF Orders
<1>3. CASE id \in Range(o)
  <2>1. q = o /\ \E i \in 1 .. n : o[i] = id
    BY <1>1, <1>3 DEF WithNode, Range
  <2> QED BY <1>1, <2>1 DEF Continues, Holds
<1>4. CASE id \notin Range(o)
  <2>1. q = Append(o, id)
    BY <1>4 DEF WithNode
  <2>2. /\ q \in Seq(Ids) /\ Len(q) = n + 1 /\ q[n + 1] = id
        /\ \A i \in 1 .. n : q[i] = o[i]
    BY <1>1, <1>2, <2>1
  <2>3. \A i \in 1 .. n : o[i] # id
    BY <1>1, <1>4 DEF Range
  <2>4. ASSUME NEW i \in 1 .. n + 1, NEW j \in 1 .. n + 1, q[i] = q[j] PROVE i = j
    BY <1>2, <2>2, <2>3, <2>4
  <2>5. q \in Orders
    BY <2>2, <2>4 DEF Orders
  <2>6. ~Holds(o, id)
    BY <1>1, <2>3 DEF Holds
  <2> QED BY <1>1, <2>2, <2>5, <2>6 DEF Continues
<1> QED BY <1>3, <1>4

(* A request brings one id or none.                                          *)
LEMMA RequestBrings ==
  ASSUME NEW o, NEW r \in Requests
  PROVE  \/ WithNodeOf(o, r) = o /\ \A x : ~Adds(r, x)
         \/ \E x \in Ids : WithNodeOf(o, r) = WithNode(o, x) /\ \A y : Adds(r, y) <=> y = x
<1>1. CASE r \in [type : {"node"}, id : Ids]
  BY <1>1 DEF WithNodeOf, Adds
<1>2. CASE r \in Findings
  BY <1>2 DEF WithNodeOf, Adds, Findings, IdsOf
<1>3. CASE r \in Connections
  BY <1>3 DEF WithNodeOf, Adds, Connections
<1>4. CASE r \in [type : {"edge"}, from : Ids, to : Ids, kind : LinkKinds]
  BY <1>4 DEF WithNodeOf, Adds
<1> QED BY <1>1, <1>2, <1>3, <1>4 DEF Requests

(* What is known after one more request.                                     *)
LEMMA KnownMore ==
  ASSUME NEW past, NEW n \in Nat, NEW id
  PROVE  Known(past, n + 1, id) <=> Known(past, n, id) \/ Adds(past[n + 1], id)
<1>1. \A k : k \in 1 .. n + 1 <=> k \in 1 .. n \/ k = n + 1
  OBVIOUS
<1> QED BY <1>1 DEF Known

LEMMA OwnsMore ==
  ASSUME NEW past, NEW n \in Nat, NEW id, NEW a
  PROVE  Owns(past, n + 1, id, a) <=>
           \/ Owns(past, n, id, a)
           \/ /\ <<id, a>> \in Named /\ Adds(past[n + 1], id)
              /\ \A x \in Ids : Known(past, n, x) => <<x, a>> \notin Named
<1> DEFINE First(k) == \A j \in 1 .. k - 1, x \in Ids : Adds(past[j], x) => <<x, a>> \notin Named
<1>1. First(n + 1) <=> \A x \in Ids : Known(past, n, x) => <<x, a>> \notin Named
  <2>1. (n + 1) - 1 = n
    OBVIOUS
  <2> QED BY <2>1 DEF Known
<1>2. \A m : Owns(past, m, id, a) <=>
               <<id, a>> \in Named /\ \E k \in 1 .. m : Adds(past[k], id) /\ First(k)
  BY DEF Owns
<1> HIDE DEF First
<1>3. \A k : k \in 1 .. n + 1 <=> k \in 1 .. n \/ k = n + 1
  OBVIOUS
<1> QED BY <1>1, <1>2, <1>3

LEMMA NamesGrow ==
  ASSUME NEW o \in Orders, NEW past, NEW n \in Nat, NamesFollow(o, past, n),
         past[n + 1] \in Requests, NEW q, q = WithNodeOf(o, past[n + 1])
  PROVE  q \in Orders /\ Continues(o, q) /\ NamesFollow(q, past, n + 1)
<1> DEFINE r == past[n + 1]
<1>1. PICK m \in Nat : m = Len(o) /\ \A i \in 1 .. m : o[i] \in Ids
  BY DEF Orders
<1>2. CASE q = o /\ \A x : ~Adds(r, x)
  <2>1. \A id \in Ids : Holds(q, id) <=> Known(past, n + 1, id)
    BY <1>2, KnownMore DEF NamesFollow
  <2>2. ASSUME NEW id \in Ids, NEW a PROVE Owner(q, a, id) <=> Owns(past, n + 1, id, a)
    <3>1. Owns(past, n + 1, id, a) <=> Owns(past, n, id, a)
      BY <1>2, OwnsMore
    <3>2. Owner(o, a, id) <=> Owns(past, n, id, a)
      BY DEF NamesFollow
    <3> QED BY <1>2, <3>1, <3>2
  <2>3. Continues(o, q)
    BY <1>1, <1>2 DEF Continues
  <2> QED BY <1>2, <2>1, <2>2, <2>3 DEF NamesFollow
<1>3. CASE \E x \in Ids : q = WithNode(o, x) /\ \A y : Adds(r, y) <=> y = x
  <2>1. PICK x \in Ids : q = WithNode(o, x) /\ \A y : Adds(r, y) <=> y = x
    BY <1>3
  <2>2. /\ q \in Orders /\ Continues(o, q)
        /\ \/ Holds(o, x) /\ q = o
           \/ ~Holds(o, x) /\ Len(q) = m + 1 /\ q[m + 1] = x
    BY <1>1, <2>1, WithNodeIs
  <2>3. m <= Len(q) /\ \A i \in 1 .. m : q[i] = o[i]
    BY <1>1, <2>2 DEF Continues
  <2>4. ASSUME NEW id \in Ids PROVE Holds(q, id) <=> Known(past, n + 1, id)
    <3>1. Known(past, n + 1, id) <=> Holds(o, id) \/ id = x
      BY <2>1, KnownMore DEF NamesFollow
    <3>2. CASE Holds(o, x) /\ q = o
      BY <3>1, <3>2
    <3>3. CASE ~Holds(o, x) /\ Len(q) = m + 1 /\ q[m + 1] = x
      <4>1. \A k : k \in 1 .. m + 1 <=> k \in 1 .. m \/ k = m + 1
        OBVIOUS
      <4>2. Holds(q, id) <=> Holds(o, id) \/ id = x
        BY <1>1, <2>3, <3>3, <4>1 DEF Holds
      <4> QED BY <3>1, <4>2
    <3> QED BY <2>2, <3>2, <3>3
  <2>5. ASSUME NEW id \in Ids, NEW a PROVE Owner(q, a, id) <=> Owns(past, n + 1, id, a)
    <3>1. Owns(past, n + 1, id, a) <=>
            \/ Owner(o, a, id)
            \/ /\ <<x, a>> \in Named /\ id = x
               /\ \A y \in Ids : Holds(o, y) => <<y, a>> \notin Named
      BY <2>1, OwnsMore DEF NamesFollow
    <3>2. CASE Holds(o, x) /\ q = o
      BY <3>1, <3>2
    <3>3. CASE ~Holds(o, x) /\ Len(q) = m + 1 /\ q[m + 1] = x
      <4>1. \A k : k \in 1 .. m + 1 <=> k \in 1 .. m \/ k = m + 1
        OBVIOUS
      <4>2. (\A y \in Ids : Holds(o, y) => <<y, a>> \notin Named)
              <=> \A j \in 1 .. m : <<o[j], a>> \notin Named
        BY <1>1 DEF Holds
      <4> DEFINE At(s, i) == /\ s[i] = id /\ <<id, a>> \in Named
                             /\ \A j \in 1 .. i - 1 : <<s[j], a>> \notin Named
      <4>3. ASSUME NEW i \in 1 .. m PROVE At(q, i) <=> At(o, i)
        <5>1. q[i] = o[i] /\ \A j \in 1 .. i - 1 : q[j] = o[j]
          BY <2>3
        <5> QED BY <5>1
      <4>4. At(q, m + 1) <=> /\ id = x /\ <<x, a>> \in Named
                             /\ \A j \in 1 .. m : <<o[j], a>> \notin Named
        <5>1. (m + 1) - 1 = m
          OBVIOUS
        <5> QED BY <2>3, <3>3, <5>1
      <4>5. Owner(o, a, id) <=> \E i \in 1 .. m : At(o, i)
        BY <1>1 DEF Owner
      <4>6. Owner(q, a, id) <=> \E i \in 1 .. m + 1 : At(q, i)
        BY <3>3 DEF Owner
      <4> HIDE DEF At
      <4>7. Owner(q, a, id) <=> Owner(o, a, id) \/ At(q, m + 1)
        BY <4>1, <4>3, <4>5, <4>6
      <4> QED BY <3>1, <4>2, <4>4, <4>7
    <3> QED BY <2>2, <3>2, <3>3
  <2> QED BY <2>2, <2>4, <2>5 DEF NamesFollow
<1> QED BY <1>2, <1>3, RequestBrings

(* The edges that a call adds join nodes that are there.                     *)
LEMMA PositionOf ==
  ASSUME NEW o \in Orders, NEW id, Holds(o, id)
  PROVE  Position(o, id) \in 1 .. Len(o) /\ o[Position(o, id)] = id
<1>1. PICK n \in Nat : n = Len(o) /\ DOMAIN o = 1 .. n
  BY DEF Orders
<1>2. PICK i \in 1 .. n : o[i] = id
  BY <1>1 DEF Holds
<1>3. \A j \in 1 .. n : o[j] = id => j <= i
  BY <1>1, <1>2 DEF Orders
<1> QED BY <1>1, <1>2, <1>3 DEF Position

LEMMA FirstOfOne ==
  ASSUME NEW n \in Nat, NEW S \in SUBSET (1 .. n), S # {}
  PROVE  FirstOf(S) \in S
<1>1. IsFiniteSet(1 .. n)
  BY CountOfFirst
<1>2. IsFiniteSet(S) /\ S \subseteq Int
  <2>1. IsFiniteSet(S)
    BY <1>1, FS_Subset
  <2>2. S \subseteq Int
    OBVIOUS
  <2> QED BY <2>1, <2>2
<1>3. \E i \in S : \A j \in S : i <= j
  BY <1>2, LeastOf
<1> QED BY <1>3 DEF FirstOf

LEMMA LinksGrow ==
  ASSUME NEW o \in Orders, NEW q \in Orders, Continues(o, q),
         NEW ls \in Seq(LinksOf(o)), NEW new \in Seq(LinksOf(q)), NEW s, Observed(o, ls, s),
         NEW t, t = s \union {<<q[l.from], q[l.to]>> : l \in Range(new)}
  PROVE  ls \o new \in Seq(LinksOf(q)) /\ Observed(q, ls \o new, t)
<1>1. PICK a \in Nat, b \in Nat : a = Len(o) /\ b = Len(q) /\ a <= b
  <2>1. Len(o) \in Nat /\ Len(q) \in Nat
    BY DEF Orders
  <2>2. Len(o) <= Len(q)
    BY DEF Continues
  <2> QED BY ONLY <2>1, <2>2
<1>2. LinksOf(o) \subseteq LinksOf(q)
  BY <1>1 DEF LinksOf
<1>3. PICK m \in Nat : m = Len(ls) /\ \A i \in 1 .. m : ls[i] \in LinksOf(o)
  OBVIOUS
<1>4. PICK n \in Nat : n = Len(new) /\ DOMAIN new = 1 .. n
  OBVIOUS
<1>5. ls \in Seq(LinksOf(q))
  BY <1>2, <1>3
<1> DEFINE all == ls \o new
<1>6. /\ all \in Seq(LinksOf(q)) /\ Len(all) = m + n
      /\ \A i \in 1 .. m + n : all[i] = IF i <= m THEN ls[i] ELSE new[i - m]
  BY <1>3, <1>4, <1>5, ConcatProperties
<1> HIDE DEF all
<1>7. ASSUME NEW i \in 1 .. m
      PROVE  <<q[ls[i].from], q[ls[i].to]>> = <<o[ls[i].from], o[ls[i].to]>>
  <2>1. ls[i].from \in 1 .. a /\ ls[i].to \in 1 .. a
    BY <1>1, <1>3 DEF LinksOf
  <2> QED BY <1>1, <2>1 DEF Continues
<1>8. ASSUME NEW p, p \in t PROVE \E i \in 1 .. m + n : p = <<q[all[i].from], q[all[i].to]>>
  <2>1. CASE p \in s
    <3>1. PICK i \in 1 .. m : p = <<o[ls[i].from], o[ls[i].to]>>
      BY <1>3, <2>1 DEF Observed
    <3>2. i \in 1 .. m + n /\ all[i] = ls[i]
      BY <1>6
    <3> QED BY <1>7, <3>1, <3>2
  <2>2. CASE p \notin s
    <3>1. PICK l \in Range(new) : p = <<q[l.from], q[l.to]>>
      BY <1>8, <2>2
    <3>2. PICK j \in 1 .. n : l = new[j]
      BY <1>4, <3>1 DEF Range
    <3>3. PICK i : i = m + j /\ i \in 1 .. m + n /\ ~(i <= m) /\ i - m = j
      OBVIOUS
    <3>4. all[i] = new[j]
      BY <1>6, <3>3
    <3> QED BY <3>1, <3>2, <3>3, <3>4
  <2> QED BY <2>1, <2>2
<1>9. ASSUME NEW i \in 1 .. m + n PROVE <<q[all[i].from], q[all[i].to]>> \in t
  <2>1. CASE i <= m
    <3>1. i \in 1 .. m /\ all[i] = ls[i]
      BY <1>6, <2>1
    <3>2. <<o[ls[i].from], o[ls[i].to]>> \in s
      BY <1>3, <3>1 DEF Observed
    <3> QED BY <1>7, <3>1, <3>2
  <2>2. CASE ~(i <= m)
    <3>1. i - m \in 1 .. n /\ all[i] = new[i - m]
      BY <1>6, <2>2
    <3>2. all[i] \in Range(new)
      BY <1>4, <3>1 DEF Range
    <3> QED BY <3>2
  <2> QED BY <2>1, <2>2
<1>10. Observed(q, all, t)
  <2>1. \A p : p \in t <=> \E i \in 1 .. m + n : p = <<q[all[i].from], q[all[i].to]>>
    BY ONLY <1>8, <1>9
  <2>2. Len(all) = m + n
    BY <1>6
  <2> QED BY <2>1, <2>2 DEF Observed
<1> QED BY <1>6, <1>10 DEF all

(* An edge that is to join two ids does if both are there.                   *)
LEMMA JoinsIs ==
  ASSUME NEW o \in Orders, NEW f, NEW t, NEW kind \in LinkKinds, NEW new, new = Joined(o, f, t, kind)
  PROVE  /\ new \in Seq(LinksOf(o))
         /\ \A p : p \in Pairs(o, new) <=> p = <<f, t>> /\ Holds(o, f) /\ Holds(o, t)
<1> DEFINE l == [from |-> Position(o, f), to |-> Position(o, t), kind |-> kind]
<1>1. PICK n \in Nat : n = Len(o) /\ DOMAIN o = 1 .. n
  BY DEF Orders
<1>2. \A id : id \in Range(o) <=> Holds(o, id)
  BY <1>1 DEF Range, Holds
<1>3. CASE ~(Holds(o, f) /\ Holds(o, t))
  <2>1. new = <<>>
    BY <1>2, <1>3 DEF Joined
  <2>2. Range(new) = {}
    BY <2>1 DEF Range
  <2> QED BY <1>3, <2>1, <2>2 DEF Pairs
<1>4. CASE Holds(o, f) /\ Holds(o, t)
  <2>1. new = <<l>>
    BY <1>2, <1>4 DEF Joined
  <2>2. l \in LinksOf(o) /\ o[l.from] = f /\ o[l.to] = t
    BY <1>1, <1>4, PositionOf DEF LinksOf
  <2> HIDE DEF l
  <2>3. Range(new) = {l}
    BY <2>1 DEF Range
  <2> QED BY <1>4, <2>1, <2>2, <2>3 DEF Pairs
<1> QED BY <1>3, <1>4

(* The first of the holders is the owner.                                    *)
LEMMA OwnerIsFirst ==
  ASSUME NEW o \in Orders, NEW a
  PROVE  /\ Holders(o, a) # {} => FirstOf(Holders(o, a)) \in 1 .. Len(o)
         /\ \A id : Owner(o, a, id) <=> Holders(o, a) # {} /\ id = o[FirstOf(Holders(o, a))]
<1>1. PICK n \in Nat : n = Len(o) /\ DOMAIN o = 1 .. n
  BY DEF Orders
<1> DEFINE H == Holders(o, a)
<1>2. H \in SUBSET (1 .. n) /\ \A i \in 1 .. n : i \in H <=> <<o[i], a>> \in Named
  BY <1>1 DEF Holders
<1> HIDE DEF H
<1>3. CASE H = {}
  <2>1. \A id : ~Owner(o, a, id)
    BY <1>1, <1>2, <1>3 DEF Owner
  <2> QED BY <1>3, <2>1 DEF H
<1>4. CASE H # {}
  <2>1. PICK i \in H : \A j \in H : i <= j
    <3>1. IsFiniteSet(1 .. n)
      BY CountOfFirst
    <3>2. IsFiniteSet(H)
      BY <1>2, <3>1, FS_Subset
    <3>3. H \subseteq Int
      BY <1>2
    <3> QED BY <1>4, <3>2, <3>3, LeastOf
  <2>2. FirstOf(H) \in H /\ \A j \in H : FirstOf(H) <= j
    BY <2>1 DEF FirstOf
  <2>3. PICK f \in 1 .. n : f = FirstOf(H)
    BY <1>2, <2>2
  <2>4. ASSUME NEW id PROVE Owner(o, a, id) <=> id = o[f]
    <3>1. ASSUME id = o[f] PROVE Owner(o, a, id)
      <4>1. <<o[f], a>> \in Named
        BY <1>2, <2>2, <2>3
      <4>2. ASSUME NEW j \in 1 .. f - 1 PROVE <<o[j], a>> \notin Named
        <5>1. j \in 1 .. n /\ ~(f <= j)
          OBVIOUS
        <5> QED BY <1>2, <2>2, <2>3, <5>1
      <4> QED BY <1>1, <3>1, <4>1, <4>2 DEF Owner
    <3>2. ASSUME Owner(o, a, id) PROVE id = o[f]
      <4>1. PICK k \in 1 .. n : /\ o[k] = id /\ <<id, a>> \in Named
                                /\ \A j \in 1 .. k - 1 : <<o[j], a>> \notin Named
        BY <1>1, <3>2 DEF Owner
      <4>2. k \in H /\ f <= k
        BY <1>2, <2>2, <2>3, <4>1
      <4>3. ~(f < k)
        <5>1. SUFFICES ASSUME f < k PROVE FALSE
          OBVIOUS
        <5>2. f \in 1 .. k - 1
          BY <5>1
        <5> QED BY <1>2, <2>2, <2>3, <4>1, <5>2
      <4>4. f = k
        BY <4>2, <4>3
      <4> QED BY <4>1, <4>4
    <3> QED BY <3>1, <3>2
  <2> QED BY <1>1, <1>4, <2>3, <2>4 DEF H
<1> QED BY <1>3, <1>4

LEMMA ConnectsIs ==
  ASSUME NEW o \in Orders, NEW conn, NEW new, new = Connects(o, conn)
  PROVE  /\ new \in Seq(LinksOf(o))
         /\ \A p : p \in Pairs(o, new) <=>
              \E a, b : p = <<a, b>> /\ Owner(o, conn.source, a) /\ Owner(o, conn.dest, b)
<1> DEFINE from == Holders(o, conn.source)
           to == Holders(o, conn.dest)
           l == [from |-> FirstOf(from), to |-> FirstOf(to),
                 kind |-> IF conn.encrypted THEN "encrypted" ELSE "plain"]
<1>1. /\ from # {} => FirstOf(from) \in 1 .. Len(o)
      /\ \A a : Owner(o, conn.source, a) <=> from # {} /\ a = o[FirstOf(from)]
  BY OwnerIsFirst
<1>2. /\ to # {} => FirstOf(to) \in 1 .. Len(o)
      /\ \A b : Owner(o, conn.dest, b) <=> to # {} /\ b = o[FirstOf(to)]
  BY OwnerIsFirst
<1>3. CASE from = {} \/ to = {}
  <2>1. new = <<>>
    BY <1>3 DEF Connects
  <2>2. Range(new) = {}
    BY <2>1 DEF Range
  <2> HIDE DEF from, to
  <2> QED BY <1>1, <1>2, <1>3, <2>1, <2>2 DEF Pairs
<1>4. CASE ~(from = {} \/ to = {})
  <2>1. new = <<l>>
    BY <1>4 DEF Connects
  <2>2. l.from = FirstOf(from) /\ l.to = FirstOf(to)
    OBVIOUS
  <2>3. l.kind \in LinkKinds
    BY DEF LinkKinds
  <2>4. l \in LinksOf(o)
    <3> HIDE DEF from, to
    <3> QED BY <1>1, <1>2, <1>4, <2>3 DEF LinksOf
  <2> HIDE DEF l, from, to
  <2>5. Range(new) = {l}
    BY <2>1 DEF Range
  <2>6. \A p : p \in Pairs(o, new) <=> p = <<o[FirstOf(from)], o[FirstOf(to)]>>
    BY <2>2, <2>5 DEF Pairs
  <2> QED BY <1>1, <1>2, <1>4, <2>1, <2>4, <2>6
<1> QED BY <1>3, <1>4

(* The edges of a request are those it draws.                                *)
LEMMA EdgesDrawn ==
  ASSUME NEW o \in Orders, NEW r \in Requests
  PROVE  EdgesOf(o, r) \in Seq(LinksOf(o))
<1>1. r.type = "finding" => EdgesOf(o, r) = Joined(o, r.cve, r.service, "exploits")
  BY DEF EdgesOf
<1>2. r.type = "connection" => EdgesOf(o, r) = Connects(o, r)
  BY DEF EdgesOf
<1>3. r.type = "edge" => EdgesOf(o, r) = Joined(o, r.from, r.to, r.kind) /\ r.kind \in LinkKinds
  BY DEF EdgesOf, Requests, Findings, Connections
<1>4. r.type \notin {"finding", "connection", "edge"} => EdgesOf(o, r) = <<>>
  BY DEF EdgesOf
<1>5. "exploits" \in LinkKinds
  BY DEF LinkKinds
<1>6. CASE r.type = "finding"
  BY <1>1, <1>5, <1>6, JoinsIs
<1>7. CASE r.type = "connection"
  BY <1>2, <1>7, ConnectsIs
<1>8. CASE r.type = "edge"
  BY <1>3, <1>8, JoinsIs
<1>9. CASE r.type \notin {"finding", "connection", "edge"}
  <2>1. EdgesOf(o, r) = <<>>
    BY <1>4, <1>9
  <2>2. <<>> \in Seq(LinksOf(o))
    OBVIOUS
  <2> QED BY <2>1, <2>2, Zenon
<1> QED BY <1>6, <1>7, <1>8, <1>9

LEMMA OwnersAreIds ==
  ASSUME NEW o \in Orders, NEW a, NEW id, Owner(o, a, id)
  PROVE  id \in Ids
  BY DEF Owner, Orders

LEMMA PairsDrawn ==
  ASSUME NEW o \in Orders, NEW past, NEW n \in Nat, n >= 1, past[n] \in Requests,
         NamesFollow(o, past, n), NEW p
  PROVE  p \in Pairs(o, EdgesOf(o, past[n])) <=> p \in Ids \X Ids /\ Draws(past, n, p[1], p[2])
<1> DEFINE r == past[n]
           new == EdgesOf(o, r)
<1>1. \A id \in Ids : Holds(o, id) <=> Known(past, n, id)
  BY DEF NamesFollow
<1>2. CASE r.type = "finding"
  <2>1. r.cve \in Ids /\ r.service \in Ids
    BY <1>2 DEF Requests, Findings, Connections, IdsOf
  <2>2. Known(past, n, r.cve)
    <3>1. n \in 1 .. n /\ Adds(past[n], r.cve)
      BY <1>2 DEF Adds
    <3> QED BY <3>1 DEF Known
  <2>3. new = Joined(o, r.cve, r.service, "exploits") /\ "exploits" \in LinkKinds
    BY <1>2 DEF EdgesOf, LinkKinds
  <2>4. p \in Pairs(o, new) <=> p = <<r.cve, r.service>> /\ Holds(o, r.cve) /\ Holds(o, r.service)
    BY <2>3, JoinsIs
  <2>5. \A a, b : Draws(past, n, a, b) <=> a = r.cve /\ b = r.service /\ Known(past, n, b)
    BY <1>2 DEF Draws
  <2> HIDE DEF r, new
  <2> QED BY <1>1, <2>1, <2>2, <2>4, <2>5 DEF r, new
<1>3. CASE r.type = "connection"
  <2>1. new = Connects(o, r)
    BY <1>3 DEF EdgesOf
  <2>2. p \in Pairs(o, new) <=>
          \E a, b : p = <<a, b>> /\ Owner(o, r.source, a) /\ Owner(o, r.dest, b)
    BY <2>1, ConnectsIs
  <2>3. \A a, b : Draws(past, n, a, b) <=> Owns(past, n, a, r.source) /\ Owns(past, n, b, r.dest)
    BY <1>3 DEF Draws
  <2>4. \A a \in Ids : /\ Owner(o, r.source, a) <=> Owns(past, n, a, r.source)
                       /\ Owner(o, r.dest, a) <=> Owns(past, n, a, r.dest)
    BY DEF NamesFollow
  <2>5. \A a : (Owner(o, r.source, a) => a \in Ids) /\ (Owner(o, r.dest, a) => a \in Ids)
    BY OwnersAreIds
  <2> HIDE DEF r, new
  <2> QED BY <2>2, <2>3, <2>4, <2>5 DEF r, new
<1>4. CASE r.type = "edge"
  <2>1. r.from \in Ids /\ r.to \in Ids /\ r.kind \in LinkKinds
    BY <1>4 DEF Requests, Findings, Connections
  <2>2. new = Joined(o, r.from, r.to, r.kind)
    BY <1>4 DEF EdgesOf
  <2>3. p \in Pairs(o, new) <=> p = <<r.from, r.to>> /\ Holds(o, r.from) /\ Holds(o, r.to)
    BY <2>1, <2>2, JoinsIs
  <2>4. \A a, b : Draws(past, n, a, b) <=>
                    a = r.from /\ b = r.to /\ Known(past, n, a) /\ Known(past, n, b)
    BY <1>4 DEF Draws
  <2> HIDE DEF r, new
  <2> QED BY <1>1, <2>1, <2>3, <2>4 DEF r, new
<1>5. CASE r.type \notin {"finding", "connection", "edge"}
  <2>1. new = <<>> /\ \A a, b : ~Draws(past, n, a, b)
    BY <1>5 DEF EdgesOf, Draws
  <2>2. Pairs(o, new) = {}
    BY <2>1 DEF Pairs, Range
  <2> QED BY <2>1, <2>2
<1> QED BY <1>2, <1>3, <1>4, <1>5

(* One request keeps the graph in step with what was asked.                  *)
LEMMA RequestHandled ==
  ASSUME NEW g, NEW past, NEW n \in Nat, GraphInv(g.nodes, g.links, past, n),
         past[n + 1] \in Requests, NEW h, h = Handled(g, past[n + 1])
  PROVE  GraphInv(h.nodes, h.links, past, n + 1)
<1> DEFINE o == g.nodes
           r == past[n + 1]
           q == WithNodeOf(o, r)
           new == EdgesOf(q, r)
<1>1. h.nodes = q /\ h.links = g.links \o new
  BY DEF Handled
<1>2. /\ o \in Orders /\ g.links \in Seq(LinksOf(o)) /\ NamesFollow(o, past, n)
      /\ Observed(o, g.links, SeenBy(past, n))
  BY DEF GraphInv
<1>3. q \in Orders /\ Continues(o, q) /\ NamesFollow(q, past, n + 1)
  BY <1>2, NamesGrow
<1> HIDE DEF q
<1>4. new \in Seq(LinksOf(q))
  BY <1>3, EdgesDrawn
<1>5. n + 1 \in Nat /\ n + 1 >= 1
  OBVIOUS
<1>6. \A p : p \in Pairs(q, new) <=> p \in Ids \X Ids /\ Draws(past, n + 1, p[1], p[2])
  BY <1>3, <1>5, PairsDrawn
<1>7. SeenBy(past, n + 1) = SeenBy(past, n) \union Pairs(q, new)
  <2>1. \A k : k \in 1 .. n + 1 <=> k \in 1 .. n \/ k = n + 1
    OBVIOUS
  <2> HIDE DEF new
  <2> QED BY <1>6, <2>1 DEF SeenBy
<1> HIDE DEF new
<1>8. /\ g.links \o new \in Seq(LinksOf(q))
      /\ Observed(q, g.links \o new, SeenBy(past, n + 1))
  BY <1>2, <1>3, <1>4, <1>7, LinksGrow DEF Pairs
<1> QED BY <1>1, <1>3, <1>8 DEF GraphInv

(* Graphs, whatever was asked.                                               *)
Graphs == [nodes : Orders, links : Seq([from : Nat, to : Nat, kind : LinkKinds])]

LEMMA HandledTyped ==
  ASSUME NEW g \in Graphs, NEW r \in Requests
  PROVE  Handled(g, r) \in Graphs
<1> DEFINE L == [from : Nat, to : Nat, kind : LinkKinds]
           q == WithNodeOf(g.nodes, r)
           new == EdgesOf(q, r)
<1>1. g.nodes \in Orders /\ g.links \in Seq(L)
  BY DEF Graphs
<1>2. q \in Orders
  <2>1. \A x \in Ids : WithNode(g.nodes, x) \in Orders
    BY <1>1, WithNodeIs
  <2> QED BY <1>1, <2>1, RequestBrings
<1> HIDE DEF q
<1>3. new \in Seq(LinksOf(q))
  BY <1>2, EdgesDrawn
<1>4. LinksOf(q) \subseteq L
  BY <1>2 DEF LinksOf, Orders
<1> HIDE DEF new, L
<1>5. new \in Seq(L)
  <2>1. PICK k \in Nat : k = Len(new) /\ \A i \in 1 .. k : new[i] \in LinksOf(q)
    BY <1>3
  <2> QED BY <1>3, <1>4, <2>1
<1>6. g.links \o new \in Seq(L)
  BY <1>1, <1>5
<1>7. Handled(g, r) = [nodes |-> q, links |-> g.links \o new]
  BY DEF Handled, q, new
<1> QED BY <1>2, <1>6, <1>7 DEF Graphs, L

LEMMA AllHandled ==
  ASSUME NEW g \in Graphs, NEW past, NEW m \in Nat, GraphInv(g.nodes, g.links, past, m),
         NEW rs \in Seq(Requests), \A i \in 1 .. Len(rs) : past[m + i] = rs[i]
  PROVE  GraphInv(HandledAll(g, rs).nodes, HandledAll(g, rs).links, past, m + Len(rs))
<1>1. PICK n \in Nat : n = Len(rs) /\ \A i \in 1 .. n : rs[i] \in Requests /\ past[m + i] = rs[i]
  <2>1. Len(rs) \in Nat /\ \A i \in 1 .. Len(rs) : rs[i] \in Requests /\ past[m + i] = rs[i]
    OBVIOUS
  <2> QED BY ONLY <2>1
<1> DEFINE step == [x \in (1 .. n) \X Graphs |-> Handled(x[2], rs[x[1]])]
<1>2. ASSUME NEW i \in 1 .. n, NEW v \in Graphs PROVE Handled(v, rs[i]) \in Graphs
  BY <1>1, HandledTyped
<1>3. step \in [(1 .. n) \X Graphs -> Graphs]
  BY <1>2
<1>4. \A i \in 1 .. n, v \in Graphs : step[<<i, v>>] = Handled(v, rs[i])
  OBVIOUS
<1> HIDE DEF step
<1>5. PICK f \in [0 .. n -> Graphs] : Follows(f, n, g, step)
  BY <1>3, StepwiseExists
<1> DEFINE Eq(x) == x = [i \in 0 .. n |-> IF i = 0 THEN g ELSE Handled(x[i - 1], rs[i])]
<1>6. Eq(f)
  <2>1. ASSUME NEW i \in 0 .. n PROVE f[i] = IF i = 0 THEN g ELSE Handled(f[i - 1], rs[i])
    <3>1. i # 0 => i \in 1 .. n /\ f[i - 1] \in Graphs
      OBVIOUS
    <3> QED BY <1>4, <1>5, <3>1 DEF Follows
  <2> QED BY <2>1
<1> DEFINE after == CHOOSE x : Eq(x)
<1>7. Eq(after)
  <2> HIDE DEF Eq
  <2> QED BY <1>6, Zenon
<1>8. HandledAll(g, rs) = after[n]
  BY <1>1 DEF HandledAll
<1>9. after[0] = g /\ \A i \in 1 .. n : after[i] = Handled(after[i - 1], rs[i])
  <2> HIDE DEF after
  <2>1. \A i \in 0 .. n : after[i] = IF i = 0 THEN g ELSE Handled(after[i - 1], rs[i])
    BY <1>7
  <2>2. 0 \in 0 .. n /\ \A i \in 1 .. n : i \in 0 .. n /\ i # 0
    OBVIOUS
  <2> QED BY <2>1, <2>2
<1> HIDE DEF after, Eq
<1> DEFINE Good(k) == GraphInv(after[k].nodes, after[k].links, past, m + k)
           P == {k \in 0 .. n : Good(k)}
<1>10. 0 \in P
  <2>1. m + 0 = m /\ 0 \in 0 .. n
    OBVIOUS
  <2> QED BY <1>9, <2>1
<1>11. ASSUME NEW k \in 0 .. n - 1, k \in P PROVE k + 1 \in P
  <2>1. PICK r : r = k + 1 /\ r \in 1 .. n /\ r - 1 = k /\ r \in 0 .. n
    OBVIOUS
  <2>2. Good(k)
    BY <1>11
  <2>3. after[r] = Handled(after[k], past[m + r]) /\ past[m + r] \in Requests
    BY <1>1, <1>9, <2>1
  <2>4. m + k \in Nat /\ m + r = (m + k) + 1
    BY <2>1
  <2>5. GraphInv(after[r].nodes, after[r].links, past, (m + k) + 1)
    BY <2>2, <2>3, <2>4, RequestHandled
  <2> QED BY <2>1, <2>4, <2>5
<1> HIDE DEF P
<1>12. 0 .. n \subseteq P
  BY <1>10, <1>11, UpTo
<1>13. n \in 0 .. n
  OBVIOUS
<1>14. Good(n)
  BY <1>12, <1>13 DEF P
<1> QED BY <1>1, <1>8, <1>14

(* What comes later changes nothing of what was asked before.                *)
LEMMA SameSoFar ==
  ASSUME NEW past, NEW all, NEW m \in Nat, \A k \in 1 .. m : all[k] = past[k], NEW o
  PROVE  /\ NamesFollow(o, past, m) => NamesFollow(o, all, m)
         /\ SeenBy(all, m) = SeenBy(past, m)
<1>1. ASSUME NEW n \in 0 .. m, NEW id
      PROVE  /\ Known(all, n, id) <=> Known(past, n, id)
             /\ \A a : Owns(all, n, id, a) <=> Owns(past, n, id, a)
  <2>1. \A k \in 1 .. n : all[k] = past[k] /\ \A j \in 1 .. k - 1 : all[j] = past[j]
    OBVIOUS
  <2>2. Known(all, n, id) <=> Known(past, n, id)
    BY <2>1 DEF Known
  <2>3. ASSUME NEW a PROVE Owns(all, n, id, a) <=> Owns(past, n, id, a)
    BY <2>1 DEF Owns
  <2> QED BY <2>2, <2>3
<1>2. ASSUME NEW k \in 1 .. m, NEW a, NEW b PROVE Draws(all, k, a, b) <=> Draws(past, k, a, b)
  <2>1. k \in 0 .. m /\ all[k] = past[k]
    OBVIOUS
  <2>2. \A id : /\ Known(all, k, id) <=> Known(past, k, id)
                /\ \A x : Owns(all, k, id, x) <=> Owns(past, k, id, x)
    BY <1>1, <2>1
  <2> QED BY <2>1, <2>2 DEF Draws
<1>3. m \in 0 .. m
  OBVIOUS
<1>4. SeenBy(all, m) = SeenBy(past, m)
  BY <1>2 DEF SeenBy
<1> QED BY <1>1, <1>3, <1>4 DEF NamesFollow

LEMMA AskKeepsChains ==
  ASSUME ChainsInv, NEW rs \in Seq(Requests), Ask(rs)
  PROVE  ChainsInv'
<1> DEFINE g == [nodes |-> nodes, links |-> links]
           all == requested \o rs
<1>1. /\ nodes' = HandledAll(g, rs).nodes /\ links' = HandledAll(g, rs).links
      /\ requested' = all
  BY DEF Ask
<1>2. /\ nodes \in Orders /\ links \in Seq(LinksOf(nodes))
      /\ Observed(nodes, links, Seen(requested))
      /\ requested \in Seq(Requests) /\ NamesFollow(nodes, requested, Len(requested))
  BY DEF ChainsInv
<1>3. PICK m \in Nat, n \in Nat : m = Len(requested) /\ n = Len(rs)
  <2>1. Len(requested) \in Nat /\ Len(rs) \in Nat
    BY <1>2
  <2> QED BY ONLY <2>1
<1>4. /\ all \in Seq(Requests) /\ Len(all) = m + n
      /\ \A i \in 1 .. m + n : all[i] = IF i <= m THEN requested[i] ELSE rs[i - m]
  BY <1>2, <1>3, ConcatProperties
<1> HIDE DEF all
<1>5. \A k \in 1 .. m : all[k] = requested[k]
  BY <1>4
<1>6. ASSUME NEW i \in 1 .. Len(rs) PROVE all[m + i] = rs[i]
  <2>1. m + i \in 1 .. m + n /\ ~(m + i <= m) /\ (m + i) - m = i
    BY <1>3
  <2> QED BY <1>4, <2>1
<1>7. Seen(requested) = SeenBy(requested, m)
  BY <1>3 DEF Seen, SeenBy
<1>8. GraphInv(nodes, links, all, m)
  <2>1. NamesFollow(nodes, all, m) /\ SeenBy(all, m) = SeenBy(requested, m)
    BY <1>2, <1>3, <1>5, SameSoFar
  <2> QED BY <1>2, <1>7, <2>1 DEF GraphInv
<1>9. g \in Graphs
  <2> DEFINE L == [from : Nat, to : Nat, kind : LinkKinds]
  <2>1. LinksOf(nodes) \subseteq L
    BY <1>2 DEF LinksOf, Orders
  <2> HIDE DEF L
  <2>2. links \in Seq(L)
    <3> DEFINE K == LinksOf(nodes)
    <3>1. links \in Seq(K) /\ K \subseteq L
      BY <1>2, <2>1
    <3> HIDE DEF K
    <3> QED BY ONLY <3>1
  <2> QED BY <1>2, <2>2 DEF Graphs, L
<1>10. g.nodes = nodes /\ g.links = links
  OBVIOUS
<1> HIDE DEF g
<1>11. GraphInv(HandledAll(g, rs).nodes, HandledAll(g, rs).links, all, m + Len(rs))
  BY <1>6, <1>8, <1>9, <1>10, AllHandled
<1>12. GraphInv(nodes', links', requested', Len(requested'))
  BY <1>1, <1>3, <1>4, <1>11
<1>13. Seen(requested') = SeenBy(requested', Len(requested'))
  BY DEF Seen, SeenBy
<1>14. /\ nodes' \in Orders /\ links' \in Seq(LinksOf(nodes'))
       /\ Observed(nodes', links', Seen(requested'))
       /\ NamesFollow(nodes', requested', Len(requested'))
  BY <1>12, <1>13 DEF GraphInv
<1>15. requested' \in Seq(Requests)
  BY <1>1, <1>4
<1> QED BY <1>14, <1>15 DEF ChainsInv

LEMMA InitChains == ChainsInit => ChainsInv
<1> SUFFICES ASSUME ChainsInit PROVE ChainsInv
  OBVIOUS
<1>1. nodes = <<>> /\ links = <<>> /\ requested = <<>>
  BY DEF ChainsInit
<1>2. nodes \in Orders
  BY <1>1 DEF Orders
<1>3. links \in Seq(LinksOf(nodes)) /\ requested \in Seq(Requests)
  BY <1>1
<1>4. Observed(nodes, links, Seen(requested))
  BY <1>1 DEF Observed, Seen
<1>5. NamesFollow(nodes, requested, Len(requested))
  BY <1>1 DEF NamesFollow, Holds, Known, Owner, Owns
<1> QED BY <1>2, <1>3, <1>4, <1>5 DEF ChainsInv

LEMMA NextChains == ChainsInv /\ [ChainsNext]_chainVars => ChainsInv'
<1> SUFFICES ASSUME ChainsInv, [ChainsNext]_chainVars PROVE ChainsInv'
  OBVIOUS
<1>1. CASE BuildFromK8s
  <2>1. PICK r \in Reports :
          Ask([i \in DOMAIN r.services |-> Node(r.services[i])] \o r.findings \o r.connections)
    BY <1>1 DEF BuildFromK8s
  <2> DEFINE services == [i \in DOMAIN r.services |-> Node(r.services[i])]
  <2>2. r.services \in Seq(IdsOf("service")) /\ r.findings \in Seq(Findings)
        /\ r.connections \in Seq(Connections)
    BY ChainsAssumption
  <2>3. Findings \subseteq Requests /\ Connections \subseteq Requests
    BY DEF Requests
  <2>4. r.findings \in Seq(Requests) /\ r.connections \in Seq(Requests)
    BY <2>2, <2>3
  <2>5. services \in Seq(Requests)
    <3>1. PICK k \in Nat : k = Len(r.services) /\ DOMAIN r.services = 1 .. k
      BY <2>2
    <3>2. ASSUME NEW i \in 1 .. k PROVE Node(r.services[i]) \in Requests
      <4>1. r.services[i] \in Ids
        BY <2>2, <3>1 DEF IdsOf
      <4> QED BY <4>1 DEF Node, Requests
    <3>3. services \in [1 .. k -> Requests]
      BY <3>1, <3>2
    <3> HIDE DEF services
    <3> QED BY <3>1, <3>3
  <2> HIDE DEF services
  <2>6. services \o r.findings \o r.connections \in Seq(Requests)
    BY <2>4, <2>5
  <2> QED BY <2>1, <2>6, AskKeepsChains DEF services
<1>2. CASE AddByHand
  <2>1. PICK m \in Manual : Ask(<<Node(m.from), Node(m.to), m>>)
    BY <1>2 DEF AddByHand
  <2>2. m \in [type : {"edge"}, from : Ids, to : Ids, kind : LinkKinds]
    BY ChainsAssumption
  <2>3. Node(m.from) \in Requests /\ Node(m.to) \in Requests /\ m \in Requests
    BY <2>2 DEF Node, Requests
  <2>4. <<Node(m.from), Node(m.to), m>> \in Seq(Requests)
    BY <2>3
  <2> QED BY <2>1, <2>4, AskKeepsChains
<1>3. CASE UNCHANGED chainVars
  <2>1. nodes' = nodes /\ links' = links /\ requested' = requested
    BY <1>3 DEF chainVars
  <2>2. /\ nodes \in Orders /\ links \in Seq(LinksOf(nodes))
        /\ Observed(nodes, links, Seen(requested))
        /\ requested \in Seq(Requests) /\ NamesFollow(nodes, requested, Len(requested))
    BY DEF ChainsInv
  <2>3. /\ nodes' \in Orders /\ links' \in Seq(LinksOf(nodes'))
        /\ Observed(nodes', links', Seen(requested'))
        /\ requested' \in Seq(Requests) /\ NamesFollow(nodes', requested', Len(requested'))
    BY <2>1, <2>2
  <2> QED BY <2>3 DEF ChainsInv
<1> QED BY <1>1, <1>2, <1>3 DEF ChainsNext, Analyse

(* Paths and what was seen. A way through the graph follows edges, each of   *)
(* which was seen; and the ids at the positions that can be reached hold all *)
(* that follows from them.                                                   *)
IsWay(p, n, N, i, j) ==
  /\ n = Len(p) /\ n >= 1 /\ p \in Seq(1 .. N) /\ DOMAIN p = 1 .. n
  /\ p[1] = i /\ p[n] = j /\ (\A a \in 1 .. n : p[a] \in 1 .. N)
  /\ \A a, b \in 1 .. n : p[a] = p[b] => a = b
  /\ \A a \in 1 .. n - 1 : Between(p[a], p[a + 1]) # {}

LEMMA WayOf ==
  ASSUME ChainsInv, NEW N, N = Len(nodes), NEW i, NEW j, NEW p \in Ways(i, j)
  PROVE  \E n \in Nat : IsWay(p, n, N, i, j)
<1>1. N \in Nat /\ DOMAIN nodes = 1 .. N
  BY DEF ChainsInv, Orders
<1>2. PICK n \in 1 .. N : p \in [1 .. n -> 1 .. N]
  BY <1>1 DEF Ways
<1>3. p \in Seq(1 .. N) /\ Len(p) = n /\ DOMAIN p = 1 .. n
  BY <1>2
<1>4. /\ p[1] = i /\ p[Len(p)] = j /\ IsInjective(p)
      /\ \A a \in Steps(p) : Between(p[a], p[a + 1]) # {}
  BY DEF Ways
<1>5. \A a, b \in 1 .. n : p[a] = p[b] => a = b
  BY <1>3, <1>4 DEF IsInjective
<1>6. n \in Nat /\ n >= 1 /\ Steps(p) = 1 .. n - 1
  BY <1>3 DEF Steps
<1>7. \A a \in 1 .. n : p[a] \in 1 .. N
  BY <1>2
<1>8. IsWay(p, n, N, i, j)
  BY <1>3, <1>4, <1>5, <1>6, <1>7 DEF IsWay
<1> QED BY <1>6, <1>8

LEMMA WayIs ==
  ASSUME ChainsInv, NEW N \in Nat, N = Len(nodes), NEW n \in Nat, n >= 1,
         NEW p \in [1 .. n -> 1 .. N],
         \A a, b \in 1 .. n : p[a] = p[b] => a = b,
         \A a \in 1 .. n - 1 : Between(p[a], p[a + 1]) # {}
  PROVE  p \in Ways(p[1], p[n])
<1>1. DOMAIN nodes = 1 .. N
  BY DEF ChainsInv, Orders
<1>2. p \in Injection(1 .. n, 1 .. N)
  BY DEF Injection, IsInjective
<1>3. /\ IsFiniteSet(1 .. N) /\ Cardinality(1 .. N) = N
      /\ Cardinality(1 .. n) = n
  BY CountOfFirst
<1>4. n \in 1 .. N
  <2>1. Cardinality(1 .. n) <= Cardinality(1 .. N)
    BY <1>2, <1>3, FS_Injection
  <2> QED BY <1>3, <2>1
<1>5. Len(p) = n /\ DOMAIN p = 1 .. n
  OBVIOUS
<1>6. IsInjective(p) /\ \A a \in Steps(p) : Between(p[a], p[a + 1]) # {}
  BY <1>5 DEF IsInjective, Steps
<1>7. p \in UNION {[1 .. k -> 1 .. N] : k \in 1 .. N}
  BY <1>4
<1> QED BY <1>1, <1>5, <1>6, <1>7 DEF Ways

LEMMA BetweenSeen ==
  ASSUME ChainsInv, NEW N, N = Len(nodes), NEW i \in 1 .. N, NEW j \in 1 .. N
  PROVE  Between(i, j) # {} <=> <<nodes[i], nodes[j]>> \in Seen(requested)
<1>1. /\ nodes \in Seq(Ids) /\ N \in Nat /\ \A a, b \in 1 .. N : nodes[a] = nodes[b] => a = b
      /\ links \in Seq(LinksOf(nodes)) /\ Observed(nodes, links, Seen(requested))
  BY DEF ChainsInv, Orders
<1>2. PICK m \in Nat : m = Len(links) /\ DOMAIN links = 1 .. m
  BY <1>1
<1>3. ASSUME NEW k \in 1 .. m PROVE links[k].from \in 1 .. N /\ links[k].to \in 1 .. N
  <2>1. links[k] \in LinksOf(nodes)
    BY <1>1, <1>2
  <2> QED BY <2>1 DEF LinksOf
<1>4. ASSUME Between(i, j) # {} PROVE <<nodes[i], nodes[j]>> \in Seen(requested)
  <2>1. PICK k \in 1 .. m : links[k].from = i /\ links[k].to = j
    BY <1>2, <1>4 DEF Between
  <2> QED BY <1>1, <1>2, <2>1 DEF Observed
<1>5. ASSUME <<nodes[i], nodes[j]>> \in Seen(requested) PROVE Between(i, j) # {}
  <2>1. PICK k \in 1 .. m : <<nodes[i], nodes[j]>> = <<nodes[links[k].from], nodes[links[k].to]>>
    BY <1>1, <1>2, <1>5 DEF Observed
  <2>2. links[k].from = i /\ links[k].to = j
    BY <1>1, <1>3, <2>1
  <2> QED BY <1>2, <2>2 DEF Between
<1> QED BY <1>4, <1>5

(* What is at the end of a way follows from what is at its start.            *)
LEMMA WayLeads ==
  ASSUME ChainsInv, NEW N, N = Len(nodes), NEW i \in 1 .. N, NEW j \in 1 .. N, CanReach(i, j)
  PROVE  Leads(Seen(requested), nodes[i], nodes[j])
<1>1. PICK p \in Ways(i, j) : TRUE
  BY DEF CanReach
<1>2. PICK n \in Nat : IsWay(p, n, N, i, j)
  BY <1>1, WayOf
<1>3. /\ n >= 1 /\ p[1] = i /\ p[n] = j /\ \A a \in 1 .. n : p[a] \in 1 .. N
      /\ \A a \in 1 .. n - 1 : Between(p[a], p[a + 1]) # {}
  BY <1>2 DEF IsWay
<1> SUFFICES ASSUME NEW T \in SUBSET Ids, nodes[i] \in T, nodes[j] \notin T, Closed(Seen(requested), T)
             PROVE  FALSE
  BY DEF Leads
<1> DEFINE P == {k \in 0 .. n - 1 : nodes[p[k + 1]] \in T}
<1>4. 0 \in P
  BY <1>3
<1>5. ASSUME NEW k \in 0 .. (n - 1) - 1, k \in P PROVE k + 1 \in P
  <2>1. PICK a : a = k + 1 /\ a \in 1 .. n - 1 /\ a + 1 \in 1 .. n /\ a \in 1 .. n /\ a \in 0 .. n - 1
    BY <1>3
  <2>2. nodes[p[a]] \in T
    BY <1>5, <2>1
  <2>3. <<nodes[p[a]], nodes[p[a + 1]]>> \in Seen(requested)
    BY <1>3, <2>1, BetweenSeen
  <2>4. nodes[p[a + 1]] \in T
    BY <2>2, <2>3 DEF Closed
  <2> QED BY <2>1, <2>4
<1> HIDE DEF P
<1>6. 0 .. n - 1 \subseteq P
  <2>1. n - 1 \in Nat
    BY <1>3
  <2> QED BY <1>4, <1>5, <2>1, UpTo
<1>7. nodes[p[(n - 1) + 1]] \in T
  <2>1. n - 1 \in 0 .. n - 1
    BY <1>3
  <2> QED BY <1>6, <2>1 DEF P
<1>8. (n - 1) + 1 = n
  OBVIOUS
<1> QED BY <1>3, <1>7, <1>8

(* A way can be cut where it passes a position, or be continued by an edge.  *)
LEMMA WayGoesOn ==
  ASSUME ChainsInv, NEW N, N = Len(nodes), NEW i \in 1 .. N, NEW j \in 1 .. N, NEW k \in 1 .. N,
         CanReach(i, j), Between(j, k) # {}
  PROVE  CanReach(i, k)
<1>0. N \in Nat
  BY DEF ChainsInv, Orders
<1>1. PICK p \in Ways(i, j) : TRUE
  BY DEF CanReach
<1>2. PICK n \in Nat : IsWay(p, n, N, i, j)
  BY <1>1, WayOf
<1>3. /\ n >= 1 /\ p[1] = i /\ p[n] = j /\ (\A a \in 1 .. n : p[a] \in 1 .. N)
      /\ (\A a, b \in 1 .. n : p[a] = p[b] => a = b)
      /\ \A a \in 1 .. n - 1 : Between(p[a], p[a + 1]) # {}
  BY <1>2 DEF IsWay
<1>4. CASE \E c \in 1 .. n : p[c] = k
  <2>1. PICK c \in 1 .. n : p[c] = k
    BY <1>4
  <2> DEFINE q == [a \in 1 .. c |-> p[a]]
  <2>2. q \in [1 .. c -> 1 .. N] /\ q[1] = i /\ q[c] = k
    BY <1>3, <2>1
  <2>3. \A a, b \in 1 .. c : q[a] = q[b] => a = b
    BY <1>3
  <2>4. ASSUME NEW a \in 1 .. c - 1 PROVE Between(q[a], q[a + 1]) # {}
    <3>1. a \in 1 .. n - 1 /\ q[a] = p[a] /\ q[a + 1] = p[a + 1]
      OBVIOUS
    <3> QED BY <1>3, <3>1
  <2>5. c \in Nat /\ c >= 1
    OBVIOUS
  <2> HIDE DEF q
  <2>6. q \in Ways(q[1], q[c])
    BY <1>0, <2>2, <2>3, <2>4, <2>5, WayIs
  <2> QED BY <2>2, <2>6 DEF CanReach
<1>5. CASE \A c \in 1 .. n : p[c] # k
  <2>0. PICK m \in Nat : m = n + 1
    OBVIOUS
  <2> DEFINE q == [a \in 1 .. m |-> IF a = m THEN k ELSE p[a]]
  <2>1. q \in [1 .. m -> 1 .. N] /\ q[1] = i /\ q[m] = k
    BY <1>3, <2>0
  <2>2. ASSUME NEW a \in 1 .. m, NEW b \in 1 .. m, q[a] = q[b] PROVE a = b
    BY <1>3, <1>5, <2>0, <2>2
  <2>3. ASSUME NEW a \in 1 .. m - 1 PROVE Between(q[a], q[a + 1]) # {}
    <3>1. CASE a = n
      <4>1. q[a] = j /\ q[a + 1] = k
        BY <1>3, <2>0, <3>1
      <4> QED BY <4>1
    <3>2. CASE a # n
      <4>1. a \in 1 .. n - 1 /\ q[a] = p[a] /\ q[a + 1] = p[a + 1]
        BY <1>3, <2>0, <3>2
      <4> QED BY <1>3, <4>1
    <3> QED BY <3>1, <3>2
  <2>4. m >= 1
    BY <1>3, <2>0
  <2> HIDE DEF q
  <2>5. q \in Ways(q[1], q[m])
    BY <1>0, <2>1, <2>2, <2>3, <2>4, WayIs
  <2> QED BY <2>1, <2>5 DEF CanReach
<1> QED BY <1>4, <1>5

LEMMA StayReached ==
  ASSUME ChainsInv, NEW N, N = Len(nodes), NEW i \in 1 .. N
  PROVE  CanReach(i, i)
<1>0. N \in Nat /\ 1 \in Nat /\ 1 >= 1
  BY DEF ChainsInv, Orders
<1> DEFINE q == [a \in 1 .. 1 |-> i]
<1>1. /\ q \in [1 .. 1 -> 1 .. N] /\ q[1] = i
      /\ \A a, b \in 1 .. 1 : q[a] = q[b] => a = b
      /\ \A a \in 1 .. 1 - 1 : Between(q[a], q[a + 1]) # {}
  OBVIOUS
<1> HIDE DEF q
<1>2. q \in Ways(q[1], q[1])
  BY <1>0, <1>1, WayIs
<1> QED BY <1>1, <1>2 DEF CanReach

LEMMA LeadsByWay ==
  ASSUME ChainsInv, NEW a \in Ids, NEW b \in Ids, Leads(Seen(requested), a, b), a # b
  PROVE  \E i, j \in 1 .. Len(nodes) : nodes[i] = a /\ nodes[j] = b /\ CanReach(i, j)
<1>1. PICK N \in Nat : /\ N = Len(nodes) /\ nodes \in Seq(Ids)
                       /\ \A i, j \in 1 .. N : nodes[i] = nodes[j] => i = j
  BY DEF ChainsInv, Orders
<1>2. ASSUME NEW p \in Seen(requested) PROVE \E i, j \in 1 .. N : p = <<nodes[i], nodes[j]>>
  <2>1. links \in Seq(LinksOf(nodes)) /\ Observed(nodes, links, Seen(requested))
    BY DEF ChainsInv
  <2>2. PICK k \in 1 .. Len(links) : p = <<nodes[links[k].from], nodes[links[k].to]>>
    BY <2>1 DEF Observed
  <2>3. links[k] \in LinksOf(nodes)
    BY <2>1
  <2>4. links[k].from \in 1 .. N /\ links[k].to \in 1 .. N
    BY <1>1, <2>3 DEF LinksOf
  <2> QED BY <2>2, <2>4
<1>3. \E i \in 1 .. N : nodes[i] = a
  <2>1. SUFFICES ASSUME \A i \in 1 .. N : nodes[i] # a PROVE FALSE
    OBVIOUS
  <2>2. Closed(Seen(requested), {a})
    BY <1>2, <2>1 DEF Closed
  <2>3. {a} \in SUBSET Ids /\ a \in {a} /\ b \notin {a}
    OBVIOUS
  <2> QED BY <2>2, <2>3 DEF Leads
<1>4. PICK i \in 1 .. N : nodes[i] = a
  BY <1>3
<1> DEFINE R == {j \in 1 .. N : CanReach(i, j)}
           T == {nodes[j] : j \in R}
<1>5. T \in SUBSET Ids /\ a \in T
  <2>1. i \in R
    BY <1>1, StayReached
  <2> QED BY <1>1, <1>4, <2>1
<1>6. Closed(Seen(requested), T)
  <2> SUFFICES ASSUME NEW p \in Seen(requested), p[1] \in T PROVE p[2] \in T
    BY DEF Closed
  <2>1. PICK x, y \in 1 .. N : p = <<nodes[x], nodes[y]>>
    BY <1>2
  <2>2. PICK j \in R : nodes[x] = nodes[j]
    BY <2>1
  <2>3. x = j /\ CanReach(i, x)
    BY <1>1, <2>2
  <2>4. Between(x, y) # {}
    BY <1>1, <2>1, BetweenSeen
  <2>5. CanReach(i, y)
    BY <1>1, <2>3, <2>4, WayGoesOn
  <2> QED BY <2>1, <2>5
<1>7. b \in T
  <2> HIDE DEF T
  <2> QED BY <1>5, <1>6 DEF Leads
<1>8. PICK j \in R : nodes[j] = b
  BY <1>7
<1> QED BY <1>1, <1>4, <1>8

(* Among the ways there is a cheapest, so astar answers when there is a way. *)
LEMMA StepCostTyped ==
  ASSUME NEW p, NEW i, Between(p[i], p[i + 1]) # {}
  PROVE  StepCost(p, i) \in Nat
<1> DEFINE S == {EdgeCost(links[k].kind) : k \in Between(p[i], p[i + 1])}
           C == {10, 15, 20, 30, 50}
<1>1. S \subseteq C /\ S # {}
  BY DEF EdgeCost
<1>2. IsFiniteSet(C)
  <2>1. 50 \in Nat /\ C \in SUBSET (1 .. 50)
    OBVIOUS
  <2> HIDE DEF C
  <2>2. IsFiniteSet(1 .. 50)
    BY <2>1, CountOfFirst
  <2> QED BY <2>1, <2>2, FS_Subset
<1>3. C \subseteq Int /\ C \subseteq Nat
  OBVIOUS
<1>4. StepCost(p, i) = LowestOf(S)
  BY DEF StepCost
<1> HIDE DEF S, C
<1>5. IsFiniteSet(S)
  BY <1>1, <1>2, FS_Subset
<1>6. \E x \in S : \A y \in S : x <= y
  <2>1. S \subseteq Int
    BY <1>1, <1>3
  <2> QED BY <1>1, <1>5, <2>1, LeastOf
<1>7. LowestOf(S) \in S
  BY <1>6 DEF LowestOf
<1> QED BY <1>1, <1>3, <1>4, <1>7

LEMMA CostTyped ==
  ASSUME NEW p, NEW n \in Nat, NEW N, NEW i, NEW j, IsWay(p, n, N, i, j)
  PROVE  CostOf(p) \in Nat
<1>1. PICK m \in Nat : m = n - 1 /\ m = Len(p) - 1
  <2>1. n >= 1 /\ n = Len(p)
    BY DEF IsWay
  <2>2. n - 1 \in Nat /\ n - 1 = Len(p) - 1
    BY <2>1
  <2> QED BY <2>2
<1>2. ASSUME NEW a \in 1 .. m PROVE StepCost(p, a) \in Nat
  <2>1. Between(p[a], p[a + 1]) # {}
    BY <1>1 DEF IsWay
  <2> QED BY <2>1, StepCostTyped
<1> DEFINE step == [x \in (1 .. m) \X Nat |-> x[2] + StepCost(p, x[1])]
<1>3. step \in [(1 .. m) \X Nat -> Nat]
  BY <1>2
<1>4. \A a \in 1 .. m, v \in Nat : step[<<a, v>>] = v + StepCost(p, a)
  OBVIOUS
<1> HIDE DEF step
<1>5. 0 \in Nat
  OBVIOUS
<1>6. PICK g \in [0 .. m -> Nat] : Follows(g, m, 0, step)
  BY <1>3, <1>5, StepwiseExists
<1> DEFINE Eq(f) == f = [a \in 0 .. m |-> IF a = 0 THEN 0 ELSE f[a - 1] + StepCost(p, a)]
<1>7. Eq(g)
  <2>1. ASSUME NEW a \in 0 .. m PROVE g[a] = IF a = 0 THEN 0 ELSE g[a - 1] + StepCost(p, a)
    <3>1. a # 0 => a \in 1 .. m /\ g[a - 1] \in Nat
      OBVIOUS
    <3> QED BY <1>4, <1>6, <3>1 DEF Follows
  <2> QED BY <2>1
<1> DEFINE upto == CHOOSE f : Eq(f)
<1>8. Eq(upto)
  <2> HIDE DEF Eq
  <2> QED BY <1>7, Zenon
<1>9. CostOf(p) = upto[m]
  BY <1>1 DEF CostOf
<1> HIDE DEF upto
<1>10. \A a \in 0 .. m : upto[a] = IF a = 0 THEN 0 ELSE upto[a - 1] + StepCost(p, a)
  BY <1>8
<1> HIDE DEF Eq
<1> DEFINE P == {a \in 0 .. m : upto[a] \in Nat}
<1>11. 0 \in P
  BY <1>10
<1>12. ASSUME NEW a \in 0 .. m - 1, a \in P PROVE a + 1 \in P
  <2>1. PICK b : b = a + 1 /\ b \in 1 .. m /\ b \in 0 .. m /\ b # 0 /\ b - 1 = a
    OBVIOUS
  <2>2. upto[b] = upto[a] + StepCost(p, b)
    BY <1>10, <2>1
  <2>3. upto[b] \in Nat
    BY <1>2, <1>12, <2>1, <2>2
  <2> QED BY <2>1, <2>3
<1> HIDE DEF P
<1>13. 0 .. m \subseteq P
  BY <1>11, <1>12, UpTo
<1> QED BY <1>9, <1>13 DEF P

LEMMA CheapestWay ==
  ASSUME ChainsInv, NEW i, NEW j, CanReach(i, j)
  PROVE  FindPath(i, j) # {}
<1>1. PICK p \in Ways(i, j) : TRUE
  BY DEF CanReach
<1>2. ASSUME NEW q \in Ways(i, j) PROVE CostOf(q) \in Nat
  <2>1. PICK N : N = Len(nodes)
    OBVIOUS
  <2>2. \E n \in Nat : IsWay(q, n, N, i, j)
    BY <2>1, WayOf
  <2> QED BY <2>2, CostTyped
<1> DEFINE S == {CostOf(q) : q \in {r \in Ways(i, j) : CostOf(r) <= CostOf(p)}}
<1>3. CostOf(p) \in S /\ S \subseteq 0 .. CostOf(p) /\ S \subseteq Int
  BY <1>1, <1>2
<1>4. IsFiniteSet(S)
  <2>1. IsFiniteSet(0 .. CostOf(p))
    <3>1. 0 \in Int /\ CostOf(p) \in Int
      BY <1>1, <1>2
    <3> QED BY <3>1, FS_Interval
  <2> QED BY <1>3, <2>1, FS_Subset
<1>5. PICK c \in S : \A d \in S : c <= d
  <2> HIDE DEF S
  <2> QED BY <1>3, <1>4, LeastOf
<1>6. PICK q \in Ways(i, j) : c = CostOf(q) /\ CostOf(q) <= CostOf(p)
  BY <1>5
<1>7. ASSUME NEW r \in Ways(i, j) PROVE CostOf(q) <= CostOf(r)
  <2>1. CASE CostOf(r) <= CostOf(p)
    BY <1>5, <1>6, <2>1
  <2>2. CASE ~(CostOf(r) <= CostOf(p))
    BY <1>1, <1>2, <1>6, <2>2
  <2> QED BY <2>1, <2>2
<1> QED BY <1>6, <1>7 DEF FindPath

(* What a chain says: it starts and ends where its way does, and each of its *)
(* steps was seen.                                                           *)
LEMMA ChainOf ==
  ASSUME ChainsInv, NEW i, NEW j, NEW p \in Ways(i, j), NEW c, c = BuildChain(p)
  PROVE  /\ c.ids[1] = nodes[i] /\ c.ids[Len(c.ids)] = nodes[j]
         /\ i \in 1 .. Len(nodes) /\ j \in 1 .. Len(nodes)
         /\ Len(c.edges) = Len(c.ids) - 1
         /\ \A a \in DOMAIN c.edges : <<c.ids[a], c.ids[a + 1]>> \in Seen(requested)
<1>1. PICK N : N = Len(nodes)
  OBVIOUS
<1>2. PICK n \in Nat : IsWay(p, n, N, i, j)
  BY <1>1, WayOf
<1>3. /\ n = Len(p) /\ n >= 1 /\ DOMAIN p = 1 .. n /\ p[1] = i /\ p[n] = j
      /\ (\A a \in 1 .. n : p[a] \in 1 .. N)
      /\ \A a \in 1 .. n - 1 : Between(p[a], p[a + 1]) # {}
  BY <1>2 DEF IsWay
<1>4. i \in 1 .. N /\ j \in 1 .. N
  BY <1>3
<1> DEFINE kinds == [a \in Steps(p) |->
                       links[CHOOSE k \in Between(p[a], p[a + 1]) :
                               \A l \in Between(p[a], p[a + 1]) : l <= k].kind]
           ids == [a \in DOMAIN p |-> nodes[p[a]]]
<1>5. c.ids = ids /\ c.edges = kinds
  BY DEF BuildChain
<1>6. ids = [a \in 1 .. n |-> nodes[p[a]]]
  BY <1>3
<1>7. Len(ids) = n /\ \A a \in 1 .. n : ids[a] = nodes[p[a]]
  BY <1>6
<1>8. DOMAIN kinds = 1 .. n - 1
  BY <1>3 DEF Steps
<1>9. Len(kinds) = n - 1
  <2>1. PICK m \in Nat : m = n - 1
    BY SMTT(60), <1>3
  <2>2. kinds = [a \in 1 .. m |-> kinds[a]]
    BY <1>8, <2>1
  <2> HIDE DEF kinds
  <2> QED BY <1>8, <2>1, <2>2
<1> HIDE DEF ids, kinds
<1>10. ASSUME NEW a \in 1 .. n - 1 PROVE <<ids[a], ids[a + 1]>> \in Seen(requested)
  <2>1. a \in 1 .. n /\ a + 1 \in 1 .. n
    BY <1>3
  <2>2. p[a] \in 1 .. N /\ p[a + 1] \in 1 .. N /\ Between(p[a], p[a + 1]) # {}
    BY <1>3, <2>1
  <2>3. <<nodes[p[a]], nodes[p[a + 1]]>> \in Seen(requested)
    BY <1>1, <2>2, BetweenSeen
  <2> QED BY <1>7, <2>1, <2>3
<1>11. 1 \in 1 .. n /\ n \in 1 .. n
  BY <1>3
<1>12. ids[1] = nodes[i] /\ ids[Len(ids)] = nodes[j]
  BY <1>3, <1>7, <1>11
<1> QED BY <1>1, <1>4, <1>5, <1>7, <1>8, <1>9, <1>10, <1>12

LEMMA TwoOrMore ==
  ASSUME NEW S, IsFiniteSet(S)
  PROVE  Cardinality(S) > 1 <=> \E x, y \in S : x # y
<1>1. ASSUME NEW x \in S, NEW y \in S, x # y PROVE Cardinality(S) > 1
  <2>1. IsFiniteSet({x}) /\ Cardinality({x}) = 1
    BY FS_Singleton
  <2>2. Cardinality({x} \union {y}) = Cardinality({x}) + 1
    BY <1>1, <2>1, FS_AddElement
  <2>3. {x} \union {y} \in SUBSET S
    OBVIOUS
  <2>4. Cardinality({x} \union {y}) <= Cardinality(S) /\ Cardinality(S) \in Nat
    BY <2>3, FS_Subset, FS_CardinalityType
  <2> QED BY <2>1, <2>2, <2>4
<1>2. ASSUME Cardinality(S) > 1 PROVE \E x, y \in S : x # y
  <2>1. SUFFICES ASSUME ~\E x, y \in S : x # y PROVE FALSE
    OBVIOUS
  <2>2. S # {}
    <3>1. Cardinality({}) = 0
      BY FS_EmptySet
    <3> QED BY <1>2, <3>1
  <2>3. PICK x \in S : TRUE
    BY <2>2
  <2>4. S = {x}
    BY <2>1
  <2>5. Cardinality({x}) = 1
    BY FS_Singleton
  <2> QED BY <1>2, <2>4, <2>5
<1> QED BY <1>1, <1>2

(* A zone is all ids that lead to one of them and back, two or more.         *)
ZonesFound == {{nodes[i] : i \in zone} : zone \in LateralMovement}

ZonesSeen(s) ==
  {Z \in {{b \in Ids : Leads(s, a, b) /\ Leads(s, b, a)} : a \in Ids} : Cardinality(Z) > 1}

LEMMA ZonesAre ==
  ASSUME ChainsInv
  PROVE  ZonesFound = ZonesSeen(Seen(requested))
<1> DEFINE s == Seen(requested)
           Zone(i) == {j \in DOMAIN nodes : CanReach(i, j) /\ CanReach(j, i)}
           Class(a) == {b \in Ids : Leads(s, a, b) /\ Leads(s, b, a)}
           NamesOf(zone) == {nodes[i] : i \in zone}
<1>1. PICK N \in Nat : /\ N = Len(nodes) /\ DOMAIN nodes = 1 .. N /\ nodes \in Seq(Ids)
                       /\ \A i, j \in 1 .. N : nodes[i] = nodes[j] => i = j
  BY DEF ChainsInv, Orders
<1>2. \A i \in 1 .. N : nodes[i] \in Ids
  BY <1>1
<1>3. \A i, j : j \in Zone(i) <=> j \in 1 .. N /\ CanReach(i, j) /\ CanReach(j, i)
  BY <1>1
<1>4. \A a, b : b \in Class(a) <=> b \in Ids /\ Leads(s, a, b) /\ Leads(s, b, a)
  OBVIOUS
<1>5. LateralMovement = {zone \in {Zone(i) : i \in 1 .. N} : Cardinality(zone) > 1}
  BY <1>1 DEF LateralMovement
<1> HIDE DEF Zone, Class
<1>6. ASSUME NEW i \in 1 .. N PROVE IsFiniteSet(Zone(i)) /\ IsFiniteSet(NamesOf(Zone(i)))
  <2>1. IsFiniteSet(1 .. N) /\ Zone(i) \in SUBSET (1 .. N)
    BY <1>3, CountOfFirst
  <2>2. IsFiniteSet(Zone(i))
    BY <2>1, FS_Subset
  <2> DEFINE T == {nodes[j] : j \in 1 .. N}
  <2>3. IsFiniteSet(T)
    <3>1. [j \in 1 .. N |-> nodes[j]] \in Surjection(1 .. N, T)
      BY DEF Surjection
    <3>2. ExistsSurjection(1 .. N, T)
      BY <3>1 DEF ExistsSurjection
    <3> HIDE DEF T
    <3> QED BY <3>2, FS_NatSurjection
  <2>4. NamesOf(Zone(i)) \in SUBSET T
    BY <1>3
  <2>5. IsFiniteSet(NamesOf(Zone(i)))
    <3> HIDE DEF T, NamesOf
    <3> QED BY <2>3, <2>4, FS_Subset
  <2> QED BY <2>2, <2>5
<1>7. ASSUME NEW a \in Ids, NEW b \in Class(a), b # a
      PROVE  \E i, j \in 1 .. N : nodes[i] = a /\ nodes[j] = b /\ j \in Zone(i)
  <2>1. b \in Ids /\ Leads(Seen(requested), a, b) /\ Leads(Seen(requested), b, a)
    BY <1>4
  <2>2. PICK i \in 1 .. N, j \in 1 .. N : nodes[i] = a /\ nodes[j] = b /\ CanReach(i, j)
    BY <1>1, <1>7, <2>1, LeadsByWay
  <2>3. PICK k \in 1 .. N, l \in 1 .. N : nodes[k] = b /\ nodes[l] = a /\ CanReach(k, l)
    BY <1>1, <1>7, <2>1, LeadsByWay
  <2>4. k = j /\ l = i
    BY <1>1, <2>2, <2>3
  <2> QED BY <1>3, <2>2, <2>3, <2>4
<1>8. ASSUME NEW i \in 1 .. N PROVE NamesOf(Zone(i)) = Class(nodes[i])
  <2>1. ASSUME NEW j \in Zone(i) PROVE nodes[j] \in Class(nodes[i])
    <3>1. j \in 1 .. N /\ CanReach(i, j) /\ CanReach(j, i)
      BY <1>3
    <3>2. Leads(Seen(requested), nodes[i], nodes[j]) /\ Leads(Seen(requested), nodes[j], nodes[i])
      BY <1>1, <3>1, WayLeads
    <3> QED BY <1>2, <1>4, <3>1, <3>2
  <2>2. ASSUME NEW b \in Class(nodes[i]) PROVE \E j \in Zone(i) : b = nodes[j]
    <3>1. CASE b = nodes[i]
      <4>1. CanReach(i, i)
        BY <1>1, StayReached
      <4> QED BY <1>3, <3>1, <4>1
    <3>2. CASE b # nodes[i]
      <4>1. PICK k \in 1 .. N, j \in 1 .. N : nodes[k] = nodes[i] /\ nodes[j] = b /\ j \in Zone(k)
        BY <1>2, <1>7, <3>2
      <4>2. k = i
        BY <1>1, <4>1
      <4> QED BY <4>1, <4>2
    <3> QED BY <3>1, <3>2
  <2> QED BY <2>1, <2>2
<1>9. ASSUME NEW i \in 1 .. N
      PROVE  Cardinality(Zone(i)) > 1 <=> Cardinality(Class(nodes[i])) > 1
  <2>1. PICK Y, Z : /\ Y = Zone(i) /\ Z = NamesOf(Zone(i))
                    /\ IsFiniteSet(Y) /\ IsFiniteSet(Z) /\ Z = {nodes[k] : k \in Y}
    BY <1>6
  <2>2. /\ Cardinality(Y) > 1 <=> \E x, y \in Y : x # y
        /\ Cardinality(Z) > 1 <=> \E x, y \in Z : x # y
    BY <2>1, TwoOrMore
  <2>3. Y \subseteq 1 .. N
    BY <1>3, <2>1
  <2>4. (\E x, y \in Y : x # y) <=> \E x, y \in Z : x # y
    <3>1. ASSUME NEW x \in Y, NEW y \in Y, x # y PROVE nodes[x] # nodes[y]
      BY <1>1, <2>3, <3>1
    <3>2. ASSUME NEW x \in Y PROVE nodes[x] \in Z
      BY <2>1
    <3>3. ASSUME NEW x \in Z PROVE \E k \in Y : x = nodes[k]
      BY <2>1
    <3> QED BY <3>1, <3>2, <3>3
  <2>5. Z = Class(nodes[i])
    BY <1>8, <2>1
  <2> QED BY <2>1, <2>2, <2>4, <2>5
<1>10. ASSUME NEW a \in Ids, Cardinality(Class(a)) > 1 PROVE \E i \in 1 .. N : a = nodes[i]
  <2>1. PICK b \in Class(a) : b # a
    <3>1. SUFFICES ASSUME Class(a) \subseteq {a} PROVE FALSE
      OBVIOUS
    <3>2. IsFiniteSet({a}) /\ Cardinality({a}) = 1 /\ Class(a) \in SUBSET {a}
      BY <3>1, FS_Singleton
    <3>3. Cardinality(Class(a)) <= 1 /\ Cardinality(Class(a)) \in Nat
      BY <3>2, FS_Subset, FS_CardinalityType
    <3> QED BY <1>10, <3>3
  <2> QED BY <1>7, <2>1
<1> DEFINE Left == {NamesOf(zone) : zone \in LateralMovement}
           Right == {Z \in {Class(a) : a \in Ids} : Cardinality(Z) > 1}
<1> HIDE DEF NamesOf
<1>11. ASSUME NEW x \in Left PROVE x \in Right
  <2>1. PICK i \in 1 .. N : x = NamesOf(Zone(i)) /\ Cardinality(Zone(i)) > 1
    BY <1>5
  <2> QED BY <1>2, <1>8, <1>9, <2>1
<1>12. ASSUME NEW x \in Right PROVE x \in Left
  <2>1. PICK a \in Ids : x = Class(a) /\ Cardinality(Class(a)) > 1
    OBVIOUS
  <2>2. PICK i \in 1 .. N : a = nodes[i]
    BY <1>10, <2>1
  <2>3. Zone(i) \in LateralMovement /\ x = NamesOf(Zone(i))
    BY <1>5, <1>8, <1>9, <2>1, <2>2
  <2> QED BY <2>3
<1>13. Left = Right
  BY <1>11, <1>12
<1>14. ZonesFound = Left
  BY DEF ZonesFound, NamesOf
<1>15. ZonesSeen(s) = Right
  BY DEF ZonesSeen, Class
<1> QED BY <1>13, <1>14, <1>15

LEMMA ChainsJoin ==
  ASSUME ChainsInv
  PROVE  {<<c.ids[1], c.ids[Len(c.ids)]>> : c \in AttackChains} =
           {p \in IdsOf("external") \X IdsOf("database") : Leads(Seen(requested), p[1], p[2])}
<1> DEFINE Ends == {<<c.ids[1], c.ids[Len(c.ids)]>> : c \in AttackChains}
           Led == {p \in IdsOf("external") \X IdsOf("database") : Leads(Seen(requested), p[1], p[2])}
<1>1. PICK N \in Nat : N = Len(nodes) /\ DOMAIN nodes = 1 .. N /\ \A i \in 1 .. N : nodes[i] \in Ids
  BY DEF ChainsInv, Orders
<1>2. ASSUME NEW x \in Ends PROVE x \in Led
  <2>1. PICK c \in AttackChains : x = <<c.ids[1], c.ids[Len(c.ids)]>>
    BY <1>2
  <2>2. PICK i \in EntryPoints, j \in CriticalAssets :
              \E p \in FindPath(i, j) : c = BuildChain(p)
    BY <2>1 DEF AttackChains
  <2>3. PICK p \in Ways(i, j) : c = BuildChain(p)
    BY <2>2 DEF FindPath
  <2>4. c.ids[1] = nodes[i] /\ c.ids[Len(c.ids)] = nodes[j] /\ i \in 1 .. N /\ j \in 1 .. N
    BY <1>1, <2>3, ChainOf
  <2>5. CanReach(i, j)
    BY <2>3 DEF CanReach
  <2>6. Leads(Seen(requested), nodes[i], nodes[j])
    BY <1>1, <2>4, <2>5, WayLeads
  <2>7. nodes[i] \in IdsOf("external") /\ nodes[j] \in IdsOf("database")
    BY <1>1, <2>4 DEF EntryPoints, CriticalAssets, IdsOf
  <2> QED BY <2>1, <2>4, <2>6, <2>7
<1>3. ASSUME NEW a \in IdsOf("external"), NEW b \in IdsOf("database"), Leads(Seen(requested), a, b)
      PROVE  <<a, b>> \in Ends
  <2>1. a \in Ids /\ b \in Ids /\ Kind[a] = "external" /\ Kind[b] = "database"
    BY DEF IdsOf
  <2>2. PICK i \in 1 .. N, j \in 1 .. N : nodes[i] = a /\ nodes[j] = b /\ CanReach(i, j)
    <3>1. a # b
      BY <2>1
    <3> QED BY <1>1, <1>3, <2>1, <3>1, LeadsByWay
  <2>3. i \in EntryPoints /\ j \in CriticalAssets
    BY <1>1, <2>1, <2>2 DEF EntryPoints, CriticalAssets
  <2>4. PICK p \in FindPath(i, j) : TRUE
    BY <2>2, CheapestWay
  <2>5. p \in Ways(i, j)
    BY DEF FindPath
  <2>6. PICK c : c = BuildChain(p)
    OBVIOUS
  <2>7. c.ids[1] = a /\ c.ids[Len(c.ids)] = b
    BY <2>2, <2>5, <2>6, ChainOf
  <2>8. c \in AttackChains
    BY <2>3, <2>4, <2>6 DEF AttackChains
  <2>9. <<c.ids[1], c.ids[Len(c.ids)]>> \in Ends
    BY <2>8
  <2> QED BY <2>7, <2>9
<1>4. Led \subseteq Ends
  <2> SUFFICES ASSUME NEW x \in Led PROVE x \in Ends
    OBVIOUS
  <2>1. PICK a \in IdsOf("external"), b \in IdsOf("database") : x = <<a, b>> /\ Leads(Seen(requested), a, b)
    OBVIOUS
  <2> HIDE DEF Ends
  <2> QED BY <1>3, <2>1
<1> QED BY <1>2, <1>4

LEMMA ChainsFollow ==
  ASSUME ChainsInv
  PROVE  ChainsFollowWhatWasSeen
<1>1. ASSUME NEW c \in AttackChains
      PROVE  /\ Len(c.edges) = Len(c.ids) - 1
             /\ \A i \in DOMAIN c.edges : <<c.ids[i], c.ids[i + 1]>> \in Seen(requested)
  <2>1. PICK i \in EntryPoints, j \in CriticalAssets :
              \E p \in FindPath(i, j) : c = BuildChain(p)
    BY DEF AttackChains
  <2>2. PICK p \in Ways(i, j) : c = BuildChain(p)
    BY <2>1 DEF FindPath
  <2> QED BY <2>2, ChainOf
<1>2. {{nodes[i] : i \in zone} : zone \in LateralMovement} = ZonesSeen(Seen(requested))
  BY ZonesAre DEF ZonesFound
<1> QED BY <1>1, <1>2, ChainsJoin DEF ChainsFollowWhatWasSeen, ZonesSeen

(* The attack chains follow what was seen, for every set of services, CVEs   *)
(* and addresses, every way names hold addresses, and every order of calls.  *)
THEOREM ChainsTellTheGraph == ChainsSpec => []ChainsFollowWhatWasSeen
<1>1. ChainsSpec => []ChainsInv
  BY InitChains, NextChains, PTL DEF ChainsSpec
<1>2. ChainsInv => ChainsFollowWhatWasSeen
  BY ChainsFollow
<1> QED BY <1>1, <1>2, PTL
-----------------------------------------------------------------------------
(* The first attack graph. What the calls so far have told is said here of   *)
(* any list of calls and any list of edges, so that the lists before and     *)
(* after a step can be compared.                                             *)
NodeNames == {"p", "n"} \union LibraryPaths \union {a[1] : a \in Advisories}

Nodes == {"proc", "lib", "net", "vuln"} \X NodeNames

JoinsOf == [from : Nodes, to : Nodes,
            kind : {"LibraryLoaded", "NetworkConnection", "Vulnerable"}]

CallsMade == [call : {"load", "connect", "associate", "attach"},
              arg : LibraryPaths \union {"n"} \union Advisories \union SUBSET DOMAIN CveOf]

LoadedIn(h, l) == \E k \in 1 .. Len(h) : h[k].call = "load" /\ h[k].arg = l

SightedIn(h, cve, n) ==
  {s \in (1 .. n - 1) \X LibraryPaths :
     /\ h[s[1]].call = "associate" /\ h[s[1]].arg[1] = cve
     /\ <<s[2], h[s[1]].arg[2]>> \in Matching
     /\ \E k \in 1 .. s[1] - 1 : h[k].call = "load" /\ h[k].arg = s[2]}

PathIn(js, cve) == {i \in DOMAIN js : js[i].from = <<"vuln", cve>> /\ js[i].kind = "Vulnerable"}

ToldIn(h, f, i) ==
  IF /\ h[i].call = "attach" /\ f \in h[i].arg
     /\ \E g \in h[i].arg \cap ReachableOnes : CveOf[g] = CveOf[f]
    THEN [j \in 1 .. Cardinality(SightedIn(h, CveOf[f], i)) |->
            PathConfidence(Cardinality(SightedIn(h, CveOf[f], i)))]
    ELSE <<>>

AllTold(h, f) == FlattenSeq([i \in 1 .. Len(h) |-> ToldIn(h, f, i)])

(* The sightings a call adds.                                                *)
Fresh(h, c, cve) ==
  {s \in {Len(h) + 1} \X LibraryPaths :
     /\ c.call = "associate" /\ c.arg[1] = cve
     /\ <<s[2], c.arg[2]>> \in Matching
     /\ LoadedIn(h, s[2])}

(* The path of a CVE has an edge for each sighting.                          *)
SameCount(js, h, cve) ==
  /\ IsFiniteSet(PathIn(js, cve)) /\ IsFiniteSet(SightedIn(h, cve, Len(h) + 1))
  /\ Cardinality(PathIn(js, cve)) = Cardinality(SightedIn(h, cve, Len(h) + 1))

KnownLibraries(its, h) == \A l : <<"lib", l>> \in its <=> l \in LibraryPaths /\ LoadedIn(h, l)

RuntimeInv ==
  /\ items \in SUBSET Nodes /\ IsFiniteSet(items)
  /\ joins \in Seq(JoinsOf)
  /\ made \in Seq(CallsMade)
  /\ attached \in [DOMAIN CveOf -> Seq(Nat)]
  /\ KnownLibraries(items, made)
  /\ \A cve : SameCount(joins, made, cve)
  /\ \A f \in DOMAIN CveOf : attached[f] = AllTold(made, f)

LEMMA MoreCalls ==
  ASSUME NEW h \in Seq(CallsMade), NEW c \in CallsMade, NEW n \in Nat, n = Len(h)
  PROVE  /\ Append(h, c) \in Seq(CallsMade) /\ Len(Append(h, c)) = n + 1
         /\ Append(h, c)[n + 1] = c
         /\ \A i \in 1 .. n : Append(h, c)[i] = h[i]
  OBVIOUS

LEMMA SightedKept ==
  ASSUME NEW h \in Seq(CallsMade), NEW c \in CallsMade, NEW n \in Nat, n = Len(h),
         NEW m \in 1 .. n + 1, NEW cve
  PROVE  SightedIn(Append(h, c), cve, m) = SightedIn(h, cve, m)
<1> DEFINE q == Append(h, c)
<1>1. \A i \in 1 .. n : q[i] = h[i]
  BY MoreCalls
<1> HIDE DEF q
<1>2. ASSUME NEW s \in (1 .. m - 1) \X LibraryPaths
      PROVE  /\ q[s[1]] = h[s[1]]
             /\ \A k \in 1 .. s[1] - 1 : q[k] = h[k]
  <2>1. PICK a \in 1 .. m - 1 : a = s[1]
    OBVIOUS
  <2>2. a \in 1 .. n /\ \A k \in 1 .. a - 1 : k \in 1 .. n
    OBVIOUS
  <2> QED BY <1>1, <2>1, <2>2
<1>3. SightedIn(q, cve, m) = SightedIn(h, cve, m)
  BY <1>2 DEF SightedIn
<1> QED BY <1>3 DEF q

LEMMA SightedMore ==
  ASSUME NEW h \in Seq(CallsMade), NEW c \in CallsMade, NEW n \in Nat, n = Len(h), NEW cve
  PROVE  /\ SightedIn(Append(h, c), cve, n + 2) = SightedIn(h, cve, n + 1) \union Fresh(h, c, cve)
         /\ SightedIn(h, cve, n + 1) \cap Fresh(h, c, cve) = {}
<1> DEFINE q == Append(h, c)
           Good(s) == /\ q[s[1]].call = "associate" /\ q[s[1]].arg[1] = cve
                      /\ <<s[2], q[s[1]].arg[2]>> \in Matching
                      /\ \E k \in 1 .. s[1] - 1 : q[k].call = "load" /\ q[k].arg = s[2]
           Old == (1 .. n) \X LibraryPaths
           New == {n + 1} \X LibraryPaths
<1>1. q[n + 1] = c /\ \A i \in 1 .. n : q[i] = h[i]
  BY MoreCalls
<1>2. (n + 2) - 1 = n + 1 /\ (n + 1) - 1 = n
  OBVIOUS
<1>3. SightedIn(q, cve, n + 2) = {s \in (1 .. n + 1) \X LibraryPaths : Good(s)}
  BY <1>2 DEF SightedIn
<1>4. SightedIn(h, cve, n + 1) = {s \in Old : Good(s)}
  <2>1. n + 1 \in 1 .. n + 1
    OBVIOUS
  <2>2. SightedIn(q, cve, n + 1) = SightedIn(h, cve, n + 1)
    BY <2>1, SightedKept
  <2> QED BY <1>2, <2>2 DEF SightedIn
<1>5. Fresh(h, c, cve) = {s \in New : Good(s)}
  <2>1. ASSUME NEW s \in New
        PROVE  Good(s) <=> /\ c.call = "associate" /\ c.arg[1] = cve
                           /\ <<s[2], c.arg[2]>> \in Matching /\ LoadedIn(h, s[2])
    <3>1. s[1] = n + 1 /\ s[1] - 1 = n
      OBVIOUS
    <3> HIDE DEF q
    <3>2. (\E k \in 1 .. n : q[k].call = "load" /\ q[k].arg = s[2]) <=> LoadedIn(h, s[2])
      BY <1>1 DEF LoadedIn
    <3> QED BY <1>1, <3>1, <3>2
  <2>2. Fresh(h, c, cve) = {s \in New : /\ c.call = "associate" /\ c.arg[1] = cve
                                         /\ <<s[2], c.arg[2]>> \in Matching /\ LoadedIn(h, s[2])}
    <3>1. {Len(h) + 1} \X LibraryPaths = New
      OBVIOUS
    <3> HIDE DEF New
    <3>2. \A s : s \in Fresh(h, c, cve)
                 <=> s \in {Len(h) + 1} \X LibraryPaths
                     /\ c.call = "associate" /\ c.arg[1] = cve
                     /\ <<s[2], c.arg[2]>> \in Matching /\ LoadedIn(h, s[2])
      BY Zenon DEF Fresh
    <3> HIDE DEF q, Good
    <3> QED BY <3>1, <3>2, Zenon
  <2> HIDE DEF Good, New
  <2> QED BY <2>1, <2>2
<1>6. (1 .. n + 1) \X LibraryPaths = Old \union New /\ Old \cap New = {}
  <2>1. 1 .. n + 1 = (1 .. n) \union {n + 1} /\ n + 1 \notin 1 .. n
    OBVIOUS
  <2> QED BY <2>1
<1> HIDE DEF q, Good, Old, New
<1>7. SightedIn(q, cve, n + 2) = SightedIn(h, cve, n + 1) \union Fresh(h, c, cve)
  BY <1>3, <1>4, <1>5, <1>6
<1>8. SightedIn(h, cve, n + 1) \cap Fresh(h, c, cve) = {}
  BY <1>4, <1>5, <1>6
<1> QED BY <1>7, <1>8 DEF q

LEMMA NothingFresh ==
  ASSUME NEW h \in Seq(CallsMade), NEW c \in CallsMade, NEW n \in Nat, n = Len(h), NEW cve,
         ~(c.call = "associate" /\ c.arg[1] = cve)
  PROVE  SightedIn(Append(h, c), cve, n + 2) = SightedIn(h, cve, n + 1)
<1>1. Fresh(h, c, cve) = {}
  BY DEF Fresh
<1>2. SightedIn(Append(h, c), cve, n + 2) = SightedIn(h, cve, n + 1) \union Fresh(h, c, cve)
  BY SightedMore
<1> QED BY <1>1, <1>2

(* Edges that are not of a CVE leave its path alone; edges that all are of   *)
(* it are counted.                                                           *)
OffPath(new, cve) ==
  \A i \in 1 .. Len(new) : ~(new[i].from = <<"vuln", cve>> /\ new[i].kind = "Vulnerable")

LEMMA PathKept ==
  ASSUME NEW js \in Seq(JoinsOf), NEW new \in Seq(JoinsOf), NEW cve, OffPath(new, cve)
  PROVE  PathIn(js \o new, cve) = PathIn(js, cve)
<1> DEFINE all == js \o new
<1>1. PICK m \in Nat, n \in Nat : m = Len(js) /\ n = Len(new)
  OBVIOUS
<1>2. /\ DOMAIN js = 1 .. m /\ DOMAIN all = 1 .. m + n
      /\ \A i \in 1 .. m + n : all[i] = IF i <= m THEN js[i] ELSE new[i - m]
  BY <1>1, ConcatProperties
<1> HIDE DEF all
<1>3. ASSUME NEW i \in 1 .. m + n, all[i].from = <<"vuln", cve>>, all[i].kind = "Vulnerable"
      PROVE  i \in 1 .. m
  <2>1. CASE i <= m
    BY <2>1
  <2>2. CASE ~(i <= m)
    <3>1. i - m \in 1 .. n /\ all[i] = new[i - m]
      BY <1>2, <2>2
    <3> QED BY <1>1, <1>3, <3>1 DEF OffPath
  <2> QED BY <2>1, <2>2
<1>4. \A i \in 1 .. m : i \in 1 .. m + n /\ all[i] = js[i]
  BY <1>2
<1>5. PathIn(all, cve) = PathIn(js, cve)
  BY <1>2, <1>3, <1>4 DEF PathIn
<1> QED BY <1>5 DEF all

LEMMA PathMore ==
  ASSUME NEW js \in Seq(JoinsOf), NEW new \in Seq(JoinsOf), NEW cve, IsFiniteSet(PathIn(js, cve)),
         \A i \in 1 .. Len(new) : new[i].from = <<"vuln", cve>> /\ new[i].kind = "Vulnerable"
  PROVE  /\ IsFiniteSet(PathIn(js \o new, cve))
         /\ Cardinality(PathIn(js \o new, cve)) = Cardinality(PathIn(js, cve)) + Len(new)
<1> DEFINE all == js \o new
<1>1. PICK m \in Nat, n \in Nat : m = Len(js) /\ n = Len(new)
  OBVIOUS
<1>2. /\ DOMAIN js = 1 .. m /\ DOMAIN all = 1 .. m + n
      /\ \A i \in 1 .. m + n : all[i] = IF i <= m THEN js[i] ELSE new[i - m]
  BY <1>1, ConcatProperties
<1> HIDE DEF all
<1> DEFINE On(i) == all[i].from = <<"vuln", cve>> /\ all[i].kind = "Vulnerable"
<1>3. \A i \in m + 1 .. m + n : On(i)
  <2> SUFFICES ASSUME NEW i \in m + 1 .. m + n PROVE On(i)
    OBVIOUS
  <2>1. i - m \in 1 .. n /\ i \in 1 .. m + n /\ ~(i <= m)
    OBVIOUS
  <2>2. all[i] = new[i - m]
    BY <1>2, <2>1
  <2> QED BY <1>1, <2>1, <2>2
<1>4. PathIn(all, cve) = {i \in 1 .. m + n : On(i)}
  BY <1>2 DEF PathIn
<1>5. PathIn(js, cve) = {i \in 1 .. m : On(i)}
  <2>1. \A i \in 1 .. m : i \in 1 .. m + n /\ all[i] = js[i]
    BY <1>2
  <2> QED BY <1>2, <2>1 DEF PathIn
<1> HIDE DEF On
<1>6. 1 .. m + n = (1 .. m) \union (m + 1 .. m + n) /\ (1 .. m) \cap (m + 1 .. m + n) = {}
  OBVIOUS
<1>7. /\ PathIn(all, cve) = PathIn(js, cve) \union (m + 1 .. m + n)
      /\ PathIn(js, cve) \cap (m + 1 .. m + n) = {}
  BY <1>3, <1>4, <1>5, <1>6
<1>8. IsFiniteSet(m + 1 .. m + n) /\ Cardinality(m + 1 .. m + n) = n
  <2>1. m + 1 \in Int /\ m + n \in Int
    OBVIOUS
  <2>2. /\ IsFiniteSet(m + 1 .. m + n)
        /\ Cardinality(m + 1 .. m + n) = IF m + 1 > m + n THEN 0 ELSE (m + n) - (m + 1) + 1
    BY <2>1, FS_Interval
  <2> QED BY <2>2
<1>9. /\ IsFiniteSet(PathIn(js, cve) \union (m + 1 .. m + n))
      /\ Cardinality(PathIn(js, cve) \union (m + 1 .. m + n)) = Cardinality(PathIn(js, cve)) + n
  BY <1>7, <1>8, DisjointCount
<1> QED BY <1>1, <1>7, <1>9 DEF all

LEMMA AsSequence ==
  ASSUME NEW S, IsFiniteSet(S)
  PROVE  SetToSeq(S) \in Seq(S) /\ Len(SetToSeq(S)) = Cardinality(S)
<1>1. PICK n \in Nat : n = Cardinality(S) /\ ExistsBijection(1 .. n, S)
  BY FS_CardinalityType
<1>2. \E f \in [1 .. n -> S] : IsInjective(f)
  BY <1>1 DEF ExistsBijection, Bijection, Injection, IsInjective
<1>3. SetToSeq(S) \in [1 .. n -> S]
  BY <1>1, <1>2 DEF SetToSeq
<1> QED BY <1>1, <1>3

(* The libraries a CVE is joined to are those of the sightings that are new. *)
LEMMA FreshCounted ==
  ASSUME RuntimeInv, NEW a \in Advisories, NEW c \in CallsMade, c.call = "associate", c.arg = a
  PROVE  /\ IsFiniteSet(VulnerableLibraries(a)) /\ VulnerableLibraries(a) \subseteq Nodes
         /\ IsFiniteSet(Fresh(made, c, a[1]))
         /\ Cardinality(Fresh(made, c, a[1])) = Cardinality(VulnerableLibraries(a))
<1> DEFINE V == VulnerableLibraries(a)
           F == Fresh(made, c, a[1])
           n == Len(made) + 1
           f == [i \in V |-> <<n, i[2]>>]
<1>1. items \in SUBSET Nodes /\ IsFiniteSet(items) /\ KnownLibraries(items, made)
  BY DEF RuntimeInv
<1>2. IsFiniteSet(V) /\ V \subseteq Nodes
  <2>1. V \in SUBSET items
    BY DEF VulnerableLibraries
  <2> QED BY <1>1, <2>1, FS_Subset
<1>3. ASSUME NEW i \in V
      PROVE  /\ i = <<"lib", i[2]>> /\ i[2] \in LibraryPaths
             /\ LoadedIn(made, i[2]) /\ <<i[2], a[2]>> \in Matching
  <2>1. i \in items /\ i[1] = "lib" /\ <<i[2], a[2]>> \in Matching
    BY DEF VulnerableLibraries
  <2>2. i = <<"lib", i[2]>>
    BY <1>1, <2>1 DEF Nodes
  <2> QED BY <1>1, <2>1, <2>2 DEF KnownLibraries
<1>4. f \in [V -> F]
  <2>1. ASSUME NEW i \in V PROVE <<n, i[2]>> \in F
    BY <1>3 DEF Fresh
  <2> QED BY <2>1
<1>5. \A i, j \in V : f[i] = f[j] => i = j
  BY <1>3
<1>6. ASSUME NEW s \in F PROVE \E i \in V : f[i] = s
  <2>1. PICK l \in LibraryPaths : s = <<n, l>> /\ LoadedIn(made, l) /\ <<l, a[2]>> \in Matching
    BY DEF Fresh
  <2>2. <<"lib", l>> \in items
    BY <1>1, <2>1 DEF KnownLibraries
  <2>3. <<"lib", l>> \in V
    BY <2>1, <2>2 DEF VulnerableLibraries
  <2> QED BY <2>1, <2>3
<1> HIDE DEF V, F, f
<1>7. f \in Bijection(V, F)
  BY <1>4, <1>5, <1>6 DEF Bijection, Injection, Surjection, IsInjective
<1>8. ExistsBijection(V, F)
  BY <1>7 DEF ExistsBijection
<1>9. IsFiniteSet(F) /\ Cardinality(F) = Cardinality(V)
  BY <1>2, <1>8, FS_Bijection
<1> QED BY <1>2, <1>9 DEF V, F

(* A call that adds edges of no CVE leaves every count as it is.             *)
LEMMA CountsKept ==
  ASSUME NEW js \in Seq(JoinsOf), NEW new \in Seq(JoinsOf),
         NEW h \in Seq(CallsMade), NEW c \in CallsMade, NEW cve,
         SameCount(js, h, cve), OffPath(new, cve), ~(c.call = "associate" /\ c.arg[1] = cve)
  PROVE  SameCount(js \o new, Append(h, c), cve)
<1>1. PICK n \in Nat : n = Len(h)
  OBVIOUS
<1>2. Len(Append(h, c)) + 1 = n + 2
  BY <1>1
<1>3. SightedIn(Append(h, c), cve, n + 2) = SightedIn(h, cve, n + 1)
  BY <1>1, NothingFresh
<1>4. PathIn(js \o new, cve) = PathIn(js, cve)
  BY PathKept
<1> QED BY <1>1, <1>2, <1>3, <1>4 DEF SameCount

LEMMA AssociateCounts ==
  ASSUME RuntimeInv, NEW a \in Advisories, AssociateCve(a), NEW cve
  PROVE  SameCount(joins', made', cve) /\ joins' \in Seq(JoinsOf)
<1> DEFINE V == VulnerableLibraries(a)
           libraries == SetToSeq(V)
           new == [i \in DOMAIN libraries |-> Join(<<"vuln", a[1]>>, libraries[i], "Vulnerable")]
           c == [call |-> "associate", arg |-> a]
<1>1. joins \in Seq(JoinsOf) /\ made \in Seq(CallsMade) /\ SameCount(joins, made, cve)
  BY DEF RuntimeInv
<1>2. joins' = joins \o new /\ made' = Append(made, c)
  BY DEF AssociateCve
<1>3. c \in CallsMade /\ c.call = "associate" /\ c.arg = a
  BY DEF CallsMade
<1> HIDE DEF c
<1>4. /\ IsFiniteSet(V) /\ V \subseteq Nodes /\ IsFiniteSet(Fresh(made, c, a[1]))
      /\ Cardinality(Fresh(made, c, a[1])) = Cardinality(V)
  BY <1>3, FreshCounted
<1>5. PICK k \in Nat : k = Cardinality(V)
  BY <1>4, FS_CardinalityType
<1>6. libraries \in Seq(V) /\ Len(libraries) = k
  BY <1>4, <1>5, AsSequence
<1> HIDE DEF V, libraries
<1>7. DOMAIN libraries = 1 .. k /\ \A i \in 1 .. k : libraries[i] \in Nodes
  BY <1>4, <1>6
<1>8. <<"vuln", a[1]>> \in Nodes
  BY DEF Nodes, NodeNames
<1>9. ASSUME NEW i \in 1 .. k
      PROVE  Join(<<"vuln", a[1]>>, libraries[i], "Vulnerable") \in JoinsOf
  BY <1>7, <1>8 DEF Join, JoinsOf
<1>10. new = [i \in 1 .. k |-> Join(<<"vuln", a[1]>>, libraries[i], "Vulnerable")]
  BY <1>7
<1> HIDE DEF new
<1>11. /\ new \in Seq(JoinsOf) /\ Len(new) = k
       /\ \A i \in 1 .. k : new[i].from = <<"vuln", a[1]>> /\ new[i].kind = "Vulnerable"
  <2>1. new \in [1 .. k -> JoinsOf]
    BY <1>9, <1>10
  <2>2. new \in Seq(JoinsOf) /\ Len(new) = k
    BY <2>1
  <2>3. \A i \in 1 .. k : new[i] = Join(<<"vuln", a[1]>>, libraries[i], "Vulnerable")
    BY <1>10
  <2> QED BY <2>2, <2>3 DEF Join
<1>12. joins' \in Seq(JoinsOf)
  BY <1>1, <1>2, <1>11
<1>13. CASE cve = a[1]
  <2>1. PICK n \in Nat : n = Len(made)
    <3>1. Len(made) \in Nat
      BY <1>1
    <3> QED BY ONLY <3>1
  <2>2. /\ SightedIn(made', cve, n + 2) = SightedIn(made, cve, n + 1) \union Fresh(made, c, cve)
        /\ SightedIn(made, cve, n + 1) \cap Fresh(made, c, cve) = {}
    BY <1>1, <1>2, <1>3, <2>1, SightedMore
  <2>3. /\ IsFiniteSet(PathIn(joins, cve)) /\ IsFiniteSet(SightedIn(made, cve, n + 1))
        /\ Cardinality(PathIn(joins, cve)) = Cardinality(SightedIn(made, cve, n + 1))
    BY <1>1, <2>1 DEF SameCount
  <2>4. /\ IsFiniteSet(SightedIn(made', cve, n + 2))
        /\ Cardinality(SightedIn(made', cve, n + 2)) = Cardinality(SightedIn(made, cve, n + 1)) + k
    BY <1>4, <1>5, <1>13, <2>2, <2>3, DisjointCount
  <2>5. /\ IsFiniteSet(PathIn(joins', cve))
        /\ Cardinality(PathIn(joins', cve)) = Cardinality(PathIn(joins, cve)) + k
    BY <1>1, <1>2, <1>11, <1>13, <2>3, PathMore
  <2>6. Len(made') + 1 = n + 2
    <3>1. Len(made') = n + 1
      BY <1>1, <1>2, <1>3, <2>1, MoreCalls
    <3> QED BY <3>1
  <2>7. SameCount(joins', made', cve)
    BY <2>3, <2>4, <2>5, <2>6 DEF SameCount
  <2> QED BY <1>12, <2>7
<1>14. CASE cve # a[1]
  <2>1. OffPath(new, cve)
    BY <1>11, <1>14 DEF OffPath
  <2>2. SameCount(joins \o new, Append(made, c), cve)
    BY <1>1, <1>3, <1>11, <1>14, <2>1, CountsKept
  <2> QED BY <1>2, <1>12, <2>2
<1> QED BY <1>13, <1>14

(* What a finding was told grows by what the last call tells it.             *)
LEMMA ToldMore ==
  ASSUME RuntimeInv, NEW c \in CallsMade, NEW f \in DOMAIN CveOf, NEW n, n = Len(made)
  PROVE  /\ ToldIn(Append(made, c), f, n + 1) \in Seq(Nat)
         /\ AllTold(Append(made, c), f) = AllTold(made, f) \o ToldIn(Append(made, c), f, n + 1)
<1> DEFINE h == Append(made, c)
           old == [i \in 1 .. n |-> ToldIn(made, f, i)]
           all == [i \in 1 .. n + 1 |-> ToldIn(h, f, i)]
           newest == ToldIn(h, f, n + 1)
<1>1. n \in Nat /\ made \in Seq(CallsMade)
  BY DEF RuntimeInv
<1>2. h \in Seq(CallsMade) /\ Len(h) = n + 1 /\ h[n + 1] = c /\ \A i \in 1 .. n : h[i] = made[i]
  BY <1>1, MoreCalls
<1>3. ASSUME NEW i \in 1 .. n + 1, NEW cve
      PROVE  SightedIn(h, cve, i) = SightedIn(made, cve, i) /\ Cardinality(SightedIn(h, cve, i)) \in Nat
  <2>1. SightedIn(h, cve, i) = SightedIn(made, cve, i)
    BY <1>1, SightedKept
  <2>2. SameCount(joins, made, cve)
    BY DEF RuntimeInv
  <2>3. IsFiniteSet(SightedIn(made, cve, n + 1))
    BY <2>2 DEF SameCount
  <2>4. SightedIn(made, cve, i) \in SUBSET SightedIn(made, cve, n + 1)
    <3>1. 1 .. i - 1 \subseteq 1 .. (n + 1) - 1
      BY <1>1
    <3> QED BY <3>1 DEF SightedIn
  <2>5. Cardinality(SightedIn(made, cve, i)) \in Nat
    BY <2>3, <2>4, FS_Subset, FS_CardinalityType
  <2> QED BY <2>1, <2>5
<1> HIDE DEF h
<1>4. ASSUME NEW i \in 1 .. n + 1 PROVE ToldIn(h, f, i) \in Seq(Nat)
  <2>1. PICK k \in Nat : k = Cardinality(SightedIn(h, CveOf[f], i))
    BY <1>3
  <2>2. PathConfidence(k) \in Nat
    BY DEF PathConfidence
  <2>3. [j \in 1 .. k |-> PathConfidence(k)] \in Seq(Nat)
    BY <2>2
  <2>4. ToldIn(h, f, i) = <<>> \/ ToldIn(h, f, i) = [j \in 1 .. k |-> PathConfidence(k)]
    BY <2>1 DEF ToldIn
  <2>5. <<>> \in Seq(Nat)
    OBVIOUS
  <2> QED BY <2>3, <2>4, <2>5, Zenon
<1>5. ASSUME NEW i \in 1 .. n PROVE ToldIn(h, f, i) = ToldIn(made, f, i)
  <2>1. i \in 1 .. n + 1
    BY <1>1
  <2>2. h[i] = made[i] /\ SightedIn(h, CveOf[f], i) = SightedIn(made, CveOf[f], i)
    BY <1>2, <1>3, <2>1
  <2> QED BY <2>2 DEF ToldIn
<1>6. AllTold(made, f) = FlattenSeq(old) /\ AllTold(h, f) = FlattenSeq(all)
  BY <1>2 DEF AllTold
<1> DEFINE V == Seq(Nat)
<1> HIDE DEF V
<1>7. newest \in V
  <2>1. n + 1 \in 1 .. n + 1
    BY <1>1
  <2> QED BY <1>4, <2>1 DEF V
<1>8. old \in [1 .. n -> V]
  <2>1. ASSUME NEW i \in 1 .. n PROVE ToldIn(made, f, i) \in V
    <3>1. i \in 1 .. n + 1
      BY <1>1
    <3> QED BY <1>4, <1>5, <3>1 DEF V
  <2> QED BY <2>1
<1>9. all = Append(old, newest)
  <2>1. PICK m \in Nat : m = n + 1
    BY <1>1
  <2>2. all \in [1 .. m -> V] /\ \A i \in 1 .. m : all[i] = ToldIn(h, f, i)
    BY <1>4, <2>1 DEF V
  <2>3. /\ old \in Seq(V) /\ Len(old) = n /\ \A i \in 1 .. n : old[i] = ToldIn(made, f, i)
    BY <1>1, <1>8
  <2> HIDE DEF all, old, newest
  <2>4. all \in Seq(V) /\ Len(all) = m
    BY <2>2
  <2> DEFINE more == Append(old, newest)
  <2>5. /\ more \in Seq(V) /\ Len(more) = n + 1 /\ more[n + 1] = newest
        /\ \A i \in 1 .. n : more[i] = old[i]
    BY <1>1, <1>7, <2>3, AppendProperties
  <2> HIDE DEF more
  <2>6. ASSUME NEW i \in 1 .. m PROVE all[i] = more[i]
    <3>1. CASE i \in 1 .. n
      BY <1>5, <2>2, <2>3, <2>5, <3>1
    <3>2. CASE i = n + 1
      BY <2>1, <2>2, <2>5, <3>2 DEF newest
    <3> QED BY <1>1, <2>1, <3>1, <3>2
  <2>7. all = more
    BY <2>1, <2>4, <2>5, <2>6, SeqEqual
  <2> QED BY <2>7 DEF more
<1>10. old \in Seq(V)
  BY <1>1, <1>8
<1> HIDE DEF old, all, newest
<1>11. FlattenSeq(Append(old, newest)) = FlattenSeq(old) \o newest
  BY <1>7, <1>10, FlattenAppend DEF V
<1> QED BY <1>6, <1>7, <1>9, <1>11 DEF h, newest, V

LEMMA NothingTold ==
  ASSUME RuntimeInv, NEW c \in CallsMade, c.call # "attach", NEW f \in DOMAIN CveOf
  PROVE  AllTold(Append(made, c), f) = AllTold(made, f)
<1>1. PICK n \in Nat : n = Len(made) /\ made \in Seq(CallsMade)
  BY DEF RuntimeInv
<1>2. Append(made, c)[n + 1] = c
  BY <1>1, MoreCalls
<1>3. ToldIn(Append(made, c), f, n + 1) = <<>>
  BY <1>2 DEF ToldIn
<1>4. AllTold(Append(made, c), f) = AllTold(made, f) \o <<>>
  BY <1>1, <1>3, ToldMore
<1>5. AllTold(made, f) \in Seq(Nat)
  BY DEF RuntimeInv
<1> QED BY <1>4, <1>5

LEMMA InitRuntime ==
  ASSUME RuntimeInit PROVE RuntimeInv
<1>1. items = {} /\ joins = <<>> /\ made = <<>> /\ \A f \in DOMAIN CveOf : attached[f] = <<>>
  BY DEF RuntimeInit
<1>2. attached \in [DOMAIN CveOf -> Seq(Nat)]
  <2>1. <<>> \in Seq(Nat)
    OBVIOUS
  <2> QED BY <2>1 DEF RuntimeInit
<1>3. KnownLibraries(items, made)
  BY <1>1 DEF KnownLibraries, LoadedIn
<1>4. ASSUME NEW cve PROVE SameCount(joins, made, cve)
  <2>1. Len(made) + 1 = 1 /\ 1 .. 1 - 1 = {}
    BY <1>1
  <2>2. SightedIn(made, cve, 1) = {}
    BY <2>1 DEF SightedIn
  <2>3. PathIn(joins, cve) = {}
    BY <1>1 DEF PathIn
  <2>4. IsFiniteSet({})
    BY FS_EmptySet
  <2> QED BY <2>1, <2>2, <2>3, <2>4 DEF SameCount
<1>5. ASSUME NEW f \in DOMAIN CveOf PROVE attached[f] = AllTold(made, f)
  <2>1. [i \in 1 .. Len(made) |-> ToldIn(made, f, i)] = <<>>
    BY <1>1
  <2>2. AllTold(made, f) = FlattenSeq(<<>>)
    BY <2>1 DEF AllTold
  <2> QED BY <1>1, <2>2, FlattenNothing
<1>6. items \in SUBSET Nodes /\ IsFiniteSet(items)
  BY <1>1, FS_EmptySet
<1>7. joins \in Seq(JoinsOf) /\ made \in Seq(CallsMade)
  BY <1>1
<1> QED BY <1>2, <1>3, <1>4, <1>5, <1>6, <1>7 DEF RuntimeInv

(* What a call that tells nothing leaves to be shown.                        *)
LEMMA QuietCall ==
  ASSUME RuntimeInv, NEW c \in CallsMade, c.call # "attach",
         made' = Append(made, c), attached' = attached,
         items' \in SUBSET Nodes, IsFiniteSet(items'), joins' \in Seq(JoinsOf),
         KnownLibraries(items', Append(made, c)), \A cve : SameCount(joins', made', cve)
  PROVE  RuntimeInv'
<1>1. made' \in Seq(CallsMade)
  BY DEF RuntimeInv
<1>2. attached' \in [DOMAIN CveOf -> Seq(Nat)]
  BY DEF RuntimeInv
<1>3. ASSUME NEW f \in DOMAIN CveOf PROVE attached'[f] = AllTold(made', f)
  <2>1. attached[f] = AllTold(made, f)
    BY DEF RuntimeInv
  <2>2. AllTold(Append(made, c), f) = AllTold(made, f)
    BY NothingTold
  <2> QED BY <2>1, <2>2
<1>4. KnownLibraries(items', made')
  OBVIOUS
<1> QED BY <1>1, <1>2, <1>3, <1>4 DEF RuntimeInv

(* Libraries are known by the calls that load them.                          *)
LEMMA LoadsSeen ==
  ASSUME RuntimeInv, NEW c \in CallsMade, NEW l
  PROVE  LoadedIn(Append(made, c), l) <=> LoadedIn(made, l) \/ (c.call = "load" /\ c.arg = l)
<1>1. made \in Seq(CallsMade)
  BY DEF RuntimeInv
<1>2. PICK n \in Nat : n = Len(made)
  <2>1. Len(made) \in Nat
    BY <1>1
  <2> QED BY ONLY <2>1
<1> DEFINE h == Append(made, c)
<1>3. Len(h) = n + 1 /\ h[n + 1] = c /\ \A i \in 1 .. n : h[i] = made[i]
  BY <1>1, <1>2, MoreCalls
<1> HIDE DEF h
<1>4. 1 .. n + 1 = (1 .. n) \union {n + 1}
  OBVIOUS
<1>5. LoadedIn(h, l) <=> LoadedIn(made, l) \/ (c.call = "load" /\ c.arg = l)
  BY <1>2, <1>3, <1>4 DEF LoadedIn
<1> QED BY <1>5 DEF h

(* An edge that is not of a CVE leaves every count as it is.                 *)
LEMMA PlainJoin ==
  ASSUME RuntimeInv, NEW e \in JoinsOf, e.kind # "Vulnerable",
         NEW c \in CallsMade, c.call # "associate"
  PROVE  /\ Append(joins, e) \in Seq(JoinsOf)
         /\ \A cve : SameCount(Append(joins, e), Append(made, c), cve)
<1> DEFINE new == <<e>>
<1>1. joins \in Seq(JoinsOf) /\ made \in Seq(CallsMade) /\ \A cve : SameCount(joins, made, cve)
  BY DEF RuntimeInv
<1>2. new \in Seq(JoinsOf) /\ Len(new) = 1 /\ new[1] = e
  OBVIOUS
<1>3. Append(joins, e) = joins \o new
  BY <1>1, AppendIsConcat
<1> HIDE DEF new
<1>4. ASSUME NEW cve PROVE SameCount(joins \o new, Append(made, c), cve)
  <2>1. SameCount(joins, made, cve)
    BY <1>1
  <2>2. OffPath(new, cve)
    BY <1>2 DEF OffPath
  <2> QED BY <1>1, <1>2, <2>1, <2>2, CountsKept
<1>5. Append(joins, e) \in Seq(JoinsOf)
  BY <1>1
<1> QED BY <1>3, <1>4, <1>5

LEMMA LoadKeeps ==
  ASSUME RuntimeInv, NEW path \in LibraryPaths, LoadLibraryPath(path)
  PROVE  RuntimeInv'
<1> DEFINE process == <<"proc", "p">>  library == <<"lib", path>>
           c == [call |-> "load", arg |-> path]
           e == Join(process, library, "LibraryLoaded")
<1>1. /\ items' = items \union {process, library} /\ joins' = Append(joins, e)
      /\ made' = Append(made, c) /\ attached' = attached
  BY DEF LoadLibraryPath
<1>2. process \in Nodes /\ library \in Nodes
  BY DEF Nodes, NodeNames
<1>3. c \in CallsMade /\ c.call = "load" /\ c.arg = path
  BY DEF CallsMade
<1>4. e \in JoinsOf /\ e.kind # "Vulnerable"
  BY <1>2 DEF Join, JoinsOf
<1>5. \A l : (<<"lib", l>> \in items' <=> <<"lib", l>> \in items \/ l = path)
  BY <1>1
<1> HIDE DEF c, e, process, library
<1>6. items' \in SUBSET Nodes /\ IsFiniteSet(items')
  <2>1. items \in SUBSET Nodes /\ IsFiniteSet(items)
    BY DEF RuntimeInv
  <2>2. IsFiniteSet(items \union {process}) /\ IsFiniteSet((items \union {process}) \union {library})
    BY <2>1, FS_AddElement
  <2>3. items' = (items \union {process}) \union {library}
    BY <1>1
  <2> QED BY <1>2, <2>1, <2>2, <2>3
<1>7. KnownLibraries(items', Append(made, c))
  <2>1. ASSUME NEW l
        PROVE  <<"lib", l>> \in items' <=> l \in LibraryPaths /\ LoadedIn(Append(made, c), l)
    <3>1. <<"lib", l>> \in items <=> l \in LibraryPaths /\ LoadedIn(made, l)
      BY DEF RuntimeInv, KnownLibraries
    <3>2. LoadedIn(Append(made, c), l) <=> LoadedIn(made, l) \/ (c.call = "load" /\ c.arg = l)
      BY <1>3, LoadsSeen
    <3> QED BY <1>3, <1>5, <3>1, <3>2
  <2> QED BY <2>1, Zenon DEF KnownLibraries
<1>8. joins' \in Seq(JoinsOf) /\ \A cve : SameCount(joins', made', cve)
  BY <1>1, <1>3, <1>4, PlainJoin
<1> QED BY <1>1, <1>3, <1>6, <1>7, <1>8, QuietCall

LEMMA ConnectKeeps ==
  ASSUME RuntimeInv, ConnectOut
  PROVE  RuntimeInv'
<1> DEFINE process == <<"proc", "p">>  endpoint == <<"net", "n">>
           c == [call |-> "connect", arg |-> "n"]
           e == Join(process, endpoint, "NetworkConnection")
<1>1. /\ items' = items \union {process, endpoint} /\ joins' = Append(joins, e)
      /\ made' = Append(made, c) /\ attached' = attached
  BY DEF ConnectOut
<1>2. process \in Nodes /\ endpoint \in Nodes
  BY DEF Nodes, NodeNames
<1>3. c \in CallsMade /\ c.call = "connect"
  BY DEF CallsMade
<1>4. e \in JoinsOf /\ e.kind # "Vulnerable"
  BY <1>2 DEF Join, JoinsOf
<1>5. \A l : (<<"lib", l>> \in items' <=> <<"lib", l>> \in items)
  BY <1>1
<1> HIDE DEF c, e, process, endpoint
<1>6. items' \in SUBSET Nodes /\ IsFiniteSet(items')
  <2>1. items \in SUBSET Nodes /\ IsFiniteSet(items)
    BY DEF RuntimeInv
  <2>2. IsFiniteSet(items \union {process}) /\ IsFiniteSet((items \union {process}) \union {endpoint})
    BY <2>1, FS_AddElement
  <2>3. items' = (items \union {process}) \union {endpoint}
    BY <1>1
  <2> QED BY <1>2, <2>1, <2>2, <2>3
<1>7. KnownLibraries(items', Append(made, c))
  <2>1. ASSUME NEW l
        PROVE  <<"lib", l>> \in items' <=> l \in LibraryPaths /\ LoadedIn(Append(made, c), l)
    <3>1. <<"lib", l>> \in items <=> l \in LibraryPaths /\ LoadedIn(made, l)
      BY DEF RuntimeInv, KnownLibraries
    <3>2. LoadedIn(Append(made, c), l) <=> LoadedIn(made, l) \/ (c.call = "load" /\ c.arg = l)
      BY <1>3, LoadsSeen
    <3> QED BY <1>3, <1>5, <3>1, <3>2
  <2> QED BY <2>1, Zenon DEF KnownLibraries
<1>8. joins' \in Seq(JoinsOf) /\ \A cve : SameCount(joins', made', cve)
  BY <1>1, <1>3, <1>4, PlainJoin
<1> QED BY <1>1, <1>3, <1>6, <1>7, <1>8, QuietCall

LEMMA AssociateKeeps ==
  ASSUME RuntimeInv, NEW a \in Advisories, AssociateCve(a)
  PROVE  RuntimeInv'
<1> DEFINE vulnerability == <<"vuln", a[1]>>
           c == [call |-> "associate", arg |-> a]
<1>1. items' = items \union {vulnerability} /\ made' = Append(made, c) /\ attached' = attached
  BY DEF AssociateCve
<1>2. vulnerability \in Nodes
  BY DEF Nodes, NodeNames
<1>3. c \in CallsMade /\ c.call = "associate"
  BY DEF CallsMade
<1>4. \A l : (<<"lib", l>> \in items' <=> <<"lib", l>> \in items)
  BY <1>1
<1> HIDE DEF c, vulnerability
<1>5. items' \in SUBSET Nodes /\ IsFiniteSet(items')
  <2>1. items \in SUBSET Nodes /\ IsFiniteSet(items)
    BY DEF RuntimeInv
  <2>2. IsFiniteSet(items \union {vulnerability})
    BY <2>1, FS_AddElement
  <2> QED BY <1>1, <1>2, <2>1, <2>2
<1>6. KnownLibraries(items', Append(made, c))
  <2>1. ASSUME NEW l
        PROVE  <<"lib", l>> \in items' <=> l \in LibraryPaths /\ LoadedIn(Append(made, c), l)
    <3>1. <<"lib", l>> \in items <=> l \in LibraryPaths /\ LoadedIn(made, l)
      BY DEF RuntimeInv, KnownLibraries
    <3>2. LoadedIn(Append(made, c), l) <=> LoadedIn(made, l) \/ (c.call = "load" /\ c.arg = l)
      BY <1>3, LoadsSeen
    <3> QED BY <1>3, <1>4, <3>1, <3>2
  <2> QED BY <2>1, Zenon DEF KnownLibraries
<1>7. \A cve : SameCount(joins', made', cve) /\ joins' \in Seq(JoinsOf)
  BY AssociateCounts
<1> QED BY <1>1, <1>3, <1>5, <1>6, <1>7, QuietCall

LEMMA AttachKeeps ==
  ASSUME RuntimeInv, NEW findings \in SUBSET DOMAIN CveOf, AttachPaths(findings)
  PROVE  RuntimeInv'
<1> DEFINE c == [call |-> "attach", arg |-> findings]
<1>1. items' = items /\ joins' = joins /\ made' = Append(made, c)
  BY DEF AttachPaths
<1>2. c \in CallsMade /\ c.call = "attach" /\ c.arg = findings
  BY DEF CallsMade
<1> HIDE DEF c
<1>3. /\ items \in SUBSET Nodes /\ IsFiniteSet(items) /\ joins \in Seq(JoinsOf)
      /\ made \in Seq(CallsMade) /\ attached \in [DOMAIN CveOf -> Seq(Nat)]
  BY DEF RuntimeInv
<1>4. PICK n \in Nat : n = Len(made)
  <2>1. Len(made) \in Nat
    BY <1>3
  <2> QED BY ONLY <2>1
<1>5. Append(made, c)[n + 1] = c /\ Append(made, c) \in Seq(CallsMade) /\ Len(Append(made, c)) = n + 1
  BY <1>2, <1>3, <1>4, MoreCalls
<1>6. KnownLibraries(items', made')
  <2>1. ASSUME NEW l
        PROVE  <<"lib", l>> \in items' <=> l \in LibraryPaths /\ LoadedIn(Append(made, c), l)
    <3>1. <<"lib", l>> \in items <=> l \in LibraryPaths /\ LoadedIn(made, l)
      BY DEF RuntimeInv, KnownLibraries
    <3>2. LoadedIn(Append(made, c), l) <=> LoadedIn(made, l) \/ (c.call = "load" /\ c.arg = l)
      BY <1>2, LoadsSeen
    <3> QED BY <1>1, <1>2, <3>1, <3>2
  <2> QED BY <1>1, <2>1, Zenon DEF KnownLibraries
<1>7. ASSUME NEW cve PROVE SameCount(joins', made', cve)
  <2>1. SameCount(joins, made, cve)
    BY DEF RuntimeInv
  <2>2. SightedIn(Append(made, c), cve, n + 2) = SightedIn(made, cve, n + 1)
    BY <1>2, <1>3, <1>4, NothingFresh
  <2>3. Len(made') + 1 = n + 2
    BY <1>1, <1>5
  <2> QED BY <1>1, <1>4, <2>1, <2>2, <2>3 DEF SameCount
<1>8. ASSUME NEW f \in DOMAIN CveOf
      PROVE  attached'[f] = attached[f] \o ToldIn(Append(made, c), f, n + 1)
  <2> DEFINE hears == f \in findings /\ CveOf[f] \in PathsOf(findings)
             m == Cardinality(OnPath(CveOf[f]))
  <2>1. attached'[f] = IF hears THEN attached[f] \o [i \in 1 .. m |-> PathConfidence(m)] ELSE attached[f]
    BY DEF AttachPaths
  <2>2. CveOf[f] \in PathsOf(findings) <=> \E g \in findings \cap ReachableOnes : CveOf[g] = CveOf[f]
    BY DEF PathsOf
  <2>3. m = Cardinality(SightedIn(Append(made, c), CveOf[f], n + 1))
    <3>1. SameCount(joins, made, CveOf[f])
      BY DEF RuntimeInv
    <3>2. OnPath(CveOf[f]) = PathIn(joins, CveOf[f])
      BY DEF OnPath, PathIn
    <3>3. n + 1 \in 1 .. n + 1
      OBVIOUS
    <3>4. SightedIn(Append(made, c), CveOf[f], n + 1) = SightedIn(made, CveOf[f], n + 1)
      BY <1>2, <1>3, <1>4, <3>3, SightedKept
    <3> QED BY <1>4, <3>1, <3>2, <3>4 DEF SameCount
  <2> HIDE DEF m
  <2>4. ToldIn(Append(made, c), f, n + 1)
        = IF hears THEN [i \in 1 .. m |-> PathConfidence(m)] ELSE <<>>
    BY <1>2, <1>5, <2>2, <2>3 DEF ToldIn
  <2>5. attached[f] \in Seq(Nat)
    BY <1>3
  <2>6. attached[f] \o <<>> = attached[f]
    BY <2>5
  <2> HIDE DEF hears
  <2> QED BY <2>1, <2>4, <2>6, Zenon
<1>9. ASSUME NEW f \in DOMAIN CveOf
      PROVE  attached'[f] = AllTold(made', f) /\ attached'[f] \in Seq(Nat)
  <2>1. attached[f] = AllTold(made, f) /\ attached[f] \in Seq(Nat)
    BY <1>3 DEF RuntimeInv
  <2>2. /\ ToldIn(Append(made, c), f, n + 1) \in Seq(Nat)
        /\ AllTold(Append(made, c), f) = AllTold(made, f) \o ToldIn(Append(made, c), f, n + 1)
    BY <1>2, <1>4, ToldMore
  <2> QED BY <1>1, <1>8, <2>1, <2>2, ConcatProperties
<1>10. attached' \in [DOMAIN CveOf -> Seq(Nat)]
  <2>1. DOMAIN attached' = DOMAIN CveOf /\ attached' = [f \in DOMAIN attached' |-> attached'[f]]
    BY DEF AttachPaths
  <2> QED BY <1>9, <2>1
<1>11. made' \in Seq(CallsMade)
  BY <1>1, <1>5
<1> QED BY <1>1, <1>3, <1>6, <1>7, <1>9, <1>10, <1>11 DEF RuntimeInv

LEMMA RuntimeKeeps ==
  ASSUME RuntimeInv, [RuntimeNext]_runtimeVars
  PROVE  RuntimeInv'
<1>1. CASE \E path \in LibraryPaths : LoadLibraryPath(path)
  BY <1>1, LoadKeeps
<1>2. CASE ConnectOut
  BY <1>2, ConnectKeeps
<1>3. CASE \E a \in Advisories : AssociateCve(a)
  BY <1>3, AssociateKeeps
<1>4. CASE \E findings \in SUBSET DOMAIN CveOf : AttachPaths(findings)
  BY <1>4, AttachKeeps
<1>5. CASE UNCHANGED runtimeVars
  <2>1. items' = items /\ joins' = joins /\ made' = made /\ attached' = attached
    BY <1>5 DEF runtimeVars
  <2> QED BY <2>1 DEF RuntimeInv
<1> QED BY <1>1, <1>2, <1>3, <1>4, <1>5 DEF RuntimeNext, Summarise

LEMMA ToldAsSighted ==
  ASSUME RuntimeInv PROVE FindingsToldOfSightings
<1>1. ASSUME NEW f \in DOMAIN CveOf
      PROVE  attached[f] = FlattenSeq([i \in 1 .. Len(made) |-> Told(f, i)])
  <2>1. ASSUME NEW i \in 1 .. Len(made) PROVE ToldIn(made, f, i) = Told(f, i)
    <3>1. SightedIn(made, CveOf[f], i) = Sightings(CveOf[f], i)
      BY DEF SightedIn, Sightings
    <3> QED BY <3>1 DEF ToldIn, Told
  <2>2. [i \in 1 .. Len(made) |-> ToldIn(made, f, i)] = [i \in 1 .. Len(made) |-> Told(f, i)]
    BY <2>1
  <2>3. attached[f] = AllTold(made, f)
    BY DEF RuntimeInv
  <2> QED BY <2>2, <2>3, Zenon DEF AllTold
<1> QED BY <1>1, Zenon DEF FindingsToldOfSightings

(* Of any number of libraries, advisories and findings: a finding is told of *)
(* exactly the libraries that were loaded when its CVE was associated, as    *)
(* often as it was, whatever calls come between                              *)
(* (runtime_attack_graph.rs: process_library_load,                           *)
(* associate_cve_with_library, attach_attack_paths_to_findings).             *)
THEOREM FindingsHearOfSightings == RuntimeSpec => []FindingsToldOfSightings
<1>1. RuntimeInit => RuntimeInv
  BY InitRuntime
<1>2. RuntimeInv /\ [RuntimeNext]_runtimeVars => RuntimeInv'
  BY RuntimeKeeps
<1>3. RuntimeInv => FindingsToldOfSightings
  BY ToldAsSighted
<1> QED BY <1>1, <1>2, <1>3, PTL DEF RuntimeSpec

(* What both graphs show of what was observed, side by side: the chains of   *)
(* attack_graph.rs and the paths runtime_attack_graph.rs attaches to         *)
(* findings.                                                                 *)
THEOREM GraphsTellTheTruth == ChainsSpec /\ RuntimeSpec => []GraphsTellWhatWasSeen
<1>1. ChainsFollowWhatWasSeen /\ FindingsToldOfSightings => GraphsTellWhatWasSeen
  BY DEF GraphsTellWhatWasSeen
<1> QED BY <1>1, ChainsTellTheGraph, FindingsHearOfSightings, PTL
=============================================================================
