------------------------ MODULE AlertDelivery_proofs ------------------------
(***************************************************************************)
(* Safety of the alerts, for every number of paths and senders, every      *)
(* cooldown, ttl and cache limit.                                          *)
(***************************************************************************)
EXTENDS AlertDelivery, FiniteSetTheorems, TLAPS

(* What the cache knows: nothing that was not broadcast, and every recent   *)
(* broadcast but those that enough others have crowded out.                 *)
Logged == \A e \in cache : \E i \in 1 .. Len(log) : log[i] = e
Past   == \A i \in 1 .. Len(log) : log[i].at <= now

Remembered ==
  \A i \in 1 .. Len(log) :
    Recent(log[i].at, Ttl) =>
      \/ \E e \in cache : e.path = log[i].path /\ e.at >= log[i].at
      \/ Cardinality(PathsSince(log, i, Len(log))) >= MaxDedup

CacheInv == IsFiniteSet(cache) /\ Logged /\ Past /\ Remembered /\ RepeatsOnlyWhenCrowdedOut

Inv == TypeOK /\ HighMeansAlerted /\ CacheInv

(* TypeOK by what the engine, the cache and the senders own.                *)
EngineTyped ==
  /\ now \in 0 .. MaxTime
  /\ events \in 0 .. MaxEvents
  /\ confidence \in [Paths -> Confidences \cup {0}]
  /\ lastAlert \in [Paths -> SUBSET (0 .. MaxTime)]
  /\ alerted \subseteq Paths

CacheTyped ==
  /\ cache \subseteq Entries
  /\ Cardinality(cache) <= MaxDedup
  /\ \A e, f \in cache : e.path = f.path => e = f
  /\ log \in Seq(Entries)

SendTyped ==
  /\ pc \in Stages
  /\ job \in [path : Paths, severity : 1 .. 4] \cup {NoJob}
  /\ sender \in Nat
  /\ attempts \in Nat
  /\ count \in [DOMAIN Senders -> Nat]

LEMMA TypeParts == TypeOK <=> EngineTyped /\ CacheTyped /\ SendTyped
  BY DEF TypeOK, EngineTyped, CacheTyped, SendTyped

LEMMA InitInv == Init => Inv
<1> SUFFICES ASSUME Init PROVE Inv
  OBVIOUS
<1> USE AlertAssumption DEF Init
<1>1. IsFiniteSet(cache) /\ Cardinality(cache) = 0
  BY FS_EmptySet
<1>2. EngineTyped /\ CacheTyped /\ SendTyped
  BY <1>1 DEF EngineTyped, CacheTyped, SendTyped, Stages
<1>3. HighMeansAlerted
  BY DEF HighMeansAlerted, High
<1>4. Logged /\ Past /\ Remembered /\ RepeatsOnlyWhenCrowdedOut
  BY DEF Logged, Past, Remembered, RepeatsOnlyWhenCrowdedOut
<1> QED
  BY <1>1, <1>2, <1>3, <1>4, TypeParts DEF Inv, CacheInv
-----------------------------------------------------------------------------
(* The paths of a log.                                                      *)

(* They are finitely many.                                                  *)
LEMMA PathsFinite ==
  ASSUME NEW l \in Seq(Entries), NEW i \in 1 .. Len(l), NEW n \in 0 .. Len(l)
  PROVE  IsFiniteSet(PathsSince(l, i, n))
<1> DEFINE K == {k \in 1 .. n : l[k].at >= l[i].at}
           P == {l[k].path : k \in K}
           f == [k \in K |-> l[k].path]
<1>1. IsFiniteSet(K)
  <2>1. 1 \in Int /\ n \in Int
    OBVIOUS
  <2>2. IsFiniteSet(1 .. n)
    BY <2>1, FS_Interval
  <2>3. K \subseteq 1 .. n
    OBVIOUS
  <2> HIDE DEF K
  <2> QED
    BY <2>2, <2>3, FS_Subset
<1>2. f \in Surjection(K, P)
  BY DEF Surjection
<1>3. IsFiniteSet(P)
  BY <1>1, <1>2, FS_Surjection
<1> QED
  BY <1>3, FS_Subset DEF PathsSince

(* A broadcast adds to the paths since an earlier one, and takes none away. *)
LEMMA PathsGrow ==
  ASSUME NEW l \in Seq(Entries), NEW e \in Entries, NEW i \in 1 .. Len(l)
  PROVE  /\ \A n \in 0 .. Len(l) : PathsSince(Append(l, e), i, n) = PathsSince(l, i, n)
         /\ Cardinality(PathsSince(l, i, Len(l))) \in Nat
         /\ Cardinality(PathsSince(Append(l, e), i, Len(l) + 1)) \in Nat
         /\ Cardinality(PathsSince(Append(l, e), i, Len(l) + 1))
              >= Cardinality(PathsSince(l, i, Len(l)))
<1> DEFINE m == Append(l, e)
           A == PathsSince(l, i, Len(l))
           B == PathsSince(m, i, Len(l) + 1)
<1>1. m \in Seq(Entries) /\ Len(m) = Len(l) + 1 /\ \A k \in 1 .. Len(l) : m[k] = l[k]
  OBVIOUS
<1> HIDE DEF m
<1>2. \A n \in 0 .. Len(l) : PathsSince(m, i, n) = PathsSince(l, i, n)
  <2> SUFFICES ASSUME NEW n \in 0 .. Len(l)
               PROVE  PathsSince(m, i, n) = PathsSince(l, i, n)
    OBVIOUS
  <2>1. \A k \in 1 .. n : m[k] = l[k]
    BY <1>1
  <2>2. m[i] = l[i]
    BY <1>1
  <2> QED
    BY <2>1, <2>2 DEF PathsSince
<1>3. PathsSince(m, i, Len(l)) \subseteq B
  BY <1>1 DEF PathsSince
<1>4. A \subseteq B
  BY <1>2, <1>3
<1>5. IsFiniteSet(A) /\ IsFiniteSet(B)
  BY <1>1, PathsFinite
<1> QED
  BY <1>2, <1>4, <1>5, FS_Subset, FS_CardinalityType DEF m
-----------------------------------------------------------------------------
(* One alert.                                                               *)

(* A broadcast leaves a log of one more entry.                              *)
LEMMA LogGrows ==
  ASSUME Inv, NEW p \in Paths, log' = Append(log, [path |-> p, at |-> now])
  PROVE  /\ log' \in Seq(Entries) /\ log \in Seq(Entries)
         /\ Len(log') = Len(log) + 1 /\ Len(log) \in Nat
         /\ \A i \in 1 .. Len(log) : log'[i] = log[i]
         /\ log'[Len(log) + 1] = [path |-> p, at |-> now]
<1> DEFINE new == [path |-> p, at |-> now]
<1>1. new \in Entries /\ log \in Seq(Entries)
  BY TypeParts DEF Inv, EngineTyped, CacheTyped, Entries
<1>2. log' = Append(log, new)
  OBVIOUS
<1> HIDE DEF new
<1>3. log' \in Seq(Entries) /\ Len(log') = Len(log) + 1 /\ Len(log) \in Nat
  BY <1>1, <1>2
<1>4. \A i \in 1 .. Len(log) : log'[i] = log[i]
  BY <1>1, <1>2
<1>5. log'[Len(log) + 1] = new
  BY <1>1, <1>2
<1> QED
  BY <1>1, <1>3, <1>4, <1>5 DEF new

(* What the lemmas below take from the invariant.                           *)
LEMMA CacheFacts ==
  ASSUME Inv
  PROVE  /\ now \in Nat /\ cache \subseteq Entries /\ log \in Seq(Entries)
         /\ IsFiniteSet(cache) /\ Cardinality(cache) \in Nat /\ Cardinality(cache) <= MaxDedup
         /\ \A e, f \in cache : e.path = f.path => e = f
         /\ \A e \in cache : e.at \in Nat
         /\ \A i \in 1 .. Len(log) : log[i] \in Entries /\ log[i].at \in Nat
<1>1. CacheTyped /\ IsFiniteSet(cache) /\ now \in Nat
  BY TypeParts DEF Inv, CacheInv, EngineTyped
<1>2. \A e \in Entries : e.at \in Nat
  BY DEF Entries
<1>3. \A i \in 1 .. Len(log) : log[i] \in Entries
  BY <1>1 DEF CacheTyped
<1> QED
  BY <1>1, <1>2, <1>3, FS_CardinalityType DEF CacheTyped

(* When a full cache makes room for p, a path that loses its entry has seen *)
(* MaxDedup others broadcast since: those that stay in the cache, and p.    *)
LEMMA Crowded ==
  ASSUME Inv, NEW p \in Paths, Full(p),
         log' = Append(log, [path |-> p, at |-> now]),
         NEW e \in cache, \A g \in cache : e.at <= g.at,
         NEW i \in 1 .. Len(log), log[i].path = e.path, e.at >= log[i].at
  PROVE  Cardinality(PathsSince(log', i, Len(log'))) >= MaxDedup
<1> DEFINE S == PathsSince(log', i, Len(log'))
           f == [g \in cache |-> IF g = e THEN p ELSE g.path]
<1>1. /\ cache \subseteq Entries /\ IsFiniteSet(cache) /\ now \in Nat
      /\ \A g, h \in cache : g.path = h.path => g = h
      /\ \A g \in cache : g.at \in Nat
      /\ \A k \in 1 .. Len(log) : log[k].at \in Nat
  BY CacheFacts
<1>2. Len(log') = Len(log) + 1 /\ Len(log) \in Nat
  BY LogGrows
<1>3. \A k \in 1 .. Len(log) : log'[k] = log[k]
  BY LogGrows
<1>4. log'[Len(log')] = [path |-> p, at |-> now]
  BY LogGrows
<1>5. \A g \in cache : g.path # p
  BY DEF Full
<1>6. p \in S
  <2>1. log[i].at <= now
    BY DEF Inv, CacheInv, Past
  <2>2. Len(log') \in {k \in 1 .. Len(log') : log'[k].at >= log'[i].at}
    BY <2>1, <1>2, <1>3, <1>4
  <2> QED
    BY <2>2, <1>3, <1>4, <1>5 DEF PathsSince
<1>7. ASSUME NEW g \in cache \ {e} PROVE g.path \in S
  <2>1. PICK k \in 1 .. Len(log) : log[k] = g
    BY DEF Inv, CacheInv, Logged
  <2>2. log'[k] = g /\ log'[i] = log[i] /\ k \in 1 .. Len(log')
    BY <2>1, <1>2, <1>3
  <2>3. g.at >= log[i].at
    BY <1>1
  <2>4. g.path # log[i].path
    BY <1>1
  <2> QED
    BY <2>2, <2>3, <2>4 DEF PathsSince
<1>8. f \in Injection(cache, S)
  <2>1. f \in [cache -> S]
    BY <1>6, <1>7
  <2>2. \A g, h \in cache : f[g] = f[h] => g = h
    BY <1>1, <1>5
  <2> QED
    BY <2>1, <2>2 DEF Injection, IsInjective
<1>9. IsFiniteSet(S)
  <2>1. log' \in Seq(Entries) /\ i \in 1 .. Len(log') /\ Len(log') \in 0 .. Len(log')
    BY <1>2, LogGrows
  <2> QED
    BY <2>1, PathsFinite
<1>10. Cardinality(cache) <= Cardinality(S) /\ Cardinality(cache) \in Nat /\ Cardinality(S) \in Nat
  BY <1>1, <1>8, <1>9, FS_Injection, FS_CardinalityType
<1> QED
  BY <1>10, AlertAssumption DEF Full

(* The cache keeps its types and its limit.                                 *)
LEMMA AlertCached ==
  ASSUME Inv, NEW p \in Paths, MarkSent(p)
  PROVE  /\ cache' \subseteq Entries
         /\ IsFiniteSet(cache')
         /\ Cardinality(cache') <= MaxDedup
         /\ \A e, f \in cache' : e.path = f.path => e = f
<1> DEFINE new == [path |-> p, at |-> now]
<1>1. PICK kept \in Evict(p) :
        cache' = {e \in {f \in kept : f.path # p} \cup {new} : Recent(e.at, Ttl)}
  BY DEF MarkSent
<1> DEFINE R == {f \in kept : f.path # p}
<1>2. /\ cache \subseteq Entries /\ IsFiniteSet(cache) /\ Cardinality(cache) \in Nat
      /\ Cardinality(cache) <= MaxDedup
      /\ \A e, f \in cache : e.path = f.path => e = f
      /\ new \in Entries
  BY CacheFacts DEF Inv, TypeOK, Entries
<1>3. kept \subseteq cache
  BY DEF Evict
<1>4. R \subseteq cache /\ IsFiniteSet(R) /\ Cardinality(R) \in Nat
  BY <1>2, <1>3, FS_Subset, FS_CardinalityType
<1>5. Cardinality(R) < MaxDedup
  <2>1. CASE Full(p)
    <3>1. PICK e \in cache : kept = cache \ {e}
      BY <2>1 DEF Evict
    <3>2. Cardinality(kept) = Cardinality(cache) - 1 /\ IsFiniteSet(kept)
      BY <1>2, <3>1, FS_RemoveElement
    <3>3. Cardinality(R) <= Cardinality(kept)
      BY <3>2, FS_Subset
    <3> QED
      BY <1>2, <1>4, <3>2, <3>3, AlertAssumption
  <2>2. CASE ~(Cardinality(cache) >= MaxDedup)
    <3>1. Cardinality(R) <= Cardinality(cache)
      BY <1>2, <1>4, FS_Subset
    <3> QED
      BY <1>2, <1>4, <2>2, <3>1, AlertAssumption
  <2>3. CASE \E e \in cache : e.path = p
    <3>1. PICK e \in cache : e.path = p
      BY <2>3
    <3>2. Cardinality(cache \ {e}) = Cardinality(cache) - 1 /\ IsFiniteSet(cache \ {e})
      BY <1>2, <3>1, FS_RemoveElement
    <3>3. R \subseteq cache \ {e}
      BY <1>4, <3>1
    <3>4. Cardinality(R) <= Cardinality(cache \ {e})
      BY <3>2, <3>3, FS_Subset
    <3> QED
      BY <1>2, <1>4, <3>2, <3>4, AlertAssumption
  <2> QED
    BY <2>1, <2>2, <2>3 DEF Full
<1>6. /\ IsFiniteSet(R \cup {new})
      /\ Cardinality(R \cup {new}) \in Nat
      /\ Cardinality(R \cup {new}) <= Cardinality(R) + 1
  <2>1. /\ IsFiniteSet(R \cup {new})
        /\ Cardinality(R \cup {new}) = IF new \in R THEN Cardinality(R) ELSE Cardinality(R) + 1
    BY <1>4, FS_AddElement
  <2> QED
    BY <1>4, <2>1
<1>7. cache' \subseteq R \cup {new}
  BY <1>1
<1>8. IsFiniteSet(cache') /\ Cardinality(cache') \in Nat /\ Cardinality(cache') <= Cardinality(R \cup {new})
  BY <1>6, <1>7, FS_Subset, FS_CardinalityType
<1>9. Cardinality(cache') <= MaxDedup
  BY <1>4, <1>5, <1>6, <1>8, AlertAssumption
<1>10. \A e, f \in cache' : e.path = f.path => e = f
  BY <1>2, <1>4, <1>7
<1> QED
  BY <1>2, <1>4, <1>7, <1>8, <1>9, <1>10

(* The cache still knows what it has to.                                    *)
LEMMA AlertRemembered ==
  ASSUME Inv, NEW p \in Paths, ~IsDuplicate(p), MarkSent(p), UNCHANGED now,
         log' = Append(log, [path |-> p, at |-> now])
  PROVE  Logged' /\ Past' /\ Remembered'
<1> DEFINE new == [path |-> p, at |-> now]
<1>1. PICK kept \in Evict(p) :
        cache' = {e \in {f \in kept : f.path # p} \cup {new} : Recent(e.at, Ttl)}
  BY DEF MarkSent
<1>2. Len(log') = Len(log) + 1 /\ Len(log) \in Nat
  BY LogGrows
<1>3. \A k \in 1 .. Len(log) : log'[k] = log[k]
  BY LogGrows
<1>4. log'[Len(log')] = new
  BY LogGrows
<1>5. kept \subseteq cache
  BY <1>1 DEF Evict
<1>6. Logged'
  <2> SUFFICES ASSUME NEW e \in cache' PROVE \E i \in 1 .. Len(log') : log'[i] = e
    BY DEF Logged
  <2>1. CASE e = new
    BY <2>1, <1>2, <1>4
  <2>2. CASE e \in cache
    <3>1. PICK i \in 1 .. Len(log) : log[i] = e
      BY <2>2 DEF Inv, CacheInv, Logged
    <3> QED
      BY <3>1, <1>2, <1>3
  <2> QED
    BY <2>1, <2>2, <1>1, <1>5
<1>7. Past'
  <2> SUFFICES ASSUME NEW i \in 1 .. Len(log') PROVE log'[i].at <= now
    BY DEF Past
  <2>1. CASE i \in 1 .. Len(log)
    BY <2>1, <1>3 DEF Inv, CacheInv, Past
  <2>2. CASE i = Len(log')
    BY <2>2, <1>4, CacheFacts
  <2> QED
    BY <2>1, <2>2, <1>2
<1>8. ASSUME NEW i \in 1 .. Len(log), Recent(log[i].at, Ttl)
      PROVE  \/ \E e \in cache' : e.path = log[i].path /\ e.at >= log[i].at
             \/ Cardinality(PathsSince(log', i, Len(log'))) >= MaxDedup
  <2>1. log[i].at <= now /\ log[i].at \in Nat /\ now \in Nat /\ Ttl \in Nat
    BY CacheFacts, AlertAssumption DEF Inv, CacheInv, Past
  <2>2. CASE Cardinality(PathsSince(log, i, Len(log))) >= MaxDedup
    <3>1. new \in Entries /\ log \in Seq(Entries)
      BY TypeParts DEF Inv, EngineTyped, CacheTyped, Entries
    <3>2. /\ Cardinality(PathsSince(log, i, Len(log))) \in Nat
          /\ Cardinality(PathsSince(log', i, Len(log) + 1)) \in Nat
          /\ Cardinality(PathsSince(log', i, Len(log) + 1)) >= Cardinality(PathsSince(log, i, Len(log)))
      BY <3>1, PathsGrow
    <3> HIDE DEF new
    <3> QED
      BY <2>2, <3>2, <1>2, AlertAssumption
  <2>3. ASSUME NEW e \in cache, e.path = log[i].path, e.at >= log[i].at
        PROVE  \/ \E g \in cache' : g.path = log[i].path /\ g.at >= log[i].at
               \/ Cardinality(PathsSince(log', i, Len(log'))) >= MaxDedup
    <3>1. e.at \in Nat /\ Recent(e.at, Ttl)
      BY <1>8, <2>1, <2>3, CacheFacts DEF Recent
    <3>2. e.path # p
      BY <3>1 DEF IsDuplicate
    <3>3. CASE e \in kept
      <4>1. e \in cache'
        BY <3>1, <3>2, <3>3, <1>1
      <4> QED
        BY <4>1, <2>3
    <3>4. CASE e \notin kept
      <4>1. Full(p) /\ kept # cache
        BY <3>4, <1>1 DEF Evict
      <4>2. PICK g \in cache : kept = cache \ {g} /\ \A h \in cache : g.at <= h.at
        BY <4>1, <1>1 DEF Evict
      <4>3. e = g
        BY <3>4, <4>2
      <4>4. Cardinality(PathsSince(log', i, Len(log'))) >= MaxDedup
        BY <4>1, <4>2, <4>3, <2>3, Crowded
      <4> QED
        BY <4>4
    <3> QED
      BY <3>3, <3>4
  <2>4. \/ \E e \in cache : e.path = log[i].path /\ e.at >= log[i].at
        \/ Cardinality(PathsSince(log, i, Len(log))) >= MaxDedup
    BY <1>8 DEF Inv, CacheInv, Remembered
  <2> QED
    BY <2>2, <2>3, <2>4
<1>9. Remembered'
  <2> SUFFICES ASSUME NEW i \in 1 .. Len(log'), Recent(log'[i].at, Ttl)
               PROVE  \/ \E e \in cache' : e.path = log'[i].path /\ e.at >= log'[i].at
                      \/ Cardinality(PathsSince(log', i, Len(log'))) >= MaxDedup
    BY DEF Remembered, Recent
  <2>1. CASE i \in 1 .. Len(log)
    BY <2>1, <1>3, <1>8
  <2>2. CASE i = Len(log')
    <3>1. new \in cache'
      BY <2>2, <1>1, <1>4
    <3> QED
      BY <3>1, <2>2, <1>4, CacheFacts
  <2> QED
    BY <2>1, <2>2, <1>2
<1> QED
  BY <1>6, <1>7, <1>9

(* The new broadcast repeats an earlier one only if it was crowded out.     *)
LEMMA AlertRepeats ==
  ASSUME Inv, NEW p \in Paths, ~IsDuplicate(p), UNCHANGED now,
         log' = Append(log, [path |-> p, at |-> now])
  PROVE  RepeatsOnlyWhenCrowdedOut'
<1> DEFINE new == [path |-> p, at |-> now]
<1> SUFFICES ASSUME NEW i \in 1 .. Len(log'), NEW j \in 1 .. Len(log'),
                    i < j, log'[i].path = log'[j].path, log'[j].at - log'[i].at < Ttl
             PROVE  Cardinality(PathsSince(log', i, j - 1)) >= MaxDedup
  BY DEF RepeatsOnlyWhenCrowdedOut
<1>1. Len(log') = Len(log) + 1 /\ Len(log) \in Nat
  BY LogGrows
<1>2. i \in 1 .. Len(log) /\ log'[i] = log[i]
  BY <1>1, LogGrows
<1>3. log'[Len(log')] = new
  BY LogGrows
<1>4. new \in Entries /\ log \in Seq(Entries)
  BY TypeParts DEF Inv, EngineTyped, CacheTyped, Entries
<1>5. \A n \in 0 .. Len(log) : PathsSince(log', i, n) = PathsSince(log, i, n)
  BY <1>2, <1>4, PathsGrow
<1>6. j - 1 \in 0 .. Len(log)
  BY <1>1
<1>7. CASE j \in 1 .. Len(log)
  <2>1. log'[j] = log[j]
    BY <1>7, LogGrows
  <2> QED
    BY <1>2, <1>5, <1>6, <1>7, <2>1 DEF Inv, CacheInv, RepeatsOnlyWhenCrowdedOut
<1>8. CASE j = Len(log')
  <2>1. j - 1 = Len(log)
    BY <1>8, <1>1
  <2>2. log[i].path = p /\ Recent(log[i].at, Ttl)
    BY <1>8, <1>2, <1>3 DEF Recent
  <2>3. ~\E e \in cache : e.path = log[i].path /\ e.at >= log[i].at
    <3> SUFFICES ASSUME NEW e \in cache, e.path = log[i].path, e.at >= log[i].at PROVE FALSE
      OBVIOUS
    <3>1. e.at \in Nat /\ log[i].at \in Nat /\ now \in Nat /\ Ttl \in Nat
      BY <1>2, CacheFacts, AlertAssumption
    <3>2. Recent(e.at, Ttl)
      BY <2>2, <3>1 DEF Recent
    <3> QED
      BY <2>2, <3>2 DEF IsDuplicate
  <2>4. Cardinality(PathsSince(log, i, Len(log))) >= MaxDedup
    BY <1>2, <2>2, <2>3 DEF Inv, CacheInv, Remembered
  <2> QED
    BY <2>1, <2>4, <1>1, <1>5
<1> QED
  BY <1>1, <1>7, <1>8
-----------------------------------------------------------------------------
(* The invariant is kept.                                                   *)

(* A step that leaves cache, log and clock alone keeps what is known.       *)
LEMMA CacheKept ==
  ASSUME Inv, UNCHANGED <<now, cache, log>>
  PROVE  CacheTyped' /\ CacheInv'
<1>1. CacheTyped'
  BY TypeParts DEF Inv, CacheTyped
<1>2. IsFiniteSet(cache)' /\ Logged' /\ Past'
  BY DEF Inv, CacheInv, Logged, Past
<1>3. Remembered'
  BY DEF Inv, CacheInv, Remembered, PathsSince, Recent
<1>4. RepeatsOnlyWhenCrowdedOut'
  BY DEF Inv, CacheInv, RepeatsOnlyWhenCrowdedOut, PathsSince
<1> QED
  BY <1>1, <1>2, <1>3, <1>4 DEF CacheInv

(* So does the clock: less is recent.                                       *)
LEMMA TickKept ==
  ASSUME Inv, Tick
  PROVE  CacheTyped' /\ CacheInv'
<1>1. UNCHANGED <<cache, log>> /\ now' = now + 1
  BY DEF Tick, engineVars
<1>2. CacheTyped'
  BY <1>1, TypeParts DEF Inv, CacheTyped
<1>3. IsFiniteSet(cache)' /\ Logged'
  BY <1>1 DEF Inv, CacheInv, Logged
<1>4. Past'
  BY <1>1, CacheFacts DEF Inv, CacheInv, Past
<1>5. Remembered'
  <2>1. \A i \in 1 .. Len(log) : Recent(log[i].at, Ttl)' => Recent(log[i].at, Ttl)
    <3> SUFFICES ASSUME NEW i \in 1 .. Len(log), Recent(log[i].at, Ttl)'
                 PROVE  Recent(log[i].at, Ttl)
      OBVIOUS
    <3>1. now \in Nat /\ log[i].at \in Nat /\ Ttl \in Nat
      BY CacheFacts, AlertAssumption
    <3>2. (now + 1) - log[i].at < Ttl
      BY <1>1 DEF Recent
    <3> QED
      BY <3>1, <3>2 DEF Recent
  <2> QED
    BY <1>1, <2>1 DEF Inv, CacheInv, Remembered, PathsSince
<1>6. RepeatsOnlyWhenCrowdedOut'
  BY <1>1 DEF Inv, CacheInv, RepeatsOnlyWhenCrowdedOut, PathsSince
<1> QED
  BY <1>2, <1>3, <1>4, <1>5, <1>6 DEF CacheInv

(* A broadcast, or its suppression.                                         *)
LEMMA BroadcastKept ==
  ASSUME Inv, NEW p \in Paths, NEW c \in Confidences, Broadcast(p, c), UNCHANGED now
  PROVE  CacheTyped' /\ CacheInv' /\ SendTyped'
<1>1. CASE IsDuplicate(p)
  <2>1. UNCHANGED <<cache, log, pc, sendVars>>
    BY <1>1 DEF Broadcast
  <2>2. SendTyped'
    BY <2>1, TypeParts DEF Inv, SendTyped, sendVars
  <2> QED
    BY <2>1, <2>2, CacheKept
<1>2. CASE ~IsDuplicate(p)
  <2>1. MarkSent(p) /\ log' = Append(log, [path |-> p, at |-> now])
    BY <1>2 DEF Broadcast
  <2>2. log' \in Seq(Entries)
    BY <2>1, LogGrows
  <2>3. CacheTyped'
    BY <2>1, <2>2, AlertCached DEF CacheTyped
  <2>4. CacheInv'
    BY <1>2, <2>1, AlertCached, AlertRemembered, AlertRepeats DEF CacheInv
  <2>5. job' \in [path : Paths, severity : 1 .. 4]
    <3>1. Severity(c) \in 1 .. 4
      BY DEF Severity
    <3> QED
      BY <1>2, <3>1 DEF Broadcast
  <2>6. SendTyped'
    BY <1>2, <2>5, TypeParts DEF Broadcast, Inv, SendTyped, Stages
  <2> QED
    BY <2>3, <2>4, <2>6
<1> QED
  BY <1>1, <1>2

(* Counting and logging at a place that may not be there.                   *)
LEMMA Counted ==
  ASSUME NEW D, NEW s, NEW f \in [D -> Nat]
  PROVE  [f EXCEPT ![s] = @ + 1] \in [D -> Nat]
<1> DEFINE g == [f EXCEPT ![s] = @ + 1]
<1>1. g = [x \in D |-> IF x = s THEN f[s] + 1 ELSE f[x]]
  OBVIOUS
<1>2. \A x \in D : (IF x = s THEN f[s] + 1 ELSE f[x]) \in Nat
  OBVIOUS
<1> QED
  BY <1>1, <1>2

(* The sending steps move the senders only.                                 *)
LEMMA SendKept ==
  ASSUME Inv, Send
  PROVE  SendTyped' /\ UNCHANGED <<now, engineVars>>
<1>1. SendTyped
  BY TypeParts DEF Inv
<1>2. ASSUME Advance
      PROVE  /\ attempts' \in Nat /\ sender' \in Nat /\ pc' \in Stages
             /\ job' \in [path : Paths, severity : 1 .. 4] \cup {NoJob}
  BY <1>1, <1>2 DEF Advance, SendTyped, Stages
<1>3. CASE FilterOut
  BY <1>1, <1>2, <1>3 DEF FilterOut, SendTyped
<1>4. CASE Refuse
  <2>1. count' \in [DOMAIN Senders -> Nat]
    BY <1>1, <1>4, Counted DEF Refuse, SendTyped
  <2> QED
    BY <1>1, <1>2, <1>4, <2>1 DEF Refuse, SendTyped
<1>5. CASE Accept
  <2>1. count' \in [DOMAIN Senders -> Nat]
    BY <1>1, <1>5, Counted DEF Accept, SendTyped
  <2> QED
    BY <1>1, <1>5, <2>1 DEF Accept, SendTyped, Stages
<1>6. CASE AttemptSucceeds
  BY <1>1, <1>2, <1>6 DEF AttemptSucceeds, SendTyped
<1>7. CASE AttemptFails
  <2>1. CASE attempts + 1 >= Senders[sender].retries
    BY <1>1, <1>2, <1>7, <2>1 DEF AttemptFails, SendTyped
  <2>2. CASE ~(attempts + 1 >= Senders[sender].retries)
    BY <1>1, <1>7, <2>2 DEF AttemptFails, SendTyped, Stages
  <2> QED
    BY <2>1, <2>2
<1>8. CASE Retry
  BY <1>1, <1>8 DEF Retry, SendTyped, sendVars, Stages
<1> QED
  BY <1>3, <1>4, <1>5, <1>6, <1>7, <1>8 DEF Send

(* The engine: a path recorded high has had its alert.                      *)
LEMMA EngineKept ==
  ASSUME Inv, Next, ~Send
  PROVE  EngineTyped' /\ HighMeansAlerted'
<1>1. EngineTyped /\ HighMeansAlerted
  BY TypeParts DEF Inv
<1>2. AlertThreshold <= High /\ AlertThreshold \in Nat /\ MaxTime \in Nat /\ MaxEvents \in Nat
      /\ \A c \in Confidences : c \in Nat
  BY AlertAssumption DEF High
<1>3. Handle => events' \in 0 .. MaxEvents
  BY <1>1, <1>2 DEF Handle, EngineTyped
<1>4. ASSUME NEW p \in Paths, NEW c \in Confidences, PathDetected(p, c)
      PROVE  EngineTyped' /\ HighMeansAlerted'
  <2>1. confidence' = [confidence EXCEPT ![p] = c] /\ UNCHANGED <<now, lastAlert>>
    BY <1>4 DEF PathDetected
  <2>2. /\ alerted' \subseteq Paths
        /\ c >= High => p \in alerted'
        /\ \A q \in Paths \ {p} : q \in alerted => q \in alerted'
    <3>1. c >= High => c >= AlertThreshold
      BY <1>2 DEF High
    <3>2. alerted' = StillAlerted(p, c) \cup {p} \/ alerted' = StillAlerted(p, c)
      BY <1>4 DEF PathDetected
    <3>3. c >= High => p \in alerted'
      BY <1>4, <3>1 DEF PathDetected
    <3>4. StillAlerted(p, c) \subseteq Paths /\ \A q \in alerted : q # p => q \in StillAlerted(p, c)
      BY <1>1 DEF StillAlerted, EngineTyped
    <3> QED
      BY <3>2, <3>3, <3>4
  <2>3. EngineTyped'
    BY <1>1, <1>3, <1>4, <2>1, <2>2 DEF EngineTyped, PathDetected
  <2>4. HighMeansAlerted'
    BY <1>1, <2>1, <2>2 DEF HighMeansAlerted, EngineTyped
  <2> QED
    BY <2>3, <2>4
<1>5. ASSUME NEW p \in Paths, NEW c \in Confidences, ConfidenceChanged(p, c)
      PROVE  EngineTyped' /\ HighMeansAlerted'
  <2>1. CASE Crosses(p, c) /\ Cooling(p)
    BY <1>1, <1>3, <1>5, <2>1 DEF ConfidenceChanged, ShouldAlert, EngineTyped, HighMeansAlerted
  <2>2. CASE Crosses(p, c) /\ ~Cooling(p)
    <3>1. /\ confidence' = [confidence EXCEPT ![p] = c]
          /\ lastAlert' = [lastAlert EXCEPT ![p] = {now}]
          /\ alerted' = alerted \cup {p}
      BY <1>5, <2>2 DEF ConfidenceChanged, ShouldAlert
    <3>2. EngineTyped'
      BY <1>1, <1>3, <1>5, <3>1 DEF EngineTyped, ConfidenceChanged, ShouldAlert
    <3>3. HighMeansAlerted'
      BY <1>1, <3>1 DEF HighMeansAlerted, EngineTyped
    <3> QED
      BY <3>2, <3>3
  <2>3. CASE ~Crosses(p, c)
    <3>1. /\ confidence' = [confidence EXCEPT ![p] = c]
          /\ UNCHANGED lastAlert
          /\ alerted' = StillAlerted(p, c)
      BY <1>5, <2>3 DEF ConfidenceChanged, ShouldAlert
    <3>2. EngineTyped'
      BY <1>1, <1>3, <1>5, <3>1 DEF EngineTyped, ConfidenceChanged, ShouldAlert, StillAlerted
    <3>3. c >= High => confidence[p] >= High
      BY <1>1, <1>2, <2>3 DEF Crosses, EngineTyped, High
    <3>4. HighMeansAlerted'
      BY <1>1, <1>2, <3>1, <3>3 DEF HighMeansAlerted, EngineTyped, StillAlerted, High
    <3> QED
      BY <3>2, <3>4
  <2> QED
    BY <2>1, <2>2, <2>3
<1>6. CASE OtherEvent
  BY <1>1, <1>3, <1>6 DEF OtherEvent, EngineTyped, HighMeansAlerted
<1>7. CASE Shutdown
  BY <1>1, <1>7 DEF Shutdown, engineVars, EngineTyped, HighMeansAlerted
<1>8. CASE Tick
  BY <1>1, <1>2, <1>8 DEF Tick, engineVars, EngineTyped, HighMeansAlerted
<1> QED
  BY <1>4, <1>5, <1>6, <1>7, <1>8 DEF Next

LEMMA NextInv == Inv /\ [Next]_vars => Inv'
<1> SUFFICES ASSUME Inv, [Next]_vars PROVE Inv'
  OBVIOUS
<1>1. EngineTyped /\ CacheTyped /\ SendTyped /\ HighMeansAlerted
  BY TypeParts DEF Inv
<1>2. CASE UNCHANGED vars
  <2>1. UNCHANGED <<now, cache, log, events, confidence, lastAlert, alerted, pc, sendVars>>
    BY <1>2 DEF vars, engineVars
  <2>2. CacheTyped' /\ CacheInv'
    BY <2>1, CacheKept
  <2>3. EngineTyped' /\ HighMeansAlerted' /\ SendTyped'
    BY <1>1, <2>1 DEF EngineTyped, HighMeansAlerted, SendTyped, sendVars
  <2> QED
    BY <2>2, <2>3, TypeParts DEF Inv, TypeOK, EngineTyped, CacheTyped, SendTyped
<1>3. CASE Send
  <2>1. SendTyped' /\ UNCHANGED <<now, cache, log, events, confidence, lastAlert, alerted>>
    BY <1>3, SendKept DEF engineVars
  <2>2. CacheTyped' /\ CacheInv'
    BY <2>1, CacheKept
  <2>3. EngineTyped' /\ HighMeansAlerted'
    BY <1>1, <2>1 DEF EngineTyped, HighMeansAlerted
  <2> QED
    BY <2>1, <2>2, <2>3, TypeParts DEF Inv, TypeOK, EngineTyped, CacheTyped, SendTyped
<1>4. CASE Next /\ ~Send
  <2>1. EngineTyped' /\ HighMeansAlerted'
    BY <1>4, EngineKept
  <2>2. CacheTyped' /\ CacheInv' /\ SendTyped'
    <3>1. ASSUME NEW p \in Paths, NEW c \in Confidences, PathDetected(p, c)
          PROVE  CacheTyped' /\ CacheInv' /\ SendTyped'
      <4>1. CASE c >= AlertThreshold
        <5>1. Broadcast(p, c) /\ UNCHANGED now
          BY <3>1, <4>1 DEF PathDetected
        <5> QED
          BY <5>1, BroadcastKept
      <4>2. CASE ~(c >= AlertThreshold)
        <5>1. UNCHANGED <<now, cache, log, pc, sendVars>>
          BY <3>1, <4>2 DEF PathDetected
        <5> QED
          BY <1>1, <5>1, CacheKept DEF SendTyped, sendVars
      <4> QED
        BY <4>1, <4>2
    <3>2. ASSUME UNCHANGED <<now, cache, log, pc, sendVars>>
          PROVE  CacheTyped' /\ CacheInv' /\ SendTyped'
      BY <1>1, <3>2, CacheKept DEF SendTyped, sendVars
    <3>3. ASSUME NEW p \in Paths, NEW c \in Confidences, ConfidenceChanged(p, c)
          PROVE  CacheTyped' /\ CacheInv' /\ SendTyped'
      BY <3>2, <3>3 DEF ConfidenceChanged, ShouldAlert
    <3>4. CASE OtherEvent
      BY <3>2, <3>4 DEF OtherEvent
    <3>5. CASE Shutdown
      <4>1. UNCHANGED <<now, cache, log, sendVars>> /\ pc' = "stopped"
        BY <3>5 DEF Shutdown, engineVars
      <4> QED
        BY <1>1, <4>1, CacheKept DEF SendTyped, sendVars, Stages
    <3>6. CASE Tick
      <4>1. UNCHANGED <<pc, sendVars>>
        BY <3>6 DEF Tick
      <4>2. SendTyped'
        BY <1>1, <4>1 DEF SendTyped, sendVars
      <4> QED
        BY <3>6, <4>2, TickKept
    <3> QED
      BY <1>4, <3>1, <3>3, <3>4, <3>5, <3>6 DEF Next
  <2> QED
    BY <2>1, <2>2, TypeParts DEF Inv, TypeOK, EngineTyped, CacheTyped, SendTyped
<1> QED
  BY <1>2, <1>3, <1>4

LEMMA AlwaysInv == Spec => []Inv
  BY InitInv, NextInv, PTL DEF Spec
-----------------------------------------------------------------------------
(* The state is well formed, and the cache never exceeds its limit.         *)
THEOREM AlertsTyped == Spec => []TypeOK
<1>1. Inv => TypeOK
  BY DEF Inv
<1> QED
  BY <1>1, AlwaysInv, PTL

(* Whatever the cooldown swallows, a path whose recorded confidence is high *)
(* has had its alert.                                                       *)
THEOREM HighPathsAlerted == Spec => []HighMeansAlerted
<1>1. Inv => HighMeansAlerted
  BY DEF Inv
<1> QED
  BY <1>1, AlwaysInv, PTL

(* A path is broadcast twice within the ttl only when MaxDedup others were  *)
(* broadcast in between.                                                    *)
THEOREM RepeatsAreCrowdedOut == Spec => []RepeatsOnlyWhenCrowdedOut
<1>1. Inv => RepeatsOnlyWhenCrowdedOut
  BY DEF Inv, CacheInv
<1> QED
  BY <1>1, AlwaysInv, PTL

(* What is suppressed was broadcast within the ttl.                         *)
THEOREM SuppressionIsHonest == Spec => SuppressedOnlyIfSent
<1>1. ASSUME Inv, NEW p \in Paths, NEW c \in Confidences,
             PathDetected(p, c), c >= AlertThreshold, log' = log
      PROVE  \E i \in 1 .. Len(log) : log[i].path = p /\ Recent(log[i].at, Ttl)
  <2>1. IsDuplicate(p)
    <3>1. CASE log' = Append(log, [path |-> p, at |-> now])
      BY <1>1, <3>1, LogGrows
    <3> QED
      BY <1>1, <3>1 DEF PathDetected, Broadcast
  <2>2. PICK e \in cache : e.path = p /\ Recent(e.at, Ttl)
    BY <2>1 DEF IsDuplicate
  <2>3. PICK i \in 1 .. Len(log) : log[i] = e
    BY <1>1 DEF Inv, CacheInv, Logged
  <2> QED
    BY <2>2, <2>3
<1>2. Inv /\ [Next]_vars =>
        [\A p \in Paths, c \in Confidences :
           PathDetected(p, c) /\ c >= AlertThreshold /\ log' = log =>
             \E i \in 1 .. Len(log) : log[i].path = p /\ Recent(log[i].at, Ttl)]_vars
  BY <1>1
<1> QED
  BY <1>2, AlwaysInv, PTL DEF Spec, SuppressedOnlyIfSent
=============================================================================
