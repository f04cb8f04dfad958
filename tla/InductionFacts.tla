---------------------------- MODULE InductionFacts ----------------------------
(***************************************************************************)
(* What the proofs need to know of folds. The models write a loop over a   *)
(* sequence as a recursive function over its positions; these lemmas say   *)
(* that such a function exists, what it returns at each position, and what *)
(* it preserves. They are stated with sets in the place of predicates:     *)
(* induction on 0 .. n is the statement that a subset that holds 0 and is  *)
(* closed under the successor is all of it. The last lemmas are about      *)
(* FlattenSeq, which is such a fold.                                       *)
(***************************************************************************)
EXTENDS Integers, Sequences, FiniteSets, SequencesExt, FiniteSetTheorems, SequenceTheorems, TLAPS

(* The first n positions, counted.                                           *)
LEMMA CountOfFirst ==
  ASSUME NEW n \in Nat
  PROVE  IsFiniteSet(1 .. n) /\ Cardinality(1 .. n) = n
<1>1. 1 \in Int /\ n \in Int
  OBVIOUS
<1>2. IsFiniteSet(1 .. n) /\ Cardinality(1 .. n) = IF 1 > n THEN 0 ELSE n - 1 + 1
  BY <1>1, FS_Interval
<1> QED BY <1>2

(* Two sets with nothing in common add up.                                   *)
LEMMA DisjointCount ==
  ASSUME NEW A, NEW B, IsFiniteSet(A), IsFiniteSet(B), A \cap B = {}
  PROVE  IsFiniteSet(A \cup B) /\ Cardinality(A \cup B) = Cardinality(A) + Cardinality(B)
<1>1. /\ IsFiniteSet(A \cup B)
      /\ Cardinality(A \cup B) = Cardinality(A) + Cardinality(B) - Cardinality(A \cap B)
  BY FS_Union
<1>2. Cardinality(A \cap B) = 0 /\ Cardinality(A) \in Nat /\ Cardinality(B) \in Nat
  BY FS_EmptySet, FS_CardinalityType
<1> QED BY <1>1, <1>2

(* A finite set is counted 0 when it has no member, and only then.           *)
LEMMA CountPositive ==
  ASSUME NEW A, IsFiniteSet(A)
  PROVE  Cardinality(A) \in Nat /\ (Cardinality(A) > 0 <=> \E x : x \in A)
<1>1. Cardinality(A) \in Nat /\ (Cardinality(A) = 0 <=> A = {})
  BY FS_CardinalityType, FS_EmptySet
<1> QED BY <1>1

(* Of finitely many sets of elements beyond an element, one has no smaller   *)
(* one among them.                                                           *)
StrictlyWithin(a, b) == a \subseteq b /\ a # b

LEMMA SmallestOf ==
  ASSUME NEW T, IsFiniteSet(T), T # {}, NEW beyond \in [T -> SUBSET T]
  PROVE  \E x \in T : \A y \in T : ~StrictlyWithin(beyond[y], beyond[x])
<1> DEFINE R == StrictSubsetOrdering(T)
           F == {beyond[x] : x \in T}
<1>1. IsWellFoundedOn(R, FiniteSubsetsOf(T))
  BY FS_StrictSubsetOrderingWellFounded
<1>2. F \subseteq FiniteSubsetsOf(T)
  <2>1. ASSUME NEW x \in T PROVE beyond[x] \subseteq T /\ IsFiniteSet(beyond[x])
    BY FS_Subset
  <2> QED BY <2>1 DEF FiniteSubsetsOf
<1>3. F # {}
  OBVIOUS
<1>4. \A d, b \in F : StrictlyWithin(d, b) => <<d, b>> \in R
  BY DEF StrictSubsetOrdering, StrictlyWithin
<1>5. ASSUME NEW x \in T PROVE beyond[x] \in F
  OBVIOUS
<1>6. ASSUME NEW b \in F PROVE \E x \in T : b = beyond[x]
  OBVIOUS
<1> HIDE DEF R, F
<1>7. PICK b \in F : \A d \in F : ~(<<d, b>> \in R)
  BY <1>1, <1>2, <1>3, WFMin, Zenon
<1>8. PICK x \in T : b = beyond[x]
  BY <1>6
<1> QED BY <1>4, <1>5, <1>7, <1>8

(* A finite set of integers has a least and a greatest element.              *)
LEMMA LeastOf ==
  ASSUME NEW T, IsFiniteSet(T), T \subseteq Int, T # {}
  PROVE  \E m \in T : \A y \in T : m <= y
<1> DEFINE beyond == [x \in T |-> {z \in T : z <= x}]
<1>1. beyond \in [T -> SUBSET T]
  OBVIOUS
<1>2. \A x, z \in T : z \in beyond[x] <=> z <= x
  OBVIOUS
<1> HIDE DEF beyond
<1>3. PICK x \in T : \A y \in T : ~StrictlyWithin(beyond[y], beyond[x])
  BY <1>1, SmallestOf
<1>4. ASSUME NEW y \in T, y < x PROVE FALSE
  <2>1. x \in Int /\ y \in Int
    OBVIOUS
  <2>2. x \in beyond[x] /\ x \notin beyond[y]
    BY <1>2, <1>4, <2>1
  <2>3. ASSUME NEW z \in beyond[y] PROVE z \in beyond[x]
    <3>1. z \in T /\ z \in Int /\ z <= y
      BY <1>1, <1>2
    <3> QED BY <1>2, <1>4, <2>1, <3>1
  <2> QED BY <1>3, <2>2, <2>3 DEF StrictlyWithin
<1>5. \A y \in T : x <= y
  BY <1>4
<1> QED BY <1>5

LEMMA GreatestOf ==
  ASSUME NEW T, IsFiniteSet(T), T \subseteq Int, T # {}
  PROVE  \E m \in T : \A y \in T : m >= y
<1> DEFINE N == {-z : z \in T}
           neg == [z \in T |-> -z]
<1>1. IsFiniteSet(N)
  <2>1. neg \in Surjection(T, N)
    BY DEF Surjection
  <2> QED BY <2>1, FS_Surjection
<1>2. \A z \in N : z \in Int /\ -z \in T
  <2> SUFFICES ASSUME NEW z \in N PROVE z \in Int /\ -z \in T
    OBVIOUS
  <2>1. PICK w \in T : z = -w
    OBVIOUS
  <2>2. w \in Int /\ -z = w
    BY <2>1
  <2> QED BY <2>1, <2>2
<1>3. N \subseteq Int /\ N # {}
  BY <1>2
<1>4. \A y \in T : -y \in N
  OBVIOUS
<1> HIDE DEF N, neg
<1>5. PICK m \in N : \A y \in N : m <= y
  BY <1>1, <1>3, LeastOf
<1>6. -m \in T /\ m \in Int
  BY <1>2
<1>7. ASSUME NEW y \in T PROVE -m >= y
  <2>1. m <= -y /\ y \in Int
    BY <1>4, <1>5
  <2> QED BY <1>6, <2>1
<1> QED BY <1>6, <1>7

(* Induction on 0 .. n.                                                      *)
LEMMA UpTo ==
  ASSUME NEW n \in Nat, NEW P, 0 \in P,
         \A i \in 0 .. n - 1 : i \in P => i + 1 \in P
  PROVE  0 .. n \subseteq P
<1> SUFFICES ASSUME ~(0 .. n \subseteq P) PROVE FALSE
  OBVIOUS
<1> DEFINE T == (0 .. n) \ P
<1>1. IsFiniteSet(T)
  <2>1. IsFiniteSet(0 .. n)
    BY FS_Interval
  <2> QED BY <2>1, FS_Subset
<1>2. T # {} /\ T \subseteq Int
  OBVIOUS
<1>3. PICK m \in T : \A y \in T : m <= y
  <2> HIDE DEF T
  <2> QED BY <1>1, <1>2, LeastOf
<1>4. m \in 1 .. n /\ m \notin P
  OBVIOUS
<1>5. m - 1 \in 0 .. n - 1 /\ m - 1 \notin T
  BY <1>3, <1>4
<1>6. m - 1 \in P
  BY <1>4, <1>5
<1>7. (m - 1) + 1 \in P
  BY <1>5, <1>6
<1> QED BY <1>4, <1>7

(* A function that each position of 1 .. n computes from the one before it   *)
(* exists.                                                                   *)
Follows(h, n, base, step) ==
  /\ h[0] = base
  /\ \A i \in 1 .. n : h[i] = step[<<i, h[i - 1]>>]

LEMMA StepwiseExists ==
  ASSUME NEW n \in Nat, NEW V, NEW base \in V, NEW step \in [(1 .. n) \X V -> V]
  PROVE  \E h \in [0 .. n -> V] : Follows(h, n, base, step)
<1> DEFINE P == {k \in 0 .. n : \E h \in [0 .. k -> V] : Follows(h, k, base, step)}
<1>1. 0 \in P
  <2> DEFINE h == [i \in 0 .. 0 |-> base]
  <2>1. h \in [0 .. 0 -> V] /\ Follows(h, 0, base, step)
    BY DEF Follows
  <2> QED BY <2>1
<1>2. ASSUME NEW k \in 0 .. n - 1, k \in P PROVE k + 1 \in P
  <2>1. PICK h \in [0 .. k -> V] : Follows(h, k, base, step)
    BY <1>2
  <2> DEFINE g == [i \in 0 .. k + 1 |-> IF i = k + 1 THEN step[<<k + 1, h[k]>>] ELSE h[i]]
  <2>2. k \in Nat /\ k + 1 \in 1 .. n /\ k \in 0 .. k
    OBVIOUS
  <2>3. h[k] \in V
    BY <2>1, <2>2
  <2>4. step[<<k + 1, h[k]>>] \in V
    BY <2>2, <2>3
  <2>5. g \in [0 .. k + 1 -> V]
    <3>1. \A i \in 0 .. k + 1 : i # k + 1 => i \in 0 .. k
      BY <2>2
    <3> QED BY <2>1, <2>4, <3>1
  <2>6. g[0] = base
    <3>1. 0 \in 0 .. k + 1 /\ 0 # k + 1
      BY <2>2
    <3>2. h[0] = base
      BY <2>1 DEF Follows
    <3> QED BY <3>1, <3>2
  <2>7. ASSUME NEW i \in 1 .. k + 1 PROVE g[i] = step[<<i, g[i - 1]>>]
    <3>1. i \in 0 .. k + 1 /\ i - 1 \in 0 .. k + 1 /\ i - 1 # k + 1
      BY <2>2
    <3>2. g[i - 1] = h[i - 1]
      BY <3>1
    <3>3. CASE i = k + 1
      <4>1. i - 1 = k /\ g[i] = step[<<k + 1, h[k]>>]
        BY <2>2, <3>1, <3>3
      <4> QED BY <3>2, <3>3, <4>1
    <3>4. CASE i # k + 1
      <4>1. i \in 1 .. k /\ g[i] = h[i]
        BY <2>2, <3>1, <3>4
      <4> QED BY <2>1, <3>2, <4>1 DEF Follows
    <3> QED BY <3>3, <3>4
  <2>8. Follows(g, k + 1, base, step)
    BY <2>6, <2>7 DEF Follows
  <2>9. k + 1 \in 0 .. n
    BY <2>2
  <2> HIDE DEF g
  <2> QED BY <2>5, <2>8, <2>9
<1> HIDE DEF P
<1>3. n \in P
  BY <1>1, <1>2, UpTo
<1> QED BY <1>3 DEF P

(* A function that does so has values of the type that each step keeps.      *)
FollowsWithin(f, n, V, base, step) ==
  /\ f[0] = base
  /\ \A i \in 1 .. n : f[i - 1] \in V => f[i] = step[<<i, f[i - 1]>>]

LEMMA StepwiseTyped ==
  ASSUME NEW n \in Nat, NEW V, NEW base \in V, NEW step \in [(1 .. n) \X V -> V],
         NEW f, FollowsWithin(f, n, V, base, step)
  PROVE  \A k \in 0 .. n : f[k] \in V
<1> DEFINE P == {k \in 0 .. n : f[k] \in V}
<1>1. 0 \in P
  BY DEF FollowsWithin
<1>2. ASSUME NEW k \in 0 .. n - 1, k \in P PROVE k + 1 \in P
  <2>1. k + 1 \in 1 .. n /\ k + 1 \in 0 .. n /\ (k + 1) - 1 = k
    OBVIOUS
  <2>2. f[k] \in V
    BY <1>2
  <2>3. f[k + 1] = step[<<k + 1, f[k]>>]
    BY <2>1, <2>2 DEF FollowsWithin
  <2> QED BY <2>1, <2>2, <2>3
<1> HIDE DEF P
<1>3. 0 .. n \subseteq P
  BY <1>1, <1>2, UpTo
<1> QED BY <1>3 DEF P

(* Only one function does so.                                                *)
LEMMA StepwiseUnique ==
  ASSUME NEW n \in Nat, NEW V, NEW base \in V, NEW step \in [(1 .. n) \X V -> V],
         NEW f, FollowsWithin(f, n, V, base, step),
         NEW g, FollowsWithin(g, n, V, base, step)
  PROVE  \A k \in 0 .. n : f[k] = g[k]
<1> DEFINE P == {k \in 0 .. n : f[k] = g[k]}
<1>1. \A k \in 0 .. n : f[k] \in V /\ g[k] \in V
  BY StepwiseTyped
<1>2. 0 \in P
  BY DEF FollowsWithin
<1>3. ASSUME NEW k \in 0 .. n - 1, k \in P PROVE k + 1 \in P
  <2>1. k \in 0 .. n /\ k + 1 \in 1 .. n /\ k + 1 \in 0 .. n /\ (k + 1) - 1 = k
    OBVIOUS
  <2>2. f[k] = g[k]
    BY <1>3
  <2>3. f[k + 1] = step[<<k + 1, f[k]>>] /\ g[k + 1] = step[<<k + 1, g[k]>>]
    BY <1>1, <2>1 DEF FollowsWithin
  <2> QED BY <2>1, <2>2, <2>3
<1> HIDE DEF P
<1>4. 0 .. n \subseteq P
  BY <1>2, <1>3, UpTo
<1> QED BY <1>4 DEF P

-----------------------------------------------------------------------------
(* SumFunctionOnSet adds f[x] for each x of a finite set, in an order of its *)
(* choice: the lemmas say that the order does not matter.                    *)
Pick(s) == CHOOSE x \in s : TRUE

Sums(h, f, S) ==
  h = [s \in SUBSET S |-> IF s = {} THEN 0 ELSE f[Pick(s)] + h[s \ {Pick(s)}]]

LEMMA PickOne ==
  ASSUME NEW S, S # {}
  PROVE  Pick(S) \in S
  BY DEF Pick

LEMMA OneLess ==
  ASSUME NEW S, IsFiniteSet(S), NEW k \in Nat, Cardinality(S) = k + 1
  PROVE  S # {} /\ \A x \in S : Cardinality(S \ {x}) = k
<1>1. S # {}
  BY FS_EmptySet
<1>2. ASSUME NEW x \in S PROVE Cardinality(S \ {x}) = k
  <2>1. Cardinality(S \ {x}) = Cardinality(S) - 1
    BY FS_RemoveElement
  <2> QED BY <2>1
<1> QED BY <1>1, <1>2

LEMMA SumsExist ==
  ASSUME NEW S, IsFiniteSet(S), NEW f, \A x \in S : f[x] \in Int
  PROVE  \E h \in [SUBSET S -> Int] : Sums(h, f, S)
<1> DEFINE n == Cardinality(S)
           V == [SUBSET S -> Int]
           base == [s \in SUBSET S |-> 0]
           Next(g) == [s \in SUBSET S |-> IF s = {} THEN 0
                                          ELSE f[Pick(s)] + g[s \ {Pick(s)}]]
           step == [x \in (1 .. n) \X V |-> Next(x[2])]
<1>1. n \in Nat
  BY FS_CardinalityType
<1>2. base \in V
  OBVIOUS
<1>3. ASSUME NEW g \in V PROVE Next(g) \in V
  <2>1. ASSUME NEW s \in SUBSET S, s # {} PROVE f[Pick(s)] + g[s \ {Pick(s)}] \in Int
    <3>1. f[Pick(s)] \in Int
      BY <2>1, PickOne
    <3>2. g[s \ {Pick(s)}] \in Int
      OBVIOUS
    <3> QED BY <3>1, <3>2
  <2> QED BY <2>1
<1>4. step \in [(1 .. n) \X V -> V]
  <2> HIDE DEF Next, V
  <2> QED BY <1>3
<1>5. \A i \in 1 .. n, g \in V : step[<<i, g>>] = Next(g)
  <2> HIDE DEF Next, V
  <2> QED OBVIOUS
<1>6. PICK H \in [0 .. n -> V] : Follows(H, n, base, step)
  <2> HIDE DEF V, step, base
  <2> QED BY <1>1, <1>2, <1>4, StepwiseExists
<1> DEFINE h == [s \in SUBSET S |-> H[Cardinality(s)][s]]
<1>7. ASSUME NEW s \in SUBSET S
      PROVE  IsFiniteSet(s) /\ Cardinality(s) \in 0 .. n
  BY FS_Subset, FS_CardinalityType
<1>8. h \in [SUBSET S -> Int]
  <2>1. ASSUME NEW s \in SUBSET S PROVE H[Cardinality(s)][s] \in Int
    <3>1. H[Cardinality(s)] \in [SUBSET S -> Int]
      BY <1>6, <1>7
    <3> QED BY <3>1
  <2> QED BY <2>1
<1>9. ASSUME NEW s \in SUBSET S
      PROVE  h[s] = IF s = {} THEN 0 ELSE f[Pick(s)] + h[s \ {Pick(s)}]
  <2>1. CASE s = {}
    <3>1. Cardinality(s) = 0
      BY <2>1, FS_EmptySet
    <3>2. H[0] = base
      BY <1>6 DEF Follows
    <3> QED BY <2>1, <3>1, <3>2
  <2>2. CASE s # {}
    <3> DEFINE k == Cardinality(s)
               t == s \ {Pick(s)}
    <3>1. Pick(s) \in s
      BY <2>2, PickOne
    <3>2. t \in SUBSET S /\ Cardinality(t) = k - 1 /\ Cardinality(t) \in 0 .. n /\ k \in 0 .. n
      BY <1>7, <3>1, FS_RemoveElement
    <3>3. k \in 1 .. n
      BY <1>1, <3>2
    <3>4. H[k - 1] \in V
      <4>1. k - 1 \in 0 .. n
        BY <1>1, <3>3
      <4> HIDE DEF V, k
      <4> QED BY <1>6, <4>1
    <3>5. H[k] = step[<<k, H[k - 1]>>]
      BY <1>6, <3>3 DEF Follows
    <3>6. H[k] = Next(H[k - 1])
      <4> HIDE DEF V, step, Next, k
      <4> QED BY <1>5, <3>3, <3>4, <3>5
    <3>7. H[k][s] = f[Pick(s)] + H[k - 1][t]
      BY <2>2, <3>6
    <3>8. h[s] = H[k][s] /\ h[t] = H[k - 1][t]
      BY <3>2
    <3> HIDE DEF h, k
    <3> QED BY <2>2, <3>7, <3>8
  <2> QED BY <2>1, <2>2
<1> HIDE DEF h
<1>10. Sums(h, f, S)
  BY <1>8, <1>9 DEF Sums
<1> QED BY <1>8, <1>10

(* What is added depends on the set and on the values in it alone.           *)
LEMMA SumsAgree ==
  ASSUME NEW S, NEW T, NEW U, U \subseteq S, U \subseteq T, IsFiniteSet(U),
         NEW f, NEW e, \A x \in U : f[x] = e[x],
         NEW g, NEW h, Sums(g, f, S), Sums(h, e, T)
  PROVE  g[U] = h[U]
<1> DEFINE n == Cardinality(U)
           P == {k \in 0 .. n : \A W \in SUBSET U : Cardinality(W) = k => g[W] = h[W]}
<1>1. n \in Nat
  BY FS_CardinalityType
<1>2. \A W \in SUBSET U : IsFiniteSet(W) /\ Cardinality(W) \in Nat
  BY FS_Subset, FS_CardinalityType
<1>3. ASSUME NEW W \in SUBSET U
      PROVE  /\ g[W] = IF W = {} THEN 0 ELSE f[Pick(W)] + g[W \ {Pick(W)}]
             /\ h[W] = IF W = {} THEN 0 ELSE e[Pick(W)] + h[W \ {Pick(W)}]
  <2>1. W \in SUBSET S /\ W \in SUBSET T
    OBVIOUS
  <2> QED BY <2>1 DEF Sums
<1>4. 0 \in P
  <2>1. ASSUME NEW W \in SUBSET U, Cardinality(W) = 0 PROVE g[W] = h[W]
    <3>1. W = {}
      BY <1>2, <2>1, FS_EmptySet
    <3> QED BY <1>3, <3>1
  <2> QED BY <1>1, <2>1
<1>5. ASSUME NEW k \in 0 .. n - 1, k \in P PROVE k + 1 \in P
  <2>1. ASSUME NEW W \in SUBSET U, Cardinality(W) = k + 1 PROVE g[W] = h[W]
    <3>1. W # {} /\ \A x \in W : Cardinality(W \ {x}) = k
      <4>1. k \in Nat /\ IsFiniteSet(W)
        BY <1>1, <1>2
      <4> QED BY <2>1, <4>1, OneLess
    <3>2. Pick(W) \in W
      BY <3>1, PickOne
    <3>3. W \ {Pick(W)} \in SUBSET U /\ Cardinality(W \ {Pick(W)}) = k
      BY <3>1, <3>2
    <3>4. g[W \ {Pick(W)}] = h[W \ {Pick(W)}]
      BY <1>5, <3>3
    <3>5. f[Pick(W)] = e[Pick(W)]
      BY <3>2
    <3> QED BY <1>3, <3>1, <3>4, <3>5
  <2>2. k + 1 \in 0 .. n
    BY <1>1
  <2> QED BY <2>1, <2>2
<1>6. n \in P
  <2> HIDE DEF P
  <2>1. 0 .. n \subseteq P
    BY <1>1, <1>4, <1>5, UpTo
  <2> QED BY <1>1, <2>1
<1> QED BY <1>6

AnyOrder(h, f, S) == \A U \in SUBSET S : \A x \in U : h[U] = f[x] + h[U \ {x}]

LEMMA SumsAnyOrder ==
  ASSUME NEW S, IsFiniteSet(S), NEW f, \A x \in S : f[x] \in Int,
         NEW h \in [SUBSET S -> Int], Sums(h, f, S)
  PROVE  AnyOrder(h, f, S)
<1> DEFINE n == Cardinality(S)
           P == {k \in 0 .. n : \A U \in SUBSET S : Cardinality(U) = k =>
                                  \A x \in U : h[U] = f[x] + h[U \ {x}]}
<1>1. n \in Nat
  BY FS_CardinalityType
<1>2. \A U \in SUBSET S : IsFiniteSet(U) /\ Cardinality(U) \in 0 .. n
  BY FS_Subset, FS_CardinalityType
<1>3. ASSUME NEW U \in SUBSET S, U # {}
      PROVE  h[U] = f[Pick(U)] + h[U \ {Pick(U)}]
  BY <1>3 DEF Sums
<1>4. 0 \in P
  <2>1. ASSUME NEW U \in SUBSET S, Cardinality(U) = 0 PROVE U = {}
    BY <1>2, <2>1, FS_EmptySet
  <2> QED BY <1>1, <2>1
<1>5. ASSUME NEW k \in 0 .. n - 1, k \in P PROVE k + 1 \in P
  <2>1. ASSUME NEW U \in SUBSET S, Cardinality(U) = k + 1, NEW x \in U
        PROVE  h[U] = f[x] + h[U \ {x}]
    <3> DEFINE c == Pick(U)
               R == (U \ {c}) \ {x}
    <3>1. c \in U /\ h[U] = f[c] + h[U \ {c}]
      BY <1>3, PickOne
    <3>2. CASE c = x
      BY <3>1, <3>2
    <3>3. CASE c # x
      <4>1. /\ U \ {c} \in SUBSET S /\ U \ {x} \in SUBSET S /\ R \in SUBSET S
            /\ x \in U \ {c} /\ c \in U \ {x} /\ (U \ {x}) \ {c} = R
        BY <3>1, <3>3
      <4>2. Cardinality(U \ {c}) = k /\ Cardinality(U \ {x}) = k
        <5>1. k \in Nat /\ IsFiniteSet(U)
          BY <1>1, <1>2
        <5> QED BY <2>1, <3>1, <5>1, OneLess
      <4>3. h[U \ {c}] = f[x] + h[R]
        BY <1>5, <4>1, <4>2
      <4>4. h[U \ {x}] = f[c] + h[(U \ {x}) \ {c}]
        <5>1. \A W \in SUBSET S : Cardinality(W) = k =>
                \A y \in W : h[W] = f[y] + h[W \ {y}]
          BY <1>5
        <5>2. U \ {x} \in SUBSET S /\ c \in U \ {x}
          BY <4>1
        <5> DEFINE W == U \ {x}
        <5>3. W \in SUBSET S /\ Cardinality(W) = k /\ c \in W
          BY <4>2, <5>2
        <5> HIDE DEF c, R, P, W
        <5>4. h[W] = f[c] + h[W \ {c}]
          BY <5>1, <5>3
        <5> QED BY <5>4 DEF W
      <4>5. f[x] \in Int /\ f[c] \in Int /\ h[R] \in Int
        BY <3>1, <4>1
      <4>6. h[U \ {x}] = f[c] + h[R]
        BY <4>1, <4>4
      <4> HIDE DEF c, R
      <4> QED BY <3>1, <4>3, <4>5, <4>6
    <3> QED BY <3>2, <3>3
  <2>2. k + 1 \in 0 .. n
    BY <1>1
  <2> QED BY <2>1, <2>2
<1>6. 0 .. n \subseteq P
  <2> HIDE DEF P
  <2> QED BY <1>1, <1>4, <1>5, UpTo
<1>7. ASSUME NEW U \in SUBSET S, NEW x \in U PROVE h[U] = f[x] + h[U \ {x}]
  <2>1. Cardinality(U) \in P
    BY <1>2, <1>6
  <2> QED BY <2>1
<1> QED BY <1>7 DEF AnyOrder

LEMMA SumUnfolds ==
  ASSUME NEW S, IsFiniteSet(S), NEW f, \A x \in S : f[x] \in Int
  PROVE  \E h \in [SUBSET S -> Int] : Sums(h, f, S) /\ SumFunctionOnSet(f, S) = h[S]
<1>1. PICK g \in [SUBSET S -> Int] : Sums(g, f, S)
  BY SumsExist
<1> DEFINE h == CHOOSE h : Sums(h, f, S)
<1>2. Sums(h, f, S)
  BY <1>1, Zenon
<1>3. SumFunctionOnSet(f, S) = h[S]
  BY DEF SumFunctionOnSet, FoldFunctionOnSet, MapThenFoldSet, Sums, Pick
<1>4. ASSUME NEW U \in SUBSET S PROVE h[U] = g[U]
  <2>1. IsFiniteSet(U)
    BY FS_Subset
  <2> HIDE DEF h
  <2> QED BY <1>1, <1>2, <2>1, SumsAgree
<1> QED BY <1>1, <1>3, <1>4

(* What the proofs cite: the empty sum, one more or one less element, one    *)
(* changed value, and the type of a sum.                                     *)
LEMMA SumEmpty ==
  ASSUME NEW f
  PROVE  SumFunctionOnSet(f, {}) = 0
<1>1. IsFiniteSet({})
  BY FS_EmptySet
<1>2. PICK h \in [SUBSET {} -> Int] : Sums(h, f, {}) /\ SumFunctionOnSet(f, {}) = h[{}]
  BY <1>1, SumUnfolds
<1> QED BY <1>2 DEF Sums

LEMMA SumInt ==
  ASSUME NEW S, IsFiniteSet(S), NEW f, \A x \in S : f[x] \in Int
  PROVE  SumFunctionOnSet(f, S) \in Int
<1>1. PICK h \in [SUBSET S -> Int] : Sums(h, f, S) /\ SumFunctionOnSet(f, S) = h[S]
  BY SumUnfolds
<1>2. h[S] \in Int
  OBVIOUS
<1> QED BY <1>1, <1>2

LEMMA SumSame ==
  ASSUME NEW S, IsFiniteSet(S), NEW f, NEW e,
         \A x \in S : f[x] \in Int /\ f[x] = e[x]
  PROVE  SumFunctionOnSet(f, S) = SumFunctionOnSet(e, S)
<1>1. PICK g \in [SUBSET S -> Int] : Sums(g, f, S) /\ SumFunctionOnSet(f, S) = g[S]
  BY SumUnfolds
<1>2. PICK h \in [SUBSET S -> Int] : Sums(h, e, S) /\ SumFunctionOnSet(e, S) = h[S]
  BY SumUnfolds
<1>3. g[S] = h[S]
  BY <1>1, <1>2, SumsAgree
<1> QED BY <1>1, <1>2, <1>3

LEMMA SumRemove ==
  ASSUME NEW S, IsFiniteSet(S), NEW f, \A x \in S : f[x] \in Int, NEW x \in S
  PROVE  SumFunctionOnSet(f, S) = f[x] + SumFunctionOnSet(f, S \ {x})
<1> DEFINE R == S \ {x}
<1>1. IsFiniteSet(R) /\ R \subseteq S /\ \A y \in R : f[y] \in Int
  BY FS_RemoveElement
<1> HIDE DEF R
<1>2. PICK h \in [SUBSET S -> Int] : Sums(h, f, S) /\ SumFunctionOnSet(f, S) = h[S]
  BY SumUnfolds
<1>3. PICK g \in [SUBSET R -> Int] : Sums(g, f, R) /\ SumFunctionOnSet(f, R) = g[R]
  BY <1>1, SumUnfolds
<1>4. g[R] = h[R]
  BY <1>1, <1>2, <1>3, SumsAgree
<1>5. h[S] = f[x] + h[R]
  <2>1. AnyOrder(h, f, S)
    BY <1>2, SumsAnyOrder
  <2>2. S \in SUBSET S
    OBVIOUS
  <2>3. h[S] = f[x] + h[S \ {x}]
    BY <2>1, <2>2, Zenon DEF AnyOrder
  <2> QED BY <2>3 DEF R
<1> QED BY <1>2, <1>3, <1>4, <1>5 DEF R

LEMMA SumAdd ==
  ASSUME NEW S, IsFiniteSet(S), NEW x, x \notin S,
         NEW f, \A y \in S \cup {x} : f[y] \in Int
  PROVE  SumFunctionOnSet(f, S \cup {x}) = f[x] + SumFunctionOnSet(f, S)
<1>1. IsFiniteSet(S \cup {x}) /\ (S \cup {x}) \ {x} = S
  BY FS_AddElement
<1> DEFINE T == S \cup {x}
<1>2. IsFiniteSet(T) /\ x \in T /\ T \ {x} = S /\ \A y \in T : f[y] \in Int
  BY <1>1
<1> HIDE DEF T
<1>3. SumFunctionOnSet(f, T) = f[x] + SumFunctionOnSet(f, S)
  BY <1>2, SumRemove
<1> QED BY <1>3 DEF T

LEMMA SumChange ==
  ASSUME NEW S, IsFiniteSet(S), NEW x \in S, NEW f, NEW e,
         \A y \in S : f[y] \in Int /\ e[y] \in Int,
         \A y \in S \ {x} : f[y] = e[y]
  PROVE  SumFunctionOnSet(e, S) = SumFunctionOnSet(f, S) - f[x] + e[x]
<1> DEFINE R == S \ {x}
<1>1. IsFiniteSet(R) /\ \A y \in R : f[y] \in Int /\ e[y] \in Int /\ f[y] = e[y]
  BY FS_RemoveElement
<1>2. /\ SumFunctionOnSet(f, S) = f[x] + SumFunctionOnSet(f, R)
      /\ SumFunctionOnSet(e, S) = e[x] + SumFunctionOnSet(e, R)
  BY SumRemove
<1> HIDE DEF R
<1>3. SumFunctionOnSet(f, R) = SumFunctionOnSet(e, R)
  BY <1>1, SumSame
<1>4. SumFunctionOnSet(f, R) \in Int
  BY <1>1, SumInt
<1> QED BY <1>2, <1>3, <1>4

(* A sum of zeros.                                                           *)
SameBut(f, e, S, x) ==
  \A y \in S : f[y] \in Int /\ e[y] \in Int /\ (y # x => f[y] = e[y])

LEMMA SumOneChange ==
  ASSUME NEW S, IsFiniteSet(S), NEW x \in S, NEW f, NEW e, SameBut(f, e, S, x)
  PROVE  SumFunctionOnSet(e, S) = SumFunctionOnSet(f, S) - f[x] + e[x]
<1>1. \A y \in S : f[y] \in Int /\ e[y] \in Int
  BY DEF SameBut
<1>2. \A y \in S \ {x} : f[y] = e[y]
  BY DEF SameBut
<1> QED BY <1>1, <1>2, SumChange

LEMMA SumZero ==
  ASSUME NEW S, IsFiniteSet(S), NEW f, \A x \in S : f[x] = 0
  PROVE  SumFunctionOnSet(f, S) = 0
<1>0. \A x \in S : f[x] \in Int
  OBVIOUS
<1>1. PICK h \in [SUBSET S -> Int] : Sums(h, f, S) /\ SumFunctionOnSet(f, S) = h[S]
  BY <1>0, SumUnfolds
<1> DEFINE z == [s \in SUBSET S |-> 0]
<1>2. Sums(z, f, S)
  <2>1. ASSUME NEW s \in SUBSET S
        PROVE  z[s] = IF s = {} THEN 0 ELSE f[Pick(s)] + z[s \ {Pick(s)}]
    <3>1. s # {} => f[Pick(s)] = 0
      BY PickOne
    <3>2. z[s] = 0 /\ z[s \ {Pick(s)}] = 0
      OBVIOUS
    <3> QED BY <3>1, <3>2
  <2> QED BY <2>1 DEF Sums
<1>3. S \subseteq S /\ z[S] = 0
  OBVIOUS
<1> HIDE DEF z
<1>4. h[S] = z[S]
  BY <1>1, <1>2, SumsAgree
<1> QED BY <1>1, <1>3, <1>4

(* One value more at the end of a sequence of them.                          *)
LEMMA SumAppended ==
  ASSUME NEW n \in Nat, NEW f, NEW g, g[n + 1] \in Int,
         \A i \in 1 .. n : f[i] \in Int /\ g[i] = f[i]
  PROVE  SumFunctionOnSet(g, 1 .. n + 1) = SumFunctionOnSet(f, 1 .. n) + g[n + 1]
<1> DEFINE D == 1 .. n
<1>1. IsFiniteSet(D)
  BY FS_Interval
<1>2. 1 .. n + 1 = D \cup {n + 1} /\ n + 1 \notin D
  OBVIOUS
<1>3. \A i \in D : g[i] \in Int /\ f[i] = g[i] /\ f[i] \in Int
  OBVIOUS
<1> HIDE DEF D
<1>4. SumFunctionOnSet(f, D) = SumFunctionOnSet(g, D)
  BY <1>1, <1>3, SumSame
<1>5. SumFunctionOnSet(g, D \cup {n + 1}) = g[n + 1] + SumFunctionOnSet(g, D)
  BY <1>1, <1>2, <1>3, SumAdd
<1>6. SumFunctionOnSet(f, D) \in Int
  BY <1>1, <1>3, SumInt
<1>7. SumFunctionOnSet(g, 1 .. n + 1) = g[n + 1] + SumFunctionOnSet(g, D)
  BY <1>2, <1>5
<1>8. SumFunctionOnSet(g, 1 .. n + 1) = SumFunctionOnSet(f, D) + g[n + 1]
  BY <1>4, <1>6, <1>7
<1> QED BY <1>8 DEF D

(* The sum of one value everywhere.                                          *)
LEMMA SumConstant ==
  ASSUME NEW n \in Nat, NEW c \in Int, NEW f, \A i \in 1 .. n : f[i] = c
  PROVE  SumFunctionOnSet(f, 1 .. n) = n * c
<1> DEFINE P == {k \in 0 .. n : SumFunctionOnSet(f, 1 .. k) = k * c}
<1>1. 0 \in P
  <2>1. 1 .. 0 = {} /\ 0 * c = 0
    OBVIOUS
  <2> QED BY <2>1, SumEmpty
<1>2. ASSUME NEW k \in 0 .. n - 1, k \in P PROVE k + 1 \in P
  <2>1. k \in Nat /\ k + 1 \in 0 .. n /\ k + 1 \in 1 .. n /\ f[k + 1] = c
        /\ \A i \in 1 .. k : f[i] \in Int /\ f[i] = f[i]
    OBVIOUS
  <2>2. SumFunctionOnSet(f, 1 .. k + 1) = SumFunctionOnSet(f, 1 .. k) + f[k + 1]
    BY <2>1, SumAppended
  <2>3. SumFunctionOnSet(f, 1 .. k) = k * c
    BY <1>2
  <2>4. (k + 1) * c = k * c + c
    BY <2>1
  <2> QED BY <2>1, <2>2, <2>3, <2>4
<1> HIDE DEF P
<1>3. 0 .. n \subseteq P
  BY <1>1, <1>2, UpTo
<1> QED BY <1>3 DEF P
-----------------------------------------------------------------------------
(* FlattenSeq: a sequence of sequences, one after the other.                 *)
Joins(h, pieces) ==
  h[0] = <<>> /\ \A i \in 1 .. Len(pieces) : h[i] = h[i - 1] \o pieces[i]

LEMMA FlattenSteps ==
  ASSUME NEW W, NEW pieces \in Seq(Seq(W))
  PROVE  \E h \in [0 .. Len(pieces) -> Seq(W)] :
            Joins(h, pieces) /\ FlattenSeq(pieces) = h[Len(pieces)]
<1> DEFINE V == Seq(W)
           none == <<>>
<1>1. PICK n : n \in Nat /\ n = Len(pieces) /\ \A i \in 1 .. n : pieces[i] \in V
  OBVIOUS
<1>2. none \in V /\ \A v, w \in V : v \o w \in V
  BY ConcatProperties
<1>3. \A v \in V : none \o v = v
  BY ConcatEmptySeq
<1> DEFINE step == [x \in (1 .. n) \X V |-> x[2] \o pieces[x[1]]]
<1> HIDE DEF V, none
<1>4. step \in [(1 .. n) \X V -> V]
  BY <1>1, <1>2
<1>5. \A i \in 1 .. n, v \in V : step[<<i, v>>] = v \o pieces[i]
  OBVIOUS
<1> HIDE DEF step
<1>6. PICK h \in [0 .. n -> V] : Follows(h, n, none, step)
  BY <1>1, <1>2, <1>4, StepwiseExists
<1>7. h[0] = none /\ \A i \in 1 .. n : h[i] = h[i - 1] \o pieces[i]
  <2>1. ASSUME NEW i \in 1 .. n PROVE h[i] = h[i - 1] \o pieces[i]
    <3>1. i - 1 \in 0 .. n
      BY <1>1
    <3>2. h[i - 1] \in V
      BY <1>6, <3>1
    <3> QED BY <1>5, <1>6, <3>2 DEF Follows
  <2> QED BY <1>6, <2>1 DEF Follows
<1>8. CASE n = 0
  <2>1. FlattenSeq(pieces) = pieces
    BY <1>1, <1>8 DEF FlattenSeq
  <2>2. pieces = none
    <3>1. Len(pieces) = 0
      BY <1>1, <1>8
    <3> QED BY <3>1 DEF none
  <2>3. FlattenSeq(pieces) = h[n]
    BY <1>7, <1>8, <2>1, <2>2
  <2> QED BY <1>1, <1>7, <2>3 DEF Joins, V, none
<1>9. CASE n # 0
  <2> DEFINE Eq(f) == f = [i \in 1 .. n |-> IF i = 1 THEN pieces[i] ELSE f[i - 1] \o pieces[i]]
             g == [i \in 1 .. n |-> h[i]]
  <2>1. Eq(g)
    <3>1. ASSUME NEW i \in 1 .. n
          PROVE  h[i] = IF i = 1 THEN pieces[i] ELSE g[i - 1] \o pieces[i]
      <4>1. CASE i = 1
        <5>1. 1 \in 1 .. n /\ 1 - 1 = 0
          BY <1>1, <1>9
        <5>2. h[1] = h[0] \o pieces[1] /\ pieces[1] \in V
          BY <1>1, <1>7, <5>1
        <5> QED BY <1>3, <1>7, <4>1, <5>2
      <4>2. CASE i # 1
        <5>1. g[i - 1] = h[i - 1]
          BY <1>1, <4>2
        <5> QED BY <1>7, <4>2, <5>1
      <4> QED BY <4>1, <4>2
    <3> QED BY <3>1
  <2> DEFINE flat == CHOOSE f : Eq(f)
  <2>2. Eq(flat)
    <3> HIDE DEF Eq
    <3> QED BY <2>1, Zenon
  <2>3. FlattenSeq(pieces) = flat[n]
    BY <1>1, <1>9 DEF FlattenSeq
  <2>4. \A i \in 1 .. n : flat[i] = IF i = 1 THEN pieces[i] ELSE flat[i - 1] \o pieces[i]
    <3> HIDE DEF flat
    <3> QED BY <2>2
  <2> HIDE DEF flat, Eq, g
  <2> DEFINE P == {k \in 0 .. n : k # 0 => flat[k] = h[k]}
  <2>5. 0 \in P
    BY <1>1
  <2>6. ASSUME NEW k \in 0 .. n - 1, k \in P PROVE k + 1 \in P
    <3>1. k + 1 \in 1 .. n /\ k + 1 \in 0 .. n /\ (k + 1) - 1 = k
      BY <1>1
    <3>2. h[k + 1] = h[k] \o pieces[k + 1]
      BY <1>7, <3>1
    <3>3. CASE k = 0
      <4>1. flat[k + 1] = pieces[k + 1] /\ pieces[k + 1] \in V
        BY <1>1, <2>4, <3>1, <3>3
      <4>2. h[k + 1] = pieces[k + 1]
        BY <1>3, <1>7, <3>2, <3>3, <4>1
      <4> QED BY <3>1, <4>1, <4>2
    <3>4. CASE k # 0
      <4>1. k + 1 # 1
        BY <3>4
      <4>2. flat[k + 1] = flat[k] \o pieces[k + 1]
        BY <2>4, <3>1, <4>1
      <4>3. flat[k] = h[k]
        BY <2>6, <3>4
      <4> QED BY <3>1, <3>2, <4>2, <4>3
    <3> QED BY <3>3, <3>4
  <2> HIDE DEF P
  <2>7. 0 .. n \subseteq P
    BY <1>1, <2>5, <2>6, UpTo
  <2>8. n \in P
    BY <1>1, <2>7
  <2>9. flat[n] = h[n]
    BY <1>9, <2>8 DEF P
  <2> QED BY <1>1, <1>7, <2>3, <2>9 DEF Joins, V, none
<1> QED BY <1>8, <1>9

LEMMA FlattenTyped ==
  ASSUME NEW W, NEW pieces \in Seq(Seq(W))
  PROVE  FlattenSeq(pieces) \in Seq(W)
<1>1. PICK h \in [0 .. Len(pieces) -> Seq(W)] :
         Joins(h, pieces) /\ FlattenSeq(pieces) = h[Len(pieces)]
  BY FlattenSteps
<1>2. Len(pieces) \in 0 .. Len(pieces)
  OBVIOUS
<1> QED BY <1>1, <1>2

LEMMA FlattenNothing == FlattenSeq(<<>>) = <<>>
  BY DEF FlattenSeq

LEMMA FlattenAppend ==
  ASSUME NEW W, NEW pieces \in Seq(Seq(W)), NEW x \in Seq(W)
  PROVE  FlattenSeq(Append(pieces, x)) = FlattenSeq(pieces) \o x
<1> DEFINE V == Seq(W)
           more == Append(pieces, x)
<1>1. PICK n : n \in Nat /\ n = Len(pieces)
  OBVIOUS
<1>2. /\ more \in Seq(V) /\ Len(more) = n + 1 /\ more[n + 1] = x
      /\ \A i \in 1 .. n : more[i] = pieces[i]
  BY <1>1, AppendProperties
<1> HIDE DEF more
<1>3. PICK h \in [0 .. n -> V] : Joins(h, pieces) /\ FlattenSeq(pieces) = h[n]
  BY <1>1, FlattenSteps
<1>4. PICK g \in [0 .. n + 1 -> V] : Joins(g, more) /\ FlattenSeq(more) = g[n + 1]
  BY <1>2, FlattenSteps
<1>5. h[0] = <<>> /\ \A i \in 1 .. n : h[i] = h[i - 1] \o pieces[i]
  BY <1>1, <1>3 DEF Joins
<1>6. g[0] = <<>> /\ \A i \in 1 .. n + 1 : g[i] = g[i - 1] \o more[i]
  BY <1>2, <1>4 DEF Joins
<1> HIDE DEF V
<1> DEFINE P == {k \in 0 .. n : h[k] = g[k]}
<1>7. 0 \in P
  BY <1>1, <1>5, <1>6
<1>8. ASSUME NEW k \in 0 .. n - 1, k \in P PROVE k + 1 \in P
  <2>1. k + 1 \in 1 .. n /\ k + 1 \in 1 .. n + 1 /\ k + 1 \in 0 .. n /\ (k + 1) - 1 = k
    BY <1>1
  <2>2. h[k + 1] = h[k] \o pieces[k + 1] /\ g[k + 1] = g[k] \o more[k + 1]
    BY <1>5, <1>6, <2>1
  <2>3. h[k] = g[k] /\ pieces[k + 1] = more[k + 1]
    BY <1>2, <1>8, <2>1
  <2>4. h[k + 1] = g[k + 1]
    BY <2>2, <2>3
  <2> QED BY <2>1, <2>4
<1> HIDE DEF P
<1>9. 0 .. n \subseteq P
  BY <1>1, <1>7, <1>8, UpTo
<1>10. h[n] = g[n]
  BY <1>1, <1>9 DEF P
<1>11. g[n + 1] = g[n] \o x
  <2>1. n + 1 \in 1 .. n + 1 /\ (n + 1) - 1 = n
    BY <1>1
  <2> QED BY <1>2, <1>6, <2>1
<1> QED BY <1>3, <1>4, <1>10, <1>11 DEF more

LEMMA FlattenOne ==
  ASSUME NEW W, NEW x \in Seq(W)
  PROVE  FlattenSeq(<<x>>) = x
<1> DEFINE none == <<>>
<1>1. none \in Seq(Seq(W)) /\ Append(none, x) = <<x>>
  OBVIOUS
<1>2. FlattenSeq(none) = none
  BY FlattenNothing
<1>3. none \o x = x
  BY ConcatEmptySeq
<1> HIDE DEF none
<1>4. FlattenSeq(Append(none, x)) = FlattenSeq(none) \o x
  BY <1>1, FlattenAppend
<1> QED BY <1>1, <1>2, <1>3, <1>4

LEMMA FlattenConcat ==
  ASSUME NEW W, NEW s \in Seq(Seq(W)), NEW t \in Seq(Seq(W))
  PROVE  FlattenSeq(s \o t) = FlattenSeq(s) \o FlattenSeq(t)
<1> DEFINE V == Seq(W)
           Some(k) == SubSeq(t, 1, k)
<1>1. PICK n : n \in Nat /\ n = Len(t) /\ \A i \in 1 .. n : t[i] \in V
  OBVIOUS
<1>2. FlattenSeq(s) \in V
  BY FlattenTyped
<1>3. ASSUME NEW k \in 0 .. n PROVE Some(k) \in Seq(V)
  <2>1. 1 \in Int /\ k \in Int /\ \A i \in 1 .. k : t[i] \in V
    BY <1>1
  <2> QED BY <2>1, SubSeqProperties
<1> DEFINE P == {k \in 0 .. n : FlattenSeq(s \o Some(k)) = FlattenSeq(s) \o FlattenSeq(Some(k))}
<1>4. 0 \in P
  <2>1. Some(0) = <<>>
    BY SubSeqEmpty
  <2>2. s \o <<>> = s /\ FlattenSeq(s) \o <<>> = FlattenSeq(s)
    BY <1>2, ConcatEmptySeq
  <2>3. FlattenSeq(s \o Some(0)) = FlattenSeq(s) \o FlattenSeq(Some(0))
    BY <2>1, <2>2, FlattenNothing
  <2> QED BY <1>1, <2>3
<1>5. ASSUME NEW k \in 0 .. n - 1, k \in P PROVE k + 1 \in P
  <2> DEFINE some == Some(k)
             x == t[k + 1]
  <2>1. k \in 0 .. n /\ k + 1 \in 0 .. n /\ k + 1 \in 1 .. n /\ k + 1 \in 1 .. Len(t)
        /\ 1 \in 1 .. Len(t) /\ (k + 1) - 1 = k
    BY <1>1
  <2>2. some \in Seq(V) /\ x \in V
    BY <1>1, <1>3, <2>1
  <2>3. Some(k + 1) = Append(some, x)
    BY <2>1, <2>2, SubSeqRecursiveSecond
  <2>4. FlattenSeq(s \o some) = FlattenSeq(s) \o FlattenSeq(some)
    BY <1>5
  <2> HIDE DEF Some, some, x
  <2>5. s \o some \in Seq(V) /\ s \o Append(some, x) = Append(s \o some, x)
    BY SMTT(60), <2>2
  <2>6. FlattenSeq(Append(s \o some, x)) = FlattenSeq(s \o some) \o x
    BY <2>2, <2>5, FlattenAppend
  <2>7. FlattenSeq(Append(some, x)) = FlattenSeq(some) \o x
    BY <2>2, FlattenAppend
  <2>8. FlattenSeq(some) \in V
    BY <2>2, FlattenTyped
  <2>9. (FlattenSeq(s) \o FlattenSeq(some)) \o x = FlattenSeq(s) \o (FlattenSeq(some) \o x)
    BY SMTT(60), <1>2, <2>2, <2>8, ConcatAssociative
  <2>10. FlattenSeq(s \o Some(k + 1)) = FlattenSeq(s) \o FlattenSeq(Some(k + 1))
    BY <2>3, <2>4, <2>5, <2>6, <2>7, <2>9
  <2> QED BY <2>1, <2>10
<1> HIDE DEF P, Some
<1>6. 0 .. n \subseteq P
  BY <1>1, <1>4, <1>5, UpTo
<1>7. n \in P
  BY <1>1, <1>6
<1>8. Some(n) = t
  BY <1>1, SubSeqFull DEF Some
<1> QED BY <1>7, <1>8 DEF P

LEMMA FlattenNone ==
  ASSUME NEW pieces, Len(pieces) \in Nat, pieces = [i \in 1 .. Len(pieces) |-> <<>>]
  PROVE  FlattenSeq(pieces) = <<>>
<1> DEFINE none == <<>>
<1>1. PICK n : n \in Nat /\ n = Len(pieces) /\ \A i \in 1 .. n : pieces[i] = none
  OBVIOUS
<1>2. pieces \in Seq(Seq({}))
  <2>1. none \in Seq({})
    OBVIOUS
  <2>2. \A i \in 1 .. n : pieces[i] \in Seq({})
    BY <1>1, <2>1
  <2> QED BY <1>1, <2>2
<1>3. FlattenSeq(pieces) \in Seq({})
  BY <1>2, FlattenTyped
<1> QED BY <1>3
=============================================================================
