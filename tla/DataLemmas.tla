----------------------------- MODULE DataLemmas -----------------------------
(***************************************************************************)
(* Lemmas about data that the other proofs need: least and greatest         *)
(* elements, induction, what a fold from the left computes, and sums over   *)
(* finite sets.                                                             *)
(*                                                                         *)
(* A lemma with an operator as parameter can be used only where its         *)
(* conclusion names that operator as an argument of another one; hence      *)
(* FoldTrace and SumsAs.                                                    *)
(***************************************************************************)
EXTENDS Integers, Sequences, SequencesExt, FiniteSets, FiniteSetsExt, FiniteSetTheorems,
        WellFoundedInduction, TLAPS

\* Every nonempty set of naturals has a least element.
LEMMA LeastNatural ==
  ASSUME NEW S, S \subseteq Nat, S # {}
  PROVE  \E m \in S : \A x \in S : m <= x
<1>1. PICK m \in S : \A x \in S : ~(<<x, m>> \in OpToRel(<, Nat))
  BY WFMin, NatLessThanWellFounded
<1>2. \A x \in S : ~(x < m)
  BY <1>1 DEF OpToRel
<1> QED
  BY <1>2

\* A nonempty set of integers with a lower bound has a least element, Min(S).
LEMMA MinIsLeast ==
  ASSUME NEW S, S \subseteq Int, S # {}, NEW b \in Int, \A x \in S : b <= x
  PROVE  Min(S) \in S /\ \A x \in S : Min(S) <= x
<1> DEFINE D == {x - b : x \in S}
<1>1. D \subseteq Nat /\ D # {}
  <2>1. \A x \in S : x \in Int /\ b <= x
    OBVIOUS
  <2>2. \A d \in D : d \in Nat
    BY <2>1
  <2>3. D # {}
    OBVIOUS
  <2> QED
    BY <2>2, <2>3
<1> HIDE DEF D
<1>2. PICK d \in D : \A x \in D : d <= x
  BY <1>1, LeastNatural
<1>3. PICK m \in S : d = m - b
  BY <1>2 DEF D
<1>4. \A x \in S : x - b \in D
  BY DEF D
<1>5. \A x \in S : m <= x
  BY <1>2, <1>3, <1>4
<1> QED
  BY <1>5 DEF Min

\* A nonempty set of integers with an upper bound has a greatest element, Max(S).
LEMMA MaxIsGreatest ==
  ASSUME NEW S, S \subseteq Int, S # {}, NEW b \in Int, \A x \in S : x <= b
  PROVE  Max(S) \in S /\ \A x \in S : x <= Max(S)
<1> DEFINE D == {b - x : x \in S}
<1>1. D \subseteq Nat /\ D # {}
  <2>1. \A x \in S : x \in Int /\ x <= b
    OBVIOUS
  <2>2. \A d \in D : d \in Nat
    BY <2>1
  <2>3. D # {}
    OBVIOUS
  <2> QED
    BY <2>2, <2>3
<1> HIDE DEF D
<1>2. PICK d \in D : \A x \in D : d <= x
  BY <1>1, LeastNatural
<1>3. PICK m \in S : d = b - m
  BY <1>2 DEF D
<1>4. \A x \in S : b - x \in D
  BY DEF D
<1>5. \A x \in S : x <= m
  BY <1>2, <1>3, <1>4
<1> QED
  BY <1>5 DEF Max

\* The least of two.
LEMMA MinOfTwo ==
  ASSUME NEW a \in Int, NEW b \in Int
  PROVE  /\ Min({a, b}) \in {a, b} /\ Min({a, b}) <= a /\ Min({a, b}) <= b
<1>1. \E x \in {a, b} : \A y \in {a, b} : x <= y
  OBVIOUS
<1> QED
  BY <1>1 DEF Min

\* Induction up to N.
LEMMA InductionUpTo ==
  ASSUME NEW N \in Nat, NEW S, 0 \in S, \A n \in 0 .. N - 1 : n \in S => n + 1 \in S
  PROVE  \A n \in 0 .. N : n \in S
<1> DEFINE Bad == {n \in 0 .. N : n \notin S}
<1> SUFFICES ASSUME Bad # {} PROVE FALSE
  OBVIOUS
<1>1. PICK m \in Bad : \A x \in Bad : m <= x
  <2>1. Bad \subseteq Nat
    OBVIOUS
  <2> QED
    BY <2>1, LeastNatural
<1>2. m # 0 /\ m - 1 \in 0 .. N - 1 /\ m - 1 \notin Bad
  BY <1>1
<1> QED
  BY <1>1, <1>2
-----------------------------------------------------------------------------
\* The values that a fold from the left over the N elements of s goes through.
FoldTrace(F, Op(_, _), b, s, N) ==
  /\ F[0] = b /\ \A i \in 1 .. N : F[i] = Op(F[i - 1], s[i])
  /\ FoldLeft(Op, b, s) = F[N]

\* Max of a set of indices.
LEMMA MaxOfIndices ==
  ASSUME NEW n \in Nat, NEW t, t \subseteq 1 .. n, t # {}
  PROVE  Max(t) \in t /\ \A x \in t : x <= Max(t)
<1>1. t \subseteq Int /\ n \in Int /\ \A x \in t : x <= n
  OBVIOUS
<1> QED
  BY <1>1, MaxIsGreatest

LEMMA MaxIsTop ==
  ASSUME NEW n \in Nat, NEW t, t \subseteq 1 .. n, n \in t
  PROVE  Max(t) = n
<1>1. Max(t) \in t /\ \A x \in t : x <= Max(t)
  BY MaxOfIndices
<1>2. Max(t) \in 1 .. n /\ n <= Max(t)
  BY <1>1
<1> QED
  BY <1>2

LEMMA FoldLeftTrace ==
  ASSUME NEW Op(_, _), NEW b, NEW s, NEW N \in Nat, DOMAIN s = 1 .. N
  PROVE  \E F : FoldTrace(F, Op, b, s, N)
<1> DEFINE Eq(h, n) == h = [t \in SUBSET (1 .. n) |->
                              IF t = {} THEN b ELSE Op(h[t \ {Max(t)}], s[Max(t)])]
           Bad == {n \in Nat : ~\E h : Eq(h, n)}
<1>1. ASSUME NEW n \in Nat, NEW h, Eq(h, n)
      PROVE  \E g : Eq(g, n + 1)
  <2> DEFINE g == [t \in SUBSET (1 .. n + 1) |->
                     IF n + 1 \in t THEN Op(h[t \ {n + 1}], s[n + 1]) ELSE h[t]]
  <2> SUFFICES ASSUME NEW t \in SUBSET (1 .. n + 1)
               PROVE  g[t] = IF t = {} THEN b ELSE Op(g[t \ {Max(t)}], s[Max(t)])
    <3>1. g = [t \in SUBSET (1 .. n + 1) |->
                 IF t = {} THEN b ELSE Op(g[t \ {Max(t)}], s[Max(t)])]
      OBVIOUS
    <3> QED
      BY <3>1
  <2>1. CASE n + 1 \in t
    <3>1. Max(t) = n + 1
      <4>1. n + 1 \in Nat
        OBVIOUS
      <4> QED
        BY <4>1, <2>1, MaxIsTop
    <3>2. t \ {n + 1} \in SUBSET (1 .. n + 1) /\ n + 1 \notin t \ {n + 1}
      OBVIOUS
    <3>3. g[t \ {n + 1}] = h[t \ {n + 1}]
      BY <3>2
    <3> QED
      BY <2>1, <3>1, <3>3
  <2>2. CASE n + 1 \notin t
    <3>1. t \in SUBSET (1 .. n)
      BY <2>2
    <3>2. h[t] = IF t = {} THEN b ELSE Op(h[t \ {Max(t)}], s[Max(t)])
      BY <3>1, <1>1
    <3>3. t \ {Max(t)} \in SUBSET (1 .. n + 1) /\ n + 1 \notin t \ {Max(t)}
      BY <2>2
    <3>4. g[t \ {Max(t)}] = h[t \ {Max(t)}]
      BY <3>3
    <3> QED
      BY <2>2, <3>2, <3>4
  <2> QED
    BY <2>1, <2>2
<1>2. \E h : Eq(h, 0)
  <2> DEFINE h == [t \in SUBSET (1 .. 0) |-> b]
  <2>1. \A t \in SUBSET (1 .. 0) : t = {}
    OBVIOUS
  <2>2. h = [t \in SUBSET (1 .. 0) |-> IF t = {} THEN b ELSE Op(h[t \ {Max(t)}], s[Max(t)])]
    BY <2>1
  <2> QED
    BY <2>2
<1> HIDE DEF Eq
<1>3. Bad = {}
  <2> SUFFICES ASSUME Bad # {} PROVE FALSE
    OBVIOUS
  <2>1. PICK m \in Bad : \A x \in Bad : m <= x
    BY LeastNatural
  <2>2. m # 0 /\ m - 1 \in Nat
    BY <2>1, <1>2
  <2>3. m - 1 \notin Bad
    BY <2>1, <2>2
  <2>4. PICK h : Eq(h, m - 1)
    BY <2>2, <2>3
  <2>5. \E g : Eq(g, (m - 1) + 1)
    BY <2>2, <2>4, <1>1
  <2> QED
    BY <2>1, <2>5
<1> DEFINE it == CHOOSE h : Eq(h, N)
<1>4. Eq(it, N)
  BY <1>3
<1>5. FoldLeft(Op, b, s) = it[1 .. N]
  BY DEF FoldLeft, MapThenFoldSet, Eq
<1> HIDE DEF it
<1>6. \A t \in SUBSET (1 .. N) :
        it[t] = IF t = {} THEN b ELSE Op(it[t \ {Max(t)}], s[Max(t)])
  BY <1>4 DEF Eq
<1> DEFINE F == [i \in 0 .. N |-> it[1 .. i]]
<1>7. F[0] = b
  <2>1. 1 .. 0 = {} /\ 0 \in 0 .. N
    OBVIOUS
  <2>2. it[{}] = b
    BY <1>6
  <2> QED
    BY <2>1, <2>2
<1>8. ASSUME NEW i \in 1 .. N PROVE F[i] = Op(F[i - 1], s[i])
  <2>1. Max(1 .. i) = i
    BY MaxIsTop
  <2>2. (1 .. i) \ {i} = 1 .. (i - 1)
    OBVIOUS
  <2>3. 1 .. i \in SUBSET (1 .. N) /\ 1 .. i # {}
    <3>1. i \in 1 .. i /\ \A x \in 1 .. i : x \in 1 .. N
      OBVIOUS
    <3> QED
      BY <3>1
  <2>4. it[1 .. i] = Op(it[1 .. (i - 1)], s[i])
    BY <2>1, <2>2, <2>3, <1>6
  <2> QED
    BY <2>4
<1>9. FoldTrace(F, Op, b, s, N)
  BY <1>5, <1>7, <1>8 DEF FoldTrace
<1> QED
  BY <1>9
-----------------------------------------------------------------------------
\* Induction over a finite set, for a set Q of its subsets.
LEMMA FiniteInduction ==
  ASSUME NEW S, IsFiniteSet(S), NEW Q, {} \in Q,
         \A T \in SUBSET S : \A x \in S \ T : T \in Q => T \cup {x} \in Q
  PROVE  S \in Q
<1> DEFINE N == Cardinality(S)
           K == {n \in Nat : \A T \in SUBSET S : Cardinality(T) = n => T \in Q}
<1>1. N \in Nat /\ \A T \in SUBSET S : IsFiniteSet(T)
  BY FS_CardinalityType, FS_Subset
<1>2. 0 \in K
  BY <1>1, FS_EmptySet
<1>3. ASSUME NEW n \in 0 .. N - 1, n \in K
      PROVE  n + 1 \in K
  <2> SUFFICES ASSUME NEW T \in SUBSET S, Cardinality(T) = n + 1
               PROVE  T \in Q
    BY <1>1
  <2>1. T # {}
    BY <1>1, FS_EmptySet
  <2>2. PICK x : x \in T
    BY <2>1
  <2>3. T \ {x} \in SUBSET S /\ Cardinality(T \ {x}) = n
    <3>1. IsFiniteSet(T)
      BY <1>1
    <3>2. Cardinality(T \ {x}) = Cardinality(T) - 1
      BY <2>2, <3>1, FS_RemoveElement
    <3>3. n \in Nat
      BY <1>1
    <3> QED
      BY <3>2, <3>3
  <2>4. T \ {x} \in Q
    BY <1>3, <2>3
  <2>5. x \in S \ (T \ {x}) /\ (T \ {x}) \cup {x} = T
    BY <2>2
  <2> QED
    BY <2>3, <2>4, <2>5
<1> HIDE DEF K, N
<1>4. N \in K
  BY <1>1, <1>2, <1>3, InductionUpTo
<1> QED
  BY <1>4 DEF K, N

\* The sum of the values of F on the set S.
Total(F, S) == MapThenSumSet(LAMBDA x : F[x], S)

\* The equation of the fold that computes sums over the subsets of S.
One(s) == CHOOSE x \in s : TRUE
SumsOf(h, F, S) ==
  h = [s \in SUBSET S |-> IF s = {} THEN 0 ELSE F[One(s)] + h[s \ {One(s)}]]

LEMMA OneIn == \A s : s # {} => One(s) \in s
BY DEF One

\* There is one such function, and MapThenSumSet takes its value at S.
LEMMA SumsExist ==
  ASSUME NEW S, IsFiniteSet(S), NEW F
  PROVE  \E h : SumsOf(h, F, S)
<1> DEFINE N == Cardinality(S)
           Upto(h, n) == \A s \in SUBSET S : Cardinality(s) <= n =>
                           h[s] = IF s = {} THEN 0 ELSE F[One(s)] + h[s \ {One(s)}]
           K == {n \in Nat : \E h : h = [s \in SUBSET S |-> h[s]] /\ Upto(h, n)}
<1>1. N \in Nat /\ \A s \in SUBSET S : IsFiniteSet(s) /\ Cardinality(s) \in Nat
                         /\ Cardinality(s) <= N
  BY FS_CardinalityType, FS_Subset
<1>2. 0 \in K
  <2> DEFINE h == [s \in SUBSET S |-> 0]
  <2>1. h = [s \in SUBSET S |-> h[s]]
    OBVIOUS
  <2>2. \A s \in SUBSET S : Cardinality(s) <= 0 => s = {}
    BY <1>1, FS_EmptySet
  <2>3. Upto(h, 0)
    BY <2>2
  <2> QED
    BY <2>1, <2>3
<1>3. ASSUME NEW n \in 0 .. N - 1, n \in K
      PROVE  n + 1 \in K
  <2>1. PICK h : h = [s \in SUBSET S |-> h[s]] /\ Upto(h, n)
    BY <1>3
  <2> DEFINE g == [s \in SUBSET S |-> IF Cardinality(s) = n + 1 THEN F[One(s)] + h[s \ {One(s)}]
                                                              ELSE h[s]]
  <2>2. g = [s \in SUBSET S |-> g[s]]
    OBVIOUS
  <2>3. ASSUME NEW s \in SUBSET S, Cardinality(s) <= n + 1
        PROVE  g[s] = IF s = {} THEN 0 ELSE F[One(s)] + g[s \ {One(s)}]
    <3>1. CASE s = {}
      <4>1. Cardinality(s) = 0 /\ n + 1 # 0 /\ 0 <= n
        BY <3>1, FS_EmptySet
      <4> QED
        BY <2>1, <3>1, <4>1
    <3>2. CASE s # {}
      <4>1. One(s) \in s /\ s \ {One(s)} \in SUBSET S
        BY <3>2, OneIn
      <4>2. Cardinality(s \ {One(s)}) = Cardinality(s) - 1
        BY <1>1, <4>1, FS_RemoveElement
      <4>3. Cardinality(s \ {One(s)}) # n + 1
        BY <1>1, <2>3, <4>2
      <4>4. g[s \ {One(s)}] = h[s \ {One(s)}]
        BY <4>1, <4>3
      <4>5. CASE Cardinality(s) = n + 1
        BY <3>2, <4>4, <4>5
      <4>6. CASE Cardinality(s) # n + 1
        <5>1. Cardinality(s) <= n
          BY <1>1, <2>3, <4>6
        <5>2. h[s] = F[One(s)] + h[s \ {One(s)}]
          BY <2>1, <3>2, <5>1
        <5> QED
          BY <3>2, <4>4, <4>6, <5>2
      <4> QED
        BY <4>5, <4>6
    <3> QED
      BY <3>1, <3>2
  <2>4. Upto(g, n + 1)
    BY <2>3
  <2> HIDE DEF g, Upto
  <2>5. n + 1 \in Nat
    BY <1>1
  <2> QED
    BY <2>2, <2>4, <2>5
<1> HIDE DEF K
<1>4. N \in K
  <2> HIDE DEF N
  <2> QED
    BY <1>1, <1>2, <1>3, InductionUpTo
<1>5. PICK h : h = [s \in SUBSET S |-> h[s]] /\ Upto(h, N)
  BY <1>4 DEF K
<1>6. \A s \in SUBSET S : h[s] = IF s = {} THEN 0 ELSE F[One(s)] + h[s \ {One(s)}]
  BY <1>1, <1>5
<1>7. h = [s \in SUBSET S |-> IF s = {} THEN 0 ELSE F[One(s)] + h[s \ {One(s)}]]
  BY <1>5, <1>6
<1> QED
  BY <1>7 DEF SumsOf

LEMMA TotalIs ==
  ASSUME NEW S, IsFiniteSet(S), NEW F
  PROVE  \E h : SumsOf(h, F, S) /\ Total(F, S) = h[S]
<1> DEFINE h == CHOOSE h : SumsOf(h, F, S)
<1>1. SumsOf(h, F, S)
  BY SumsExist
<1>2. Total(F, S) = h[S]
  BY DEF Total, MapThenSumSet, MapThenFoldSet, SumsOf, One
<1> QED
  BY <1>1, <1>2

LEMMA SumsAgree ==
  ASSUME NEW S, IsFiniteSet(S), NEW F, NEW T \in SUBSET S, NEW h, SumsOf(h, F, S),
         NEW g, SumsOf(g, F, T)
  PROVE  \A s \in SUBSET T : g[s] = h[s]
<1> DEFINE N == Cardinality(T)
           K == {n \in Nat : \A s \in SUBSET T : Cardinality(s) = n => g[s] = h[s]}
<1>1. IsFiniteSet(T)
  BY FS_Subset
<1>2. N \in Nat /\ \A s \in SUBSET T : IsFiniteSet(s) /\ Cardinality(s) \in Nat
                         /\ Cardinality(s) <= N
  BY <1>1, FS_CardinalityType, FS_Subset
<1>3. \A s \in SUBSET T : /\ g[s] = IF s = {} THEN 0 ELSE F[One(s)] + g[s \ {One(s)}]
                          /\ h[s] = IF s = {} THEN 0 ELSE F[One(s)] + h[s \ {One(s)}]
  BY DEF SumsOf
<1>4. 0 \in K
  <2>1. \A s \in SUBSET T : Cardinality(s) = 0 => s = {}
    BY <1>2, FS_EmptySet
  <2> QED
    BY <1>3, <2>1
<1>5. ASSUME NEW n \in 0 .. N - 1, n \in K
      PROVE  n + 1 \in K
  <2>1. n \in Nat /\ n + 1 \in Nat /\ n + 1 # 0
    BY <1>2
  <2> SUFFICES ASSUME NEW s \in SUBSET T, Cardinality(s) = n + 1
               PROVE  g[s] = h[s]
    BY <2>1
  <2>2. s # {}
    BY <2>1, FS_EmptySet
  <2>3. One(s) \in s /\ s \ {One(s)} \in SUBSET T
    BY <2>2, OneIn
  <2>4. Cardinality(s \ {One(s)}) = Cardinality(s) - 1
    BY <1>2, <2>3, FS_RemoveElement
  <2>5. g[s \ {One(s)}] = h[s \ {One(s)}]
    BY <1>5, <2>1, <2>3, <2>4
  <2> QED
    BY <1>3, <2>2, <2>5
<1> HIDE DEF K
<1>6. \A n \in 0 .. N : n \in K
  <2> HIDE DEF N
  <2> QED
    BY <1>2, <1>4, <1>5, InductionUpTo
<1>7. \A s \in SUBSET T : Cardinality(s) \in K
  BY <1>2, <1>6
<1> QED
  BY <1>7 DEF K

LEMMA TotalOne ==
  ASSUME NEW S, IsFiniteSet(S), NEW F
  PROVE  Total(F, S) = IF S = {} THEN 0 ELSE F[One(S)] + Total(F, S \ {One(S)})
<1> DEFINE T == S \ {One(S)}
<1>1. IsFiniteSet(T) /\ T \in SUBSET S
  BY FS_Subset
<1>2. PICK h : SumsOf(h, F, S) /\ Total(F, S) = h[S]
  BY TotalIs
<1> HIDE DEF T
<1>3. PICK g : SumsOf(g, F, T) /\ Total(F, T) = g[T]
  BY <1>1, TotalIs
<1>4. g[T] = h[T]
  BY <1>1, <1>2, <1>3, SumsAgree
<1>5. h[S] = IF S = {} THEN 0 ELSE F[One(S)] + h[T]
  BY <1>2 DEF SumsOf, T
<1> QED
  BY <1>2, <1>3, <1>4, <1>5 DEF T

\* The sum of no value, and of integers.
LEMMA TotalEmpty == \A F : Total(F, {}) = 0
<1>1. IsFiniteSet({})
  BY FS_EmptySet
<1> QED
  BY <1>1, TotalOne

\* Induction over the subsets of a finite set: from all that have an element less.
LEMMA FirstInduction ==
  ASSUME NEW S, IsFiniteSet(S), NEW Q, {} \in Q,
         \A T \in SUBSET S : T # {} /\ (\A x \in T : T \ {x} \in Q) => T \in Q
  PROVE  \A T \in SUBSET S : T \in Q
<1> DEFINE N == Cardinality(S)
           K == {n \in Nat : \A T \in SUBSET S : Cardinality(T) = n => T \in Q}
<1>1. /\ N \in Nat
      /\ \A T \in SUBSET S : IsFiniteSet(T) /\ Cardinality(T) \in Nat /\ Cardinality(T) <= N
  BY FS_CardinalityType, FS_Subset
<1>2. 0 \in K
  BY <1>1, FS_EmptySet
<1>3. ASSUME NEW n \in 0 .. N - 1, n \in K
      PROVE  n + 1 \in K
  <2>1. n \in Nat /\ n + 1 \in Nat /\ n + 1 # 0
    BY <1>1
  <2> SUFFICES ASSUME NEW T \in SUBSET S, Cardinality(T) = n + 1
               PROVE  T \in Q
    BY <2>1
  <2>2. T # {}
    BY <2>1, FS_EmptySet
  <2>3. ASSUME NEW x \in T PROVE T \ {x} \in Q
    <3>1. T \ {x} \in SUBSET S
      OBVIOUS
    <3>2. Cardinality(T \ {x}) = Cardinality(T) - 1
      BY <1>1, FS_RemoveElement
    <3> QED
      BY <1>3, <2>1, <3>1, <3>2
  <2> QED
    BY <2>2, <2>3
<1> HIDE DEF K
<1>4. \A n \in 0 .. N : n \in K
  <2> HIDE DEF N
  <2> QED
    BY <1>1, <1>2, <1>3, InductionUpTo
<1>5. \A T \in SUBSET S : Cardinality(T) \in K
  BY <1>1, <1>4
<1> QED
  BY <1>5 DEF K

LEMMA TotalInt ==
  ASSUME NEW S, IsFiniteSet(S), NEW F, \A x \in S : F[x] \in Int
  PROVE  \A T \in SUBSET S : Total(F, T) \in Int
<1> DEFINE Q == {T \in SUBSET S : Total(F, T) \in Int}
<1>1. {} \in Q
  BY TotalEmpty
<1>2. ASSUME NEW T \in SUBSET S, T # {}, \A x \in T : T \ {x} \in Q
      PROVE  T \in Q
  <2>1. IsFiniteSet(T) /\ One(T) \in T
    BY <1>2, FS_Subset, OneIn
  <2>2. Total(F, T) = F[One(T)] + Total(F, T \ {One(T)})
    BY <1>2, <2>1, TotalOne
  <2>3. Total(F, T \ {One(T)}) \in Int /\ F[One(T)] \in Int
    BY <1>2, <2>1
  <2> QED
    BY <2>2, <2>3
<1> HIDE DEF Q
<1>3. \A T \in SUBSET S : T \in Q
  BY <1>1, <1>2, FirstInduction
<1> QED
  BY <1>3 DEF Q

\* Any one value can be taken out of a sum.
LEMMA TotalSplit ==
  ASSUME NEW S, IsFiniteSet(S), NEW F, \A x \in S : F[x] \in Int
  PROVE  \A T \in SUBSET S : \A x \in T : Total(F, T) = F[x] + Total(F, T \ {x})
<1> DEFINE Q == {T \in SUBSET S : \A x \in T : Total(F, T) = F[x] + Total(F, T \ {x})}
<1>1. {} \in Q
  OBVIOUS
<1>2. ASSUME NEW T \in SUBSET S, T # {}, \A x \in T : T \ {x} \in Q
      PROVE  T \in Q
  <2> SUFFICES ASSUME NEW x \in T PROVE Total(F, T) = F[x] + Total(F, T \ {x})
    OBVIOUS
  <2>1. IsFiniteSet(T) /\ One(T) \in T
    BY <1>2, FS_Subset, OneIn
  <2>2. PICK o \in T : o = One(T)
    BY <2>1
  <2>3. Total(F, T) = F[o] + Total(F, T \ {o})
    BY <1>2, <2>1, <2>2, TotalOne
  <2>4. CASE x = o
    BY <2>3, <2>4
  <2>5. CASE x # o
    <3> DEFINE R == (T \ {o}) \ {x}
    <3>1. Total(F, T \ {o}) = F[x] + Total(F, R)
      BY <1>2, <2>5
    <3>2. Total(F, T \ {x}) = F[o] + Total(F, R)
      <4>1. (T \ {x}) \ {o} = R
        OBVIOUS
      <4>2. Total(F, T \ {x}) = F[o] + Total(F, (T \ {x}) \ {o})
        BY <1>2, <2>5
      <4> QED
        BY <4>1, <4>2
    <3>3. F[x] \in Int /\ F[o] \in Int /\ Total(F, R) \in Int
      <4>1. R \in SUBSET S
        OBVIOUS
      <4> QED
        BY <4>1, TotalInt
    <3> HIDE DEF R
    <3> QED
      BY <2>3, <3>1, <3>2, <3>3
  <2> QED
    BY <2>4, <2>5
<1> HIDE DEF Q
<1>3. \A T \in SUBSET S : T \in Q
  BY <1>1, <1>2, FirstInduction
<1> QED
  BY <1>3 DEF Q

\* The sum with one more value.
LEMMA TotalAdd ==
  ASSUME NEW S, IsFiniteSet(S), NEW F, \A x \in S : F[x] \in Int,
         NEW T \in SUBSET S, NEW x \in S \ T
  PROVE  Total(F, T \cup {x}) = F[x] + Total(F, T)
<1>1. T \cup {x} \in SUBSET S /\ x \in T \cup {x} /\ (T \cup {x}) \ {x} = T
  OBVIOUS
<1>2. Total(F, T \cup {x}) = F[x] + Total(F, (T \cup {x}) \ {x})
  BY <1>1, TotalSplit
<1> QED
  BY <1>1, <1>2

\* A sum depends on the values only.
LEMMA TotalSame ==
  ASSUME NEW S, IsFiniteSet(S), NEW F, NEW G, \A x \in S : F[x] = G[x]
  PROVE  Total(F, S) = Total(G, S)
<1> DEFINE Q == {T \in SUBSET S : Total(F, T) = Total(G, T)}
<1>1. {} \in Q
  BY TotalEmpty
<1>2. ASSUME NEW T \in SUBSET S, T # {}, \A x \in T : T \ {x} \in Q
      PROVE  T \in Q
  <2>1. IsFiniteSet(T) /\ One(T) \in T
    BY <1>2, FS_Subset, OneIn
  <2>2. Total(F, T) = F[One(T)] + Total(F, T \ {One(T)})
    BY <1>2, <2>1, TotalOne
  <2>3. Total(G, T) = G[One(T)] + Total(G, T \ {One(T)})
    BY <1>2, <2>1, TotalOne
  <2>4. Total(F, T \ {One(T)}) = Total(G, T \ {One(T)}) /\ F[One(T)] = G[One(T)]
    BY <1>2, <2>1
  <2> QED
    BY <2>2, <2>3, <2>4
<1> HIDE DEF Q
<1>3. S \in Q
  BY <1>1, <1>2, FirstInduction
<1> QED
  BY <1>3 DEF Q

\* A sum of naturals, and of what is not all zero.
LEMMA TotalNat ==
  ASSUME NEW S, IsFiniteSet(S), NEW F, \A x \in S : F[x] \in Nat
  PROVE  Total(F, S) \in Nat /\ \A x \in S : F[x] <= Total(F, S)
<1> DEFINE Q == {T \in SUBSET S : Total(F, T) \in Nat}
<1>1. {} \in Q
  BY TotalEmpty
<1>2. ASSUME NEW T \in SUBSET S, NEW x \in S \ T, T \in Q
      PROVE  T \cup {x} \in Q
  <2>1. Total(F, T \cup {x}) = F[x] + Total(F, T)
    BY TotalAdd
  <2> QED
    BY <1>2, <2>1
<1> HIDE DEF Q
<1>3. ASSUME NEW T \in SUBSET S PROVE T \in Q
  <2>1. IsFiniteSet(T)
    BY FS_Subset
  <2>2. \A U \in SUBSET T : \A x \in T \ U : U \in Q => U \cup {x} \in Q
    BY <1>2
  <2> QED
    BY <1>1, <2>1, <2>2, FiniteInduction
<1>4. \A T \in SUBSET S : Total(F, T) \in Nat
  BY <1>3 DEF Q
<1>5. ASSUME NEW x \in S PROVE F[x] <= Total(F, S)
  <2>1. Total(F, S) = F[x] + Total(F, S \ {x})
    BY TotalSplit
  <2>2. Total(F, S \ {x}) \in Nat /\ F[x] \in Nat
    BY <1>4
  <2> QED
    BY <2>1, <2>2
<1> QED
  BY <1>4, <1>5

\* Zeros do not count.
LEMMA TotalZeros ==
  ASSUME NEW S, IsFiniteSet(S), NEW F, \A x \in S : F[x] \in Int,
         NEW T \in SUBSET S, \A x \in S \ T : F[x] = 0
  PROVE  Total(F, S) = Total(F, T)
<1> DEFINE D == S \ T
           Q == {U \in SUBSET D : Total(F, T \cup U) = Total(F, T)}
<1>1. {} \in Q
  OBVIOUS
<1>2. ASSUME NEW U \in SUBSET D, NEW x \in D \ U, U \in Q
      PROVE  U \cup {x} \in Q
  <2>1. PICK V \in SUBSET S : V = T \cup U
    OBVIOUS
  <2>2. x \in S \ V /\ U \cup {x} \in SUBSET D
    BY <2>1
  <2>3. T \cup (U \cup {x}) = V \cup {x}
    BY <2>1
  <2>4. Total(F, V \cup {x}) = F[x] + Total(F, V)
    BY <2>2, TotalAdd
  <2>5. F[x] = 0 /\ Total(F, V) = Total(F, T) /\ Total(F, T) \in Int
    BY <1>2, <2>1, TotalInt
  <2>6. Total(F, V \cup {x}) = Total(F, T)
    BY <2>4, <2>5
  <2> QED
    BY <2>2, <2>3, <2>6
<1> HIDE DEF Q
<1>3. IsFiniteSet(D)
  BY FS_Subset
<1>4. D \in Q
  <2> HIDE DEF D
  <2> QED
    BY <1>1, <1>2, <1>3, FiniteInduction
<1>5. T \cup D = S
  OBVIOUS
<1> QED
  BY <1>4, <1>5 DEF Q

\* The sum of differences.
LEMMA TotalMinus ==
  ASSUME NEW S, IsFiniteSet(S), NEW F, NEW G, NEW H,
         \A x \in S : F[x] \in Int /\ G[x] \in Int /\ H[x] = F[x] - G[x]
  PROVE  Total(H, S) = Total(F, S) - Total(G, S)
<1> DEFINE Q == {T \in SUBSET S : Total(H, T) = Total(F, T) - Total(G, T)}
<1>1. {} \in Q
  BY TotalEmpty
<1>2. ASSUME NEW T \in SUBSET S, NEW x \in S \ T, T \in Q
      PROVE  T \cup {x} \in Q
  <2>1. \A y \in S : H[y] \in Int /\ F[y] \in Int /\ G[y] \in Int
    OBVIOUS
  <2>2. Total(H, T \cup {x}) = H[x] + Total(H, T)
    BY <2>1, TotalAdd
  <2>3. Total(F, T \cup {x}) = F[x] + Total(F, T)
    BY <2>1, TotalAdd
  <2>4. Total(G, T \cup {x}) = G[x] + Total(G, T)
    BY <2>1, TotalAdd
  <2>5. Total(F, T) \in Int /\ Total(G, T) \in Int
    BY <2>1, TotalInt
  <2>6. Total(H, T) = Total(F, T) - Total(G, T) /\ H[x] = F[x] - G[x]
    BY <1>2
  <2>7. T \cup {x} \in SUBSET S
    OBVIOUS
  <2>8. Total(H, T \cup {x}) = Total(F, T \cup {x}) - Total(G, T \cup {x})
    BY <2>1, <2>2, <2>3, <2>4, <2>5, <2>6
  <2> QED
    BY <2>7, <2>8
<1> HIDE DEF Q
<1>3. S \in Q
  BY <1>1, <1>2, FiniteInduction
<1> QED
  BY <1>3 DEF Q

\* The values are summed under other names.
LEMMA TotalMoved ==
  ASSUME NEW S, IsFiniteSet(S), NEW F, NEW T, IsFiniteSet(T), NEW G, NEW b,
         \A x \in S : F[x] \in Int /\ b[x] \in T /\ G[b[x]] = F[x],
         \A x, y \in S : b[x] = b[y] => x = y,
         \A z \in T : G[z] \in Int /\ \E x \in S : b[x] = z
  PROVE  Total(F, S) = Total(G, T)
<1> DEFINE I(U) == {b[x] : x \in U}
           Q == {U \in SUBSET S : Total(F, U) = Total(G, I(U))}
<1>1. {} \in Q
  <2>1. I({}) = {}
    OBVIOUS
  <2> QED
    BY <2>1, TotalEmpty
<1>2. ASSUME NEW U \in SUBSET S, NEW x \in S \ U, U \in Q
      PROVE  U \cup {x} \in Q
  <2>1. Total(F, U \cup {x}) = F[x] + Total(F, U)
    BY TotalAdd
  <2>2. I(U) \in SUBSET T /\ b[x] \in T \ I(U) /\ I(U \cup {x}) = I(U) \cup {b[x]}
    OBVIOUS
  <2>3. Total(G, I(U) \cup {b[x]}) = G[b[x]] + Total(G, I(U))
    <3> HIDE DEF I
    <3> QED
      BY <2>2, TotalAdd
  <2>4. Total(F, U) = Total(G, I(U)) /\ G[b[x]] = F[x]
    BY <1>2
  <2> QED
    BY <2>1, <2>2, <2>3, <2>4
<1>3. I(S) = T
  OBVIOUS
<1> HIDE DEF Q, I
<1>4. S \in Q
  BY <1>1, <1>2, FiniteInduction
<1> QED
  BY <1>3, <1>4 DEF Q

\* One of the values changes.
LEMMA TotalChanged ==
  ASSUME NEW S, IsFiniteSet(S), NEW F, NEW G, NEW x \in S,
         \A y \in S : F[y] \in Int /\ G[y] \in Int, \A y \in S \ {x} : G[y] = F[y]
  PROVE  Total(G, S) = Total(F, S) + (G[x] - F[x])
<1>1. Total(F, S) = F[x] + Total(F, S \ {x}) /\ Total(G, S) = G[x] + Total(G, S \ {x})
  BY TotalSplit
<1>2. Total(F, S \ {x}) = Total(G, S \ {x})
  <2>1. IsFiniteSet(S \ {x})
    BY FS_Subset
  <2> QED
    BY <2>1, TotalSame
<1>3. Total(F, S \ {x}) \in Int /\ F[x] \in Int /\ G[x] \in Int
  BY TotalInt
<1> QED
  BY <1>1, <1>2, <1>3

\* The sum of the values of an operator.
SumsAs(f(_), F, S) == (\A x \in S : f(x) = F[x]) => MapThenSumSet(f, S) = Total(F, S)

LEMMA SumIsTotal ==
  ASSUME NEW f(_), NEW F, NEW S, IsFiniteSet(S)
  PROVE  SumsAs(f, F, S)
<1> SUFFICES ASSUME \A x \in S : f(x) = F[x]
             PROVE  MapThenSumSet(f, S) = Total(F, S)
  BY DEF SumsAs
<1> DEFINE Eq(h) == h = [s \in SUBSET S |-> IF s = {} THEN 0 ELSE f(One(s)) + h[s \ {One(s)}]]
           h == CHOOSE h : Eq(h)
<1>1. \A s \in SUBSET S : s # {} => f(One(s)) = F[One(s)]
  BY OneIn
<1>2. ASSUME NEW g PROVE Eq(g) <=> SumsOf(g, F, S)
  BY <1>1 DEF SumsOf
<1>3. PICK g : SumsOf(g, F, S) /\ Total(F, S) = g[S]
  BY TotalIs
<1>4. MapThenSumSet(f, S) = h[S]
  BY DEF MapThenSumSet, MapThenFoldSet, One
<1> HIDE DEF Eq
<1>5. SumsOf(h, F, S)
  BY <1>2, <1>3
<1>6. g[S] = h[S]
  BY <1>3, <1>5, SumsAgree
<1> QED
  BY <1>3, <1>4, <1>6
-----------------------------------------------------------------------------
\* A sequence, whatever its elements are.
IsSeq(s) == Len(s) \in Nat /\ s = [i \in 1 .. Len(s) |-> s[i]]

LEMMA SeqOfElements ==
  ASSUME NEW s, IsSeq(s)
  PROVE  s \in Seq({s[i] : i \in 1 .. Len(s)}) /\ DOMAIN s = 1 .. Len(s)
BY DEF IsSeq

LEMMA SeqIs == \A S : \A s \in Seq(S) : IsSeq(s)
BY DEF IsSeq

LEMMA FunctionIsSeq ==
  ASSUME NEW n \in Nat, NEW s, s = [i \in 1 .. n |-> s[i]]
  PROVE  IsSeq(s) /\ Len(s) = n
BY DEF IsSeq

LEMMA AppendIs ==
  ASSUME NEW s, IsSeq(s), NEW e
  PROVE  /\ IsSeq(Append(s, e)) /\ Len(Append(s, e)) = Len(s) + 1
         /\ \A i \in 1 .. Len(s) : Append(s, e)[i] = s[i]
         /\ Append(s, e)[Len(s) + 1] = e
<1> DEFINE S == {s[i] : i \in 1 .. Len(s)} \cup {e}
           T == Append(s, e)
<1>1. s \in Seq(S) /\ e \in S
  BY SeqOfElements DEF IsSeq
<1> HIDE DEF S
<1>2. T \in Seq(S) /\ Len(T) = Len(s) + 1
  BY <1>1
<1>3. IsSeq(T)
  BY <1>2, SeqIs
<1>4. (\A i \in 1 .. Len(s) : T[i] = s[i]) /\ T[Len(s) + 1] = e
  BY <1>1
<1> QED
  BY <1>2, <1>3, <1>4

LEMMA ConcatIs ==
  ASSUME NEW s, IsSeq(s), NEW t, IsSeq(t)
  PROVE  /\ IsSeq(s \o t) /\ Len(s \o t) = Len(s) + Len(t)
         /\ \A i \in 1 .. Len(s) : (s \o t)[i] = s[i]
         /\ \A i \in 1 .. Len(t) : (s \o t)[Len(s) + i] = t[i]
<1> DEFINE S == {s[i] : i \in 1 .. Len(s)} \cup {t[i] : i \in 1 .. Len(t)}
           T == s \o t
<1>1. s \in Seq(S) /\ t \in Seq(S)
  BY SeqOfElements DEF IsSeq
<1> HIDE DEF S
<1>2. T \in Seq(S) /\ Len(T) = Len(s) + Len(t)
  BY <1>1
<1>3. IsSeq(T)
  BY <1>2, SeqIs
<1>4. /\ \A i \in 1 .. Len(s) : T[i] = s[i]
      /\ \A i \in 1 .. Len(t) : T[Len(s) + i] = t[i]
  BY <1>1
<1> QED
  BY <1>2, <1>3, <1>4

LEMMA SubSeqIs ==
  ASSUME NEW s, IsSeq(s), NEW m \in 1 .. Len(s) + 1
  PROVE  /\ IsSeq(SubSeq(s, m, Len(s))) /\ Len(SubSeq(s, m, Len(s))) = Len(s) - m + 1
         /\ \A i \in 1 .. Len(s) - m + 1 : SubSeq(s, m, Len(s))[i] = s[i + m - 1]
<1> DEFINE S == {s[i] : i \in 1 .. Len(s)}
           T == SubSeq(s, m, Len(s))
<1>1. s \in Seq(S) /\ Len(s) \in Nat
  BY SeqOfElements DEF IsSeq
<1> HIDE DEF S
<1>2. T \in Seq(S) /\ Len(T) = Len(s) - m + 1
  BY <1>1
<1>3. IsSeq(T)
  BY <1>2, SeqIs
<1>4. \A i \in 1 .. Len(s) - m + 1 : T[i] = s[i + m - 1]
  BY <1>1
<1> QED
  BY <1>2, <1>3, <1>4

LEMMA TailIs ==
  ASSUME NEW s, IsSeq(s), s # <<>>
  PROVE  /\ IsSeq(Tail(s)) /\ Len(Tail(s)) = Len(s) - 1 /\ Len(s) > 0
         /\ \A i \in 1 .. Len(s) - 1 : Tail(s)[i] = s[i + 1]
<1> DEFINE S == {s[i] : i \in 1 .. Len(s)}
           T == Tail(s)
<1>1. s \in Seq(S) /\ Len(s) \in Nat /\ Len(s) > 0
  BY SeqOfElements DEF IsSeq
<1> HIDE DEF S
<1>2. T \in Seq(S) /\ Len(T) = Len(s) - 1
  BY <1>1
<1>3. IsSeq(T)
  BY <1>2, SeqIs
<1>4. \A i \in 1 .. Len(s) - 1 : T[i] = s[i + 1]
  BY <1>1
<1> QED
  BY <1>1, <1>2, <1>3, <1>4

LEMMA RemoveFirstIs ==
  ASSUME NEW s, IsSeq(s), s # <<>>
  PROVE  RemoveAt(s, 1) = Tail(s)
<1> DEFINE S == {s[i] : i \in 1 .. Len(s)}
<1>1. s \in Seq(S) /\ Len(s) \in Nat /\ Len(s) > 0
  BY SeqOfElements DEF IsSeq
<1> HIDE DEF S
<1>2. SubSeq(s, 1, 1 - 1) = <<>>
  BY <1>1
<1>3. SubSeq(s, 1 + 1, Len(s)) = Tail(s)
  BY <1>1
<1>4. <<>> \o Tail(s) = Tail(s)
  BY <1>1
<1> QED
  BY <1>2, <1>3, <1>4 DEF RemoveAt

\* The values that FlattenSeq goes through.
FlattenTrace(F, q) ==
  /\ F[1] = q[1] /\ \A i \in 2 .. Len(q) : F[i] = F[i - 1] \o q[i]
  /\ FlattenSeq(q) = F[Len(q)]

LEMMA FlattenSeqTrace ==
  ASSUME NEW q, Len(q) \in Nat, Len(q) > 0
  PROVE  \E F : FlattenTrace(F, q)
<1> DEFINE N == Len(q)
           Eq(h, n) == h = [i \in 1 .. n |-> IF i = 1 THEN q[i] ELSE h[i - 1] \o q[i]]
           K == {n \in Nat : \E h : Eq(h, n)}
<1>1. 0 \in K
  <2> DEFINE h == [i \in 1 .. 0 |-> 0]
  <2>1. Eq(h, 0)
    OBVIOUS
  <2> QED
    BY <2>1
<1>2. ASSUME NEW n \in 0 .. N - 1, n \in K
      PROVE  n + 1 \in K
  <2>1. n \in Nat /\ n + 1 \in Nat
    OBVIOUS
  <2>2. PICK h : Eq(h, n)
    BY <1>2
  <2> DEFINE g == [i \in 1 .. n + 1 |->
                     IF i = n + 1 THEN IF i = 1 THEN q[i] ELSE h[i - 1] \o q[i] ELSE h[i]]
  <2>3. ASSUME NEW i \in 1 .. n + 1
        PROVE  g[i] = IF i = 1 THEN q[i] ELSE g[i - 1] \o q[i]
    <3>1. CASE i = 1
      BY <2>2, <2>1, <3>1
    <3>2. CASE i # 1
      <4>1. i - 1 \in 1 .. n + 1 /\ i - 1 # n + 1 /\ i - 1 \in 1 .. n
        BY <2>1, <3>2
      <4>2. g[i - 1] = h[i - 1]
        BY <4>1
      <4>3. CASE i = n + 1
        BY <3>2, <4>2, <4>3
      <4>4. CASE i # n + 1
        <5>1. i \in 1 .. n
          BY <2>1, <4>4
        <5>2. h[i] = h[i - 1] \o q[i]
          BY <2>2, <3>2, <5>1
        <5> QED
          BY <3>2, <4>2, <4>4, <5>2
      <4> QED
        BY <4>3, <4>4
    <3> QED
      BY <3>1, <3>2
  <2>4. g = [i \in 1 .. n + 1 |-> g[i]]
    OBVIOUS
  <2> HIDE DEF g
  <2>5. Eq(g, n + 1)
    BY <2>3, <2>4
  <2> HIDE DEF Eq
  <2> QED
    BY <2>1, <2>5
<1> HIDE DEF K
<1>3. N \in K
  <2>1. N \in Nat
    OBVIOUS
  <2> HIDE DEF N, Eq
  <2>2. \A n \in 0 .. N : n \in K
    BY <1>1, <1>2, <2>1, InductionUpTo
  <2> QED
    BY <2>1, <2>2
<1> DEFINE F == CHOOSE h : Eq(h, N)
<1>4. \E h : Eq(h, N)
  BY <1>3 DEF K
<1>5. Eq(F, N)
  <2> HIDE DEF Eq
  <2> QED
    BY <1>4
<1>6. FlattenSeq(q) = F[N]
  BY DEF FlattenSeq
<1> HIDE DEF F
<1>7. \A i \in 1 .. N : F[i] = IF i = 1 THEN q[i] ELSE F[i - 1] \o q[i]
  BY <1>5
<1>8. F[1] = q[1]
  BY <1>7
<1>9. ASSUME NEW i \in 2 .. N PROVE F[i] = F[i - 1] \o q[i]
  <2>1. i \in 1 .. N /\ i # 1
    OBVIOUS
  <2> QED
    BY <1>7, <2>1
<1> QED
  BY <1>6, <1>8, <1>9 DEF FlattenTrace
=============================================================================
