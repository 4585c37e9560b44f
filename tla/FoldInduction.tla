---------------------------- MODULE FoldInduction ----------------------------
(***************************************************************************)
(* Induction over data, for the proofs about folds.  tlapm's provers do    *)
(* not instantiate a theorem's operator parameter, so the principles are   *)
(* about sets, and Op is a constant of this module: a module that folds    *)
(* instantiates it.                                                        *)
(***************************************************************************)
EXTENDS Naturals, FiniteSets, SequencesExt, FiniteSetTheorems, TLAPS

CONSTANT Op(_, _, _)  \* the step of a fold, with a parameter of the whole fold

Fold(p, b, s) == FoldLeft(LAMBDA v, x : Op(p, v, x), b, s)
-----------------------------------------------------------------------------
(* A set with 0 and the successors of its numbers has every number: those   *)
(* up to one it lacks would be closed under predecessor, and so mapped one  *)
(* to one into fewer.                                                       *)
LEMMA NatSetInduction ==
  ASSUME NEW S, 0 \in S, \A n \in Nat : n \in S => n + 1 \in S
  PROVE  Nat \subseteq S
<1> SUFFICES ASSUME NEW m \in Nat, m \notin S
             PROVE  FALSE
  OBVIOUS
<1> DEFINE T == {i \in 0..m : i \notin S}
           f == [i \in T |-> i - 1]
<1>1. \A i \in T : i - 1 \in T \ {m}
  <2>1. SUFFICES ASSUME NEW i \in T
                 PROVE  i - 1 \in T \ {m}
    OBVIOUS
  <2>2. i \in 1..m /\ i - 1 \in Nat /\ (i - 1) + 1 = i
    OBVIOUS
  <2> QED
    BY <2>2
<1>2. f \in [T -> T \ {m}]
  BY <1>1
<1>3. IsFiniteSet(T) /\ Cardinality(T) \in Nat
  <2>1. T \in SUBSET (0..m) /\ 0 \in Int /\ m \in Int
    OBVIOUS
  <2> HIDE DEF T
  <2> QED
    BY <2>1, FS_Interval, FS_Subset, FS_CardinalityType
<1>4. IsFiniteSet(T \ {m}) /\ Cardinality(T \ {m}) = Cardinality(T) - 1
  <2>1. m \in T
    OBVIOUS
  <2> HIDE DEF T
  <2> QED
    BY <1>3, <2>1, FS_RemoveElement
<1>5. Cardinality(T \ {m}) < Cardinality(T)
  <2> HIDE DEF T
  <2> QED
    BY <1>3, <1>4
<1>6. \E x, y \in T : x # y /\ f[x] = f[y]
  <2> HIDE DEF f, T
  <2> QED
    BY <1>2, <1>3, <1>4, <1>5, FS_PigeonHole
<1> QED
  BY <1>6

(* A set of numbers that has any has a least one.                           *)
LEMMA LeastNumber ==
  ASSUME NEW X \in SUBSET Nat, X # {}
  PROVE  \E x \in X : \A y \in X : x <= y
<1> SUFFICES ASSUME \A x \in X : \E y \in X : y < x
             PROVE  FALSE
  <2>1. \A x, y \in X : ~(x <= y) => y < x
    OBVIOUS
  <2> QED
    BY <2>1
<1> DEFINE N == {n \in Nat : \A x \in X : n <= x}
<1>1. 0 \in N
  OBVIOUS
<1>2. ASSUME NEW n \in Nat, n \in N
      PROVE  n + 1 \in N
  <2>1. n \notin X
    BY <1>2
  <2>2. ASSUME NEW x \in X
        PROVE  n + 1 <= x
    BY <1>2, <2>1
  <2> QED
    BY <2>2
<1>3. Nat \subseteq N
  <2> HIDE DEF N
  <2> QED
    BY <1>1, <1>2, NatSetInduction
<1>4. PICK x \in X : x \in Nat
  OBVIOUS
<1> QED
  BY <1>3, <1>4

(* A set with the empty sequence and every extension of its sequences by    *)
(* one element has every sequence.                                          *)
LEMMA SeqSetInduction ==
  ASSUME NEW T, NEW S, <<>> \in S,
         \A s \in Seq(T), x \in T : s \in S => Append(s, x) \in S
  PROVE  Seq(T) \subseteq S
<1> DEFINE N == {n \in Nat : \A s \in Seq(T) : Len(s) = n => s \in S}
<1>1. 0 \in N
  OBVIOUS
<1>2. ASSUME NEW n \in Nat, n \in N
      PROVE  n + 1 \in N
  <2> SUFFICES ASSUME NEW s \in Seq(T), Len(s) = n + 1
               PROVE  s \in S
    OBVIOUS
  <2> DEFINE r == SubSeq(s, 1, n)
  <2>1. r \in Seq(T) /\ Len(r) = n /\ s[n + 1] \in T
    OBVIOUS
  <2>2. s = Append(r, s[n + 1])
    OBVIOUS
  <2>3. r \in S
    BY <1>2, <2>1
  <2> HIDE DEF r
  <2> QED
    BY <2>1, <2>2, <2>3
<1>3. Nat \subseteq N
  <2> HIDE DEF N
  <2> QED
    BY <1>1, <1>2, NatSetInduction
<1> QED
  BY <1>3
-----------------------------------------------------------------------------
(* What the sets that Fold descends through are.                            *)
Descends(p, b, s, D, g) ==
  g = [S \in SUBSET D |-> IF S = {} THEN b ELSE Op(p, g[S \ {Max(S)}], s[Max(S)])]

(* The last element of a prefix is taken first.                             *)
LEMMA MaxOfPrefix ==
  ASSUME NEW n \in Nat, NEW S \in SUBSET (1..(n + 1)), n + 1 \in S
  PROVE  Max(S) = n + 1
<1> DEFINE P(x) == x \in S /\ \A y \in S : x >= y
<1>1. P(n + 1)
  OBVIOUS
<1>2. \A x : P(x) => x = n + 1
  OBVIOUS
<1>3. Max(S) = CHOOSE x : P(x)
  BY DEF Max
<1> HIDE DEF P
<1> QED
  BY <1>1, <1>2, <1>3, Zenon

(* A fold is the value at its whole domain of what satisfies Descends,      *)
LEMMA FoldIsDescent ==
  ASSUME NEW p, NEW b, NEW s
  PROVE  Fold(p, b, s) = (CHOOSE g : Descends(p, b, s, DOMAIN s, g))[DOMAIN s]
BY SMT DEF Fold, FoldLeft, MapThenFoldSet, Descends

(* which exists, by induction over the length of the domain.                *)
LEMMA DescentExists ==
  ASSUME NEW p, NEW b, NEW s, NEW n \in Nat
  PROVE  \E g : Descends(p, b, s, 1..n, g)
<1> DEFINE N == {m \in Nat : \E g : Descends(p, b, s, 1..m, g)}
<1>1. 0 \in N
  <2> DEFINE g == [S \in SUBSET (1..0) |-> b]
  <2>1. SUBSET (1..0) = {{}}
    OBVIOUS
  <2>2. Descends(p, b, s, 1..0, g)
    BY <2>1 DEF Descends
  <2> QED
    BY <2>2
<1>2. ASSUME NEW m \in Nat, m \in N
      PROVE  m + 1 \in N
  <2>1. PICK g : Descends(p, b, s, 1..m, g)
    BY <1>2
  <2> DEFINE Step(f, S) == IF S = {} THEN b ELSE Op(p, f[S \ {Max(S)}], s[Max(S)])
             D == SUBSET (1..(m + 1))
             h == [S \in D |-> IF S \in SUBSET (1..m) THEN g[S] ELSE Op(p, g[S \ {m + 1}], s[m + 1])]
             k == [S \in D |-> Step(h, S)]
  <2>2. ASSUME NEW S \in D
        PROVE  h[S] = Step(h, S)
    <3>1. CASE S \in SUBSET (1..m)
      <4>1. h[S] = g[S] /\ g[S] = Step(g, S)
        BY <2>1, <3>1 DEF Descends
      <4>2. S \ {Max(S)} \in SUBSET (1..m) /\ S \ {Max(S)} \in D
        BY <3>1
      <4> QED
        BY <4>1, <4>2
    <3>2. CASE S \notin SUBSET (1..m)
      <4>1. m + 1 \in S /\ S # {}
        BY <3>2
      <4>2. Max(S) = m + 1
        BY <4>1, MaxOfPrefix
      <4>3. S \ {m + 1} \in SUBSET (1..m) /\ S \ {m + 1} \in D
        OBVIOUS
      <4>4. h[S] = Op(p, g[S \ {m + 1}], s[m + 1]) /\ h[S \ {m + 1}] = g[S \ {m + 1}]
        BY <3>2, <4>3
      <4> QED
        BY <4>1, <4>2, <4>4
    <3> QED
      BY <3>1, <3>2
  <2>3. h = [S \in D |-> h[S]] /\ k = [S \in D |-> k[S]] /\ \A S \in D : k[S] = Step(h, S)
    OBVIOUS
  <2>4. h = k
    <3> HIDE DEF h, k, D, Step
    <3> QED
      BY <2>2, <2>3
  <2>5. Descends(p, b, s, 1..(m + 1), h)
    <3> HIDE DEF h
    <3> QED
      BY <2>4 DEF Descends
  <2> HIDE DEF h
  <2> QED
    BY <2>5
<1>3. Nat \subseteq N
  <2> HIDE DEF N
  <2> QED
    BY <1>1, <1>2, NatSetInduction
<1> QED
  BY <1>3

(* A fold is reached through the folds of the prefixes.                     *)
Reached(p, b, s, g) ==
  /\ Fold(p, b, s) = g[1..Len(s)] /\ g[{}] = b
  /\ \A n \in 1..Len(s) : g[1..n] = Op(p, g[1..(n - 1)], s[n])

(* For each sequence the values on the way to its fold.                     *)
LEMMA FoldReached ==
  ASSUME NEW p, NEW b, NEW T, NEW s \in Seq(T)
  PROVE  \E g : Reached(p, b, s, g)
<1> DEFINE g == CHOOSE h : Descends(p, b, s, DOMAIN s, h)
<1>1. DOMAIN s = 1..Len(s) /\ Len(s) \in Nat
  OBVIOUS
<1>2. Descends(p, b, s, 1..Len(s), g)
  <2>1. \E h : Descends(p, b, s, DOMAIN s, h)
    BY <1>1, DescentExists
  <2> QED
    BY <1>1, <2>1, Zenon
<1>3. Fold(p, b, s) = g[1..Len(s)]
  BY <1>1, FoldIsDescent
<1> HIDE DEF g
<1>4. g[{}] = b
  BY <1>2 DEF Descends
<1>5. ASSUME NEW n \in 1..Len(s)
      PROVE  g[1..n] = Op(p, g[1..(n - 1)], s[n])
  <2>1. n - 1 \in Nat /\ (n - 1) + 1 = n /\ 1..n \in SUBSET (1..n) /\ n \in 1..n
    OBVIOUS
  <2>2. Max(1..n) = n
    BY <2>1, MaxOfPrefix
  <2>3. (1..n) \ {n} = 1..(n - 1) /\ n \in 1..n /\ 1..n \in SUBSET (1..Len(s))
    <3>1. n \in Nat /\ 1 <= n /\ Len(s) \in Nat /\ n <= Len(s)
      OBVIOUS
    <3> QED
      BY <3>1
  <2> QED
    BY <1>2, <2>2, <2>3 DEF Descends
<1> QED
  BY <1>3, <1>4, <1>5 DEF Reached

(* Folding nothing returns the base.                                        *)
LEMMA FoldEmpty ==
  ASSUME NEW p, NEW b
  PROVE  Fold(p, b, <<>>) = b
<1>1. <<>> \in Seq({}) /\ Len(<<>>) = 0 /\ 1..0 = {}
  OBVIOUS
<1>2. PICK g : Reached(p, b, <<>>, g)
  BY <1>1, FoldReached
<1> QED
  BY <1>1, <1>2 DEF Reached

(* Folding one element more is one step more.                               *)
LEMMA FoldAppend ==
  ASSUME NEW p, NEW b, NEW T, NEW s \in Seq(T), NEW x \in T
  PROVE  Fold(p, b, Append(s, x)) = Op(p, Fold(p, b, s), x)
<1> DEFINE t == Append(s, x)
<1>1. /\ t \in Seq(T) /\ Len(t) = Len(s) + 1 /\ t[Len(s) + 1] = x /\ Len(s) \in Nat
      /\ \A i \in 1..Len(s) : t[i] = s[i]
  OBVIOUS
<1> HIDE DEF t
<1>2. PICK g : Reached(p, b, s, g)
  BY FoldReached
<1>3. PICK h : Reached(p, b, t, h)
  BY <1>1, FoldReached
<1> DEFINE N == {n \in Nat : n <= Len(s) => g[1..n] = h[1..n]}
<1>4. 0 \in N
  <2>1. 1..0 = {}
    OBVIOUS
  <2> QED
    BY <1>2, <1>3, <2>1 DEF Reached
<1>5. ASSUME NEW n \in Nat, n \in N
      PROVE  n + 1 \in N
  <2> SUFFICES ASSUME n + 1 <= Len(s)
               PROVE  g[1..(n + 1)] = h[1..(n + 1)]
    OBVIOUS
  <2>1. n + 1 \in 1..Len(s) /\ n + 1 \in 1..Len(t) /\ (n + 1) - 1 = n
    BY <1>1
  <2>2. g[1..n] = h[1..n]
    BY <1>5, <2>1
  <2> QED
    BY <1>1, <1>2, <1>3, <2>1, <2>2 DEF Reached
<1>6. Nat \subseteq N
  <2> HIDE DEF N
  <2> QED
    BY <1>4, <1>5, NatSetInduction
<1>7. g[1..Len(s)] = h[1..Len(s)]
  BY <1>1, <1>6
<1>8. Len(t) \in 1..Len(t) /\ Len(t) - 1 = Len(s)
  BY <1>1
<1>9. Fold(p, b, t) = Op(p, h[1..Len(s)], x)
  BY <1>1, <1>3, <1>8 DEF Reached
<1> QED
  BY <1>2, <1>7, <1>9 DEF t, Reached

(* A fold stays in a set that its steps do not leave.                       *)
LEMMA FoldStays ==
  ASSUME NEW p, NEW b, NEW T, NEW s \in Seq(T), NEW V, b \in V,
         \A v \in V, x \in T : Op(p, v, x) \in V
  PROVE  Fold(p, b, s) \in V
<1> DEFINE S == {r \in Seq(T) : Fold(p, b, r) \in V}
<1>1. <<>> \in S
  BY FoldEmpty
<1>2. \A r \in Seq(T), x \in T : r \in S => Append(r, x) \in S
  BY FoldAppend
<1>3. Seq(T) \subseteq S
  <2> HIDE DEF S
  <2> QED
    BY <1>1, <1>2, SeqSetInduction
<1> QED
  BY <1>3
=============================================================================
