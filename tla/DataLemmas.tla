------------------------------ MODULE DataLemmas ------------------------------
(***************************************************************************)
(* Facts about data that the proofs of this project share: induction,      *)
(* stated about sets instead of predicates so that it can be applied to    *)
(* any set the proofs name; powers of two and sums; and what the provers   *)
(* of module Wesolowski compute and its verifier accepts, for every number *)
(* of iterations.                                                          *)
(***************************************************************************)
EXTENDS Wesolowski, FiniteSets, FiniteSetTheorems, FunctionTheorems, SequenceTheorems,
        WellFoundedInduction, TLAPS

----------------------------------------------------------------------------
(***************************************************************************)
(* Induction                                                               *)
(***************************************************************************)

\* A set of naturals that is not empty has a least one.
LEMMA LeastNatural ==
  ASSUME NEW T, T \subseteq Nat, T # {}
  PROVE  \E x \in T : \A y \in T : x <= y
<1> DEFINE R == OpToRel(<, Nat)
<1>1. IsWellFoundedOn(R, Nat)
  BY NatLessThanWellFounded
<1>2. PICK x \in T : \A y \in T : <<y, x>> \notin R
  <2> HIDE DEF R
  <2> QED BY <1>1, WFMin
<1>3. R = {ss \in Nat \X Nat : ss[1] < ss[2]}
  BY Zenon DEF OpToRel
<1>4. ASSUME NEW y \in T PROVE x <= y
  <2>1. x \in Nat /\ y \in Nat
    BY <1>4
  <2>2. <<y, x>> \notin {ss \in Nat \X Nat : ss[1] < ss[2]}
    BY <1>2, <1>3, <1>4, Zenon
  <2> QED BY <2>1, <2>2, SMT
<1> QED BY <1>4

\* A set that has 0, and with a number the next one, has all naturals.
LEMMA InductiveSet ==
  ASSUME NEW T, 0 \in T, \A n \in Nat : n \in T => n + 1 \in T
  PROVE  Nat \subseteq T
<1> SUFFICES ASSUME Nat \ T # {} PROVE FALSE
  OBVIOUS
<1>1. PICK least \in Nat \ T : \A y \in Nat \ T : least <= y
  BY LeastNatural
<1>2. least # 0 /\ least - 1 \in Nat
  BY <1>1
<1>3. least - 1 \in T
  BY <1>1, <1>2
<1> QED BY <1>1, <1>2, <1>3

\* A set that has every natural whose predecessors it has, has all of them.
LEMMA StrongInductiveSet ==
  ASSUME NEW T, \A n \in Nat : (\A m \in 0 .. n - 1 : m \in T) => n \in T
  PROVE  Nat \subseteq T
<1> SUFFICES ASSUME Nat \ T # {} PROVE FALSE
  OBVIOUS
<1>1. PICK least \in Nat \ T : \A y \in Nat \ T : least <= y
  BY LeastNatural
<1>2. \A m \in 0 .. least - 1 : m \in T
  BY <1>1
<1> QED BY <1>1, <1>2

\* A bounded set of naturals that is not empty has a greatest one.
LEMMA GreatestNatural ==
  ASSUME NEW T, T \subseteq Nat, T # {}, NEW bound \in Nat,
         \A x \in T : x <= bound
  PROVE  \E x \in T : \A y \in T : y <= x
<1> DEFINE D == {bound - x : x \in T}
<1>1. D \subseteq Nat /\ D # {}
  <2>1. \A x \in T : bound - x \in Nat
    OBVIOUS
  <2>2. D \subseteq Nat
    BY <2>1
  <2>3. PICK x \in T : TRUE
    OBVIOUS
  <2>4. bound - x \in D
    OBVIOUS
  <2> QED BY <2>2, <2>4
<1>2. PICK d \in D : \A y \in D : d <= y
  BY <1>1, LeastNatural
<1>3. PICK x \in T : d = bound - x
  BY <1>2
<1>4. ASSUME NEW y \in T PROVE y <= x
  <2>1. d <= bound - y
    BY <1>2
  <2> QED BY <1>3, <2>1
<1> QED BY <1>4

\* f begins with first, and D gives every value from the one before.
Recurs(f, N, first, D) ==
  f[0] = first /\ \A i \in 1 .. N : f[i] = D[<<i, f[i - 1]>>]

\* A function on 0 .. N may be defined by recursion.
LEMMA RecursiveFunction ==
  ASSUME NEW V, NEW first \in V, NEW N \in Nat, NEW D \in [(1 .. N) \X V -> V]
  PROVE  \E f \in [0 .. N -> V] : Recurs(f, N, first, D)
<1> DEFINE G(n) == \E f \in [0 .. n -> V] :
             f[0] = first /\ \A i \in 1 .. n : f[i] = D[<<i, f[i - 1]>>]
           T == {n \in Nat : n <= N => G(n)}
<1>1. 0 \in T
  <2> DEFINE f == [i \in 0 .. 0 |-> first]
  <2>1. f \in [0 .. 0 -> V] /\ f[0] = first
    OBVIOUS
  <2>2. \A i \in 1 .. 0 : FALSE
    OBVIOUS
  <2>3. G(0)
    <3> HIDE DEF f
    <3> QED BY <2>1, <2>2
  <2> QED BY <2>3
<1>2. ASSUME NEW n \in Nat, n \in T PROVE n + 1 \in T
  <2> SUFFICES ASSUME n + 1 <= N PROVE G(n + 1)
    OBVIOUS
  <2>1. PICK f \in [0 .. n -> V] :
          f[0] = first /\ \A i \in 1 .. n : f[i] = D[<<i, f[i - 1]>>]
    BY <1>2
  <2>2. n + 1 \in 1 .. N /\ f[n] \in V
    BY <2>1
  <2>3. D[<<n + 1, f[n]>>] \in V
    BY <2>2
  <2> DEFINE g == [i \in 0 .. n + 1 |-> IF i = n + 1 THEN D[<<n + 1, f[n]>>] ELSE f[i]]
  <2>4. g \in [0 .. n + 1 -> V]
    BY <2>3
  <2>5. g[0] = first
    BY <2>1
  <2>6. ASSUME NEW i \in 1 .. n + 1 PROVE g[i] = D[<<i, g[i - 1]>>]
    <3>1. CASE i = n + 1
      <4>1. g[i] = D[<<n + 1, f[n]>>]
        BY <3>1
      <4>2. g[i - 1] = f[n]
        BY <3>1
      <4> QED BY <3>1, <4>1, <4>2
    <3>2. CASE i \in 1 .. n
      <4>1. g[i] = f[i] /\ g[i - 1] = f[i - 1]
        BY <3>2
      <4> QED BY <3>2, <4>1, <2>1
    <3> QED BY <3>1, <3>2
  <2> HIDE DEF g
  <2> QED BY <2>4, <2>5, <2>6
<1>3. Nat \subseteq T
  <2> HIDE DEF T
  <2> QED BY <1>1, <1>2, InductiveSet
<1>4. G(N)
  BY <1>3
<1> QED BY <1>4 DEF Recurs

\* A finite set of naturals has an element with n smaller ones, for every n below
\* its size.
LEMMA ElementOfRank ==
  ASSUME NEW A, A \subseteq Nat, IsFiniteSet(A), NEW n \in Nat, n < Cardinality(A)
  PROVE  \E a \in A : Cardinality({b \in A : b < a}) = n
<1> DEFINE Below(a) == {b \in A : b < a}
           T == {m \in Nat : m < Cardinality(A) =>
                   \E a \in A : Cardinality(Below(a)) = m}
<1>1. /\ Cardinality(A) \in Nat
      /\ \A a : /\ IsFiniteSet(Below(a)) /\ Cardinality(Below(a)) \in Nat
               /\ IsFiniteSet({b \in A : b > a})
  <2>1. \A a : Below(a) \in SUBSET A /\ {b \in A : b > a} \in SUBSET A
    OBVIOUS
  <2> QED BY <2>1, FS_Subset, FS_CardinalityType
<1>2. 0 \in T
  <2> SUFFICES ASSUME 0 < Cardinality(A)
               PROVE  \E a \in A : Cardinality(Below(a)) = 0
    OBVIOUS
  <2>1. A # {}
    BY FS_EmptySet
  <2>2. PICK a \in A : \A b \in A : a <= b
    BY <2>1, LeastNatural
  <2>3. Below(a) = {}
    <3>1. \A b \in A : ~(b < a)
      BY <2>2
    <3> QED BY <3>1
  <2> QED BY <2>3, FS_EmptySet
<1>3. ASSUME NEW m \in Nat, m \in T PROVE m + 1 \in T
  <2> SUFFICES ASSUME m + 1 < Cardinality(A)
               PROVE  \E a \in A : Cardinality(Below(a)) = m + 1
    OBVIOUS
  <2>1. PICK a \in A : Cardinality(Below(a)) = m
    BY <1>1, <1>3
  <2> DEFINE U == Below(a) \union {a}
             Above == {b \in A : b > a}
  <2>2. IsFiniteSet(U) /\ Cardinality(U) = m + 1
    <3>1. a \notin Below(a)
      OBVIOUS
    <3>2. IsFiniteSet(Below(a))
      BY <1>1
    <3> HIDE DEF Below
    <3> QED BY <2>1, <3>1, <3>2, FS_AddElement
  <2>3. Above # {}
    <3> SUFFICES ASSUME Above = {} PROVE FALSE
      OBVIOUS
    <3>1. A = U
      <4>1. \A b \in A : b < a \/ b = a
        OBVIOUS
      <4> QED BY <4>1
    <3> HIDE DEF U
    <3> QED BY <3>1, <2>2, <1>1
  <2>4. PICK next \in Above : \A b \in Above : next <= b
    <3>1. Above \subseteq Nat
      OBVIOUS
    <3> HIDE DEF Above
    <3> QED BY <2>3, <3>1, LeastNatural
  <2>5. Below(next) = U
    <3>1. \A b \in A : b < next <=> b < a \/ b = a
      BY <2>4
    <3> QED BY <3>1
  <2> QED BY <2>2, <2>4, <2>5
<1>4. n \in T
  <2> HIDE DEF T
  <2> QED BY <1>2, <1>3, InductiveSet
<1> QED BY <1>4

\* The first of N numbers is unit, and each is ratio times the one before.
Geometric(f, N, unit, ratio) ==
  f = [i \in 0 .. N - 1 |-> IF i = 0 THEN unit ELSE ratio * f[i - 1]]

\* There are such numbers.
LEMMA GeometricExists ==
  ASSUME NEW N \in Nat \ {0}, NEW unit \in Nat \ {0}, NEW ratio \in Nat \ {0}
  PROVE  \E f : Geometric(f, N, unit, ratio)
<1> DEFINE V == Nat \ {0}
           D == [p \in (1 .. N) \X V |-> ratio * p[2]]
<1>1. D \in [(1 .. N) \X V -> V]
  OBVIOUS
<1>2. PICK g \in [0 .. N -> V] : Recurs(g, N, unit, D)
  <2>1. N \in Nat /\ unit \in V
    OBVIOUS
  <2> HIDE DEF D, V
  <2> QED BY <1>1, <2>1, RecursiveFunction
<1> DEFINE f == [i \in 0 .. N - 1 |-> g[i]]
<1>3. ASSUME NEW i \in 0 .. N - 1 PROVE f[i] = IF i = 0 THEN unit ELSE ratio * f[i - 1]
  <2>1. CASE i = 0
    BY <1>2, <2>1 DEF Recurs
  <2>2. CASE i # 0
    <3>1. i \in 1 .. N /\ i - 1 \in 0 .. N - 1 /\ i - 1 \in 0 .. N
      BY <2>2
    <3>2. g[i] = D[<<i, g[i - 1]>>] /\ <<i, g[i - 1]>> \in (1 .. N) \X V
      BY <1>2, <3>1 DEF Recurs
    <3>3. D[<<i, g[i - 1]>>] = ratio * g[i - 1]
      BY <3>2
    <3> QED BY <2>2, <3>1, <3>2, <3>3
  <2> QED BY <2>1, <2>2
<1>4. Geometric(f, N, unit, ratio)
  BY <1>3 DEF Geometric
<1> QED BY <1>4

\* They are positive, and each divides the next.
LEMMA GeometricGrows ==
  ASSUME NEW f, NEW N \in Nat \ {0}, NEW unit \in Nat \ {0}, NEW ratio \in Nat \ {0},
         Geometric(f, N, unit, ratio)
  PROVE  /\ \A i \in 0 .. N - 1 : f[i] \in Nat \ {0} /\ f[i] >= unit
         /\ f[0] = unit
         /\ \A i \in 1 .. N - 1 : f[i] = ratio * f[i - 1]
<1>1. \A i \in 0 .. N - 1 : f[i] = IF i = 0 THEN unit ELSE ratio * f[i - 1]
  BY Zenon DEF Geometric
<1> DEFINE T == {i \in Nat : i \in 0 .. N - 1 => f[i] \in Nat \ {0} /\ f[i] >= unit}
<1>2. 0 \in T
  BY <1>1
<1>3. ASSUME NEW i \in Nat, i \in T PROVE i + 1 \in T
  <2> SUFFICES ASSUME i + 1 \in 0 .. N - 1 PROVE f[i + 1] \in Nat \ {0} /\ f[i + 1] >= unit
    OBVIOUS
  <2>1. f[i + 1] = ratio * f[i] /\ f[i] \in Nat \ {0} /\ f[i] >= unit
    BY <1>1, <1>3
  <2> DEFINE x == f[i]
  <2>2. x \in Nat \ {0} /\ x >= unit
    BY <2>1
  <2> HIDE DEF x
  <2>3. ratio * x \in Nat \ {0} /\ ratio * x >= x
    BY <2>2
  <2> QED BY <2>1, <2>2, <2>3 DEF x
<1>4. Nat \subseteq T
  <2> HIDE DEF T
  <2> QED BY <1>2, <1>3, InductiveSet
<1> QED BY <1>1, <1>4

----------------------------------------------------------------------------
(***************************************************************************)
(* Powers of two                                                           *)
(***************************************************************************)

\* The subsets of a set with one more element are twice as many.
LEMMA PowerOfTwo ==
  ASSUME NEW n \in Nat
  PROVE  2^n \in Nat \ {0} /\ 2^(n + 1) = 2 * 2^n
<1> DEFINE S == 1 .. n
           e == n + 1
           A == SUBSET S
           B == {X \union {e} : X \in A}
<1>1. IsFiniteSet(A) /\ Cardinality(A) = 2^n /\ Cardinality(A) \in Nat
  <2>1. IsFiniteSet(S) /\ Cardinality(S) = n
    BY FS_Interval
  <2>2. IsFiniteSet(A) /\ Cardinality(A) = 2^Cardinality(S)
    BY <2>1, FS_SUBSET
  <2> HIDE DEF S
  <2> QED BY <2>1, <2>2, FS_CardinalityType
<1>2. IsFiniteSet(B) /\ Cardinality(B) = Cardinality(A)
  <2> DEFINE f == [X \in A |-> X \union {e}]
  <2>1. f \in [A -> B]
    OBVIOUS
  <2>2. \A X \in A : e \notin X
    OBVIOUS
  <2>3. \A X, Y \in A : f[X] = f[Y] => X = Y
    <3> SUFFICES ASSUME NEW X \in A, NEW Y \in A, f[X] = f[Y] PROVE X = Y
      OBVIOUS
    <3>1. X \union {e} = Y \union {e} /\ e \notin X /\ e \notin Y
      BY <2>2
    <3> HIDE DEF e
    <3> QED BY <3>1
  <2>4. \A Z \in B : \E X \in A : f[X] = Z
    OBVIOUS
  <2>5. ExistsBijection(A, B)
    <3> HIDE DEF f, A, B
    <3>1. f \in Bijection(A, B)
      BY <2>1, <2>3, <2>4, Fun_IsBij
    <3> QED BY <3>1 DEF ExistsBijection
  <2> HIDE DEF A, B, f
  <2> QED BY <1>1, <2>5, FS_Bijection
<1>3. A \intersect B = {}
  OBVIOUS
<1>4. A \union B = SUBSET (1 .. n + 1)
  <2>1. A \subseteq SUBSET (1 .. n + 1) /\ B \subseteq SUBSET (1 .. n + 1)
    <3>1. S \subseteq 1 .. n + 1 /\ e \in 1 .. n + 1
      OBVIOUS
    <3> HIDE DEF S, e
    <3> QED BY <3>1
  <2>2. ASSUME NEW X \in SUBSET (1 .. n + 1), X \notin A PROVE X \in B
    <3>1. e \in X
      BY <2>2
    <3>2. X \ {e} \in A
      OBVIOUS
    <3>3. (X \ {e}) \union {e} = X
      BY <3>1
    <3> HIDE DEF A, e
    <3> QED BY <3>2, <3>3
  <2> QED BY <2>1, <2>2
<1>5. Cardinality(SUBSET (1 .. n + 1)) = 2^(n + 1)
  <2>1. IsFiniteSet(1 .. n + 1) /\ Cardinality(1 .. n + 1) = n + 1
    BY FS_Interval
  <2> QED BY <2>1, FS_SUBSET
<1>6. Cardinality(A \union B) = Cardinality(A) + Cardinality(B)
  <2>1. Cardinality(A \intersect B) = 0
    BY <1>3, FS_EmptySet
  <2> HIDE DEF A, B
  <2>2. Cardinality(A \union B) = Cardinality(A) + Cardinality(B) - Cardinality(A \intersect B)
    BY <1>1, <1>2, FS_Union
  <2> QED BY <1>1, <1>2, <2>1, <2>2
<1>7. Cardinality(A) # 0
  <2>1. {} \in A
    OBVIOUS
  <2> HIDE DEF A
  <2> QED BY <1>1, <2>1, FS_EmptySet
<1> HIDE DEF A, B
<1> DEFINE p == 2^n
           q == 2^(n + 1)
<1>8. p = Cardinality(A) /\ q = 2 * Cardinality(A)
  <2>1. Cardinality(A \union B) = 2 * Cardinality(A)
    BY <1>1, <1>2, <1>6
  <2>2. q = Cardinality(A \union B)
    BY <1>4, <1>5
  <2>3. p = Cardinality(A)
    BY <1>1
  <2> HIDE DEF p, q
  <2> QED BY <2>1, <2>2, <2>3
<1> QED BY <1>1, <1>7, <1>8

\* 2^0 is 1, and exponents add up.
LEMMA PowerOfZero == 2^0 = 1
OBVIOUS

LEMMA PowerOfSum ==
  ASSUME NEW m \in Nat, NEW n \in Nat
  PROVE  2^(m + n) = 2^m * 2^n
<1> DEFINE T == {i \in Nat : 2^(m + i) = 2^m * 2^i}
<1>1. 0 \in T
  <2>1. 2^m * 2^0 = 2^m /\ m + 0 = m
    BY PowerOfTwo, PowerOfZero
  <2> QED BY <2>1
<1>2. ASSUME NEW i \in Nat, i \in T PROVE i + 1 \in T
  <2> DEFINE a == 2^m
             b == 2^i
             c == 2^(m + i)
             d == 2^(i + 1)
             e == 2^(m + (i + 1))
  <2>1. a \in Nat /\ b \in Nat /\ c = a * b /\ d = 2 * b
    BY <1>2, PowerOfTwo
  <2>2. e = 2 * c
    <3>1. m + (i + 1) = (m + i) + 1 /\ m + i \in Nat
      OBVIOUS
    <3> QED BY <3>1, PowerOfTwo
  <2>3. e = a * d
    <3> HIDE DEF a, b, c, d, e
    <3>1. a * (2 * b) = 2 * (a * b)
      BY <2>1
    <3> QED BY <2>1, <2>2, <3>1
  <2> QED BY <2>3
<1>3. Nat \subseteq T
  <2> HIDE DEF T
  <2> QED BY <1>1, <1>2, InductiveSet
<1> QED BY <1>3

\* The same for an exponent that is a sum.
LEMMA PowerSplit ==
  ASSUME NEW m \in Nat, NEW n \in Nat, NEW e, e = m + n
  PROVE  2^e = 2^m * 2^n /\ 2^e \in Nat /\ 2^m \in Nat /\ 2^n \in Nat
BY PowerOfSum, PowerOfTwo

----------------------------------------------------------------------------
(***************************************************************************)
(* PartialSums                                                                    *)
(***************************************************************************)

Terms(f, n) == \A i \in 0 .. n - 1 : f[i] \in Int

\* The function that SumOf defines by recursion.
PartialSums(h, f, n) ==
  h = [i \in 0 .. n |-> IF i = 0 THEN GroupIdentity ELSE h[i - 1] + f[i - 1]]

\* The recursion of SumOf is well defined.
LEMMA PartialSumsExist ==
  ASSUME NEW n \in Nat, NEW f, Terms(f, n)
  PROVE  \E h : /\ SumOf(f, n) = h[n] /\ h[0] = 0
                /\ \A i \in 0 .. n : h[i] \in Int
                /\ \A i \in 1 .. n : h[i] = h[i - 1] + f[i - 1]
<1> DEFINE More(i, v) == v + f[i - 1]
           D == [p \in (1 .. n) \X Int |-> More(p[1], p[2])]
<1>0. \A i \in 1 .. n : f[i - 1] \in Int
  BY DEF Terms
<1>1. D \in [(1 .. n) \X Int -> Int]
  <2>1. ASSUME NEW i \in 1 .. n, NEW v \in Int PROVE More(i, v) \in Int
    BY <1>0
  <2> HIDE DEF More
  <2> QED BY <2>1
<1>2. PICK g \in [0 .. n -> Int] : Recurs(g, n, 0, D)
  <2>1. 0 \in Int
    OBVIOUS
  <2> HIDE DEF D
  <2> QED BY <1>1, <2>1, RecursiveFunction
<1>3. ASSUME NEW i \in 1 .. n PROVE g[i] = More(i, g[i - 1])
  <2>1. i - 1 \in 0 .. n
    OBVIOUS
  <2>2. <<i, g[i - 1]>> \in (1 .. n) \X Int
    BY <2>1
  <2>3. g[i] = D[<<i, g[i - 1]>>]
    BY <1>2, Zenon DEF Recurs
  <2> HIDE DEF More
  <2> QED BY <2>2, <2>3
<1>4. g[0] = 0
  BY <1>2 DEF Recurs
<1>5. PartialSums(g, f, n)
  <2>1. ASSUME NEW i \in 0 .. n PROVE g[i] = IF i = 0 THEN 0 ELSE More(i, g[i - 1])
    <3>1. i # 0 => i \in 1 .. n
      OBVIOUS
    <3> HIDE DEF More
    <3> QED BY <1>3, <1>4, <3>1
  <2>2. g = [i \in 0 .. n |-> IF i = 0 THEN 0 ELSE More(i, g[i - 1])]
    <3> HIDE DEF More
    <3> QED BY <2>1
  <2> QED BY <2>2, Zenon DEF PartialSums, GroupIdentity
<1> DEFINE h == CHOOSE x : PartialSums(x, f, n)
<1>6. PartialSums(h, f, n)
  BY <1>5, Zenon
<1>7. SumOf(f, n) = h[n]
  BY Zenon DEF SumOf, PartialSums
<1>8. \A i \in 0 .. n : h[i] = IF i = 0 THEN 0 ELSE h[i - 1] + f[i - 1]
  <2> HIDE DEF h
  <2> QED BY <1>6, Zenon DEF PartialSums, GroupIdentity
<1> HIDE DEF h
<1> DEFINE T == {i \in Nat : i <= n => h[i] \in Int}
<1>9. 0 \in T
  BY <1>8
<1>10. ASSUME NEW i \in Nat, i \in T PROVE i + 1 \in T
  <2> SUFFICES ASSUME i + 1 <= n PROVE h[i + 1] \in Int
    OBVIOUS
  <2>1. i + 1 \in 1 .. n /\ i + 1 \in 0 .. n /\ (i + 1) - 1 = i /\ i + 1 # 0
    OBVIOUS
  <2>2. h[i + 1] = h[i] + f[i] /\ f[i] \in Int
    BY <1>0, <1>8, <2>1
  <2> QED BY <1>10, <2>2
<1>11. Nat \subseteq T
  <2> HIDE DEF T
  <2> QED BY <1>9, <1>10, InductiveSet
<1>12. \A i \in 0 .. n : h[i] \in Int
  BY <1>11
<1>13. \A i \in 1 .. n : h[i] = h[i - 1] + f[i - 1]
  BY <1>8
<1>14. h[0] = 0
  BY <1>8
<1> QED BY <1>7, <1>12, <1>13, <1>14

\* Two sums whose terms are the same are the same.
LEMMA PartialSumsAgree ==
  ASSUME NEW n \in Nat, NEW f, NEW g
  PROVE  \A a, b : /\ a[0] = b[0]
                   /\ \A i \in 1 .. n : a[i] = a[i - 1] + f[i - 1]
                   /\ \A i \in 1 .. n : b[i] = b[i - 1] + g[i - 1]
                   /\ \A i \in 0 .. n - 1 : f[i] = g[i]
                   => a[n] = b[n]
<1> SUFFICES ASSUME NEW a, NEW b, a[0] = b[0],
                    \A i \in 1 .. n : a[i] = a[i - 1] + f[i - 1],
                    \A i \in 1 .. n : b[i] = b[i - 1] + g[i - 1],
                    \A i \in 0 .. n - 1 : f[i] = g[i]
             PROVE  a[n] = b[n]
  OBVIOUS
<1> DEFINE T == {i \in Nat : i <= n => a[i] = b[i]}
<1>1. 0 \in T
  OBVIOUS
<1>2. ASSUME NEW i \in Nat, i \in T PROVE i + 1 \in T
  <2> SUFFICES ASSUME i + 1 <= n PROVE a[i + 1] = b[i + 1]
    OBVIOUS
  <2>1. i + 1 \in 1 .. n /\ i \in 0 .. n - 1 /\ (i + 1) - 1 = i
    OBVIOUS
  <2>2. a[i + 1] = a[i] + f[i] /\ b[i + 1] = b[i] + g[i] /\ f[i] = g[i] /\ a[i] = b[i]
    BY <1>2, <2>1
  <2> QED BY <2>2
<1>3. Nat \subseteq T
  <2> HIDE DEF T
  <2> QED BY <1>1, <1>2, InductiveSet
<1> QED BY <1>3

\* PartialSums are integers and begin with 0; one more term is added at the end.
LEMMA SumType ==
  ASSUME NEW n \in Nat, NEW f, Terms(f, n)
  PROVE  SumOf(f, n) \in Int
BY PartialSumsExist

LEMMA SumOfNone == \A f : SumOf(f, 0) = 0
<1> SUFFICES ASSUME NEW f PROVE SumOf(f, 0) = 0
  OBVIOUS
<1>1. Terms(f, 0)
  BY DEF Terms
<1> QED BY <1>1, PartialSumsExist

LEMMA SumOfMore ==
  ASSUME NEW n \in Nat, NEW f, Terms(f, n + 1)
  PROVE  /\ SumOf(f, n + 1) = SumOf(f, n) + f[n]
         /\ SumOf(f, n) \in Int /\ f[n] \in Int
<1>1. Terms(f, n) /\ f[n] \in Int
  BY DEF Terms
<1>2. PICK a : /\ SumOf(f, n) = a[n] /\ a[0] = 0
               /\ \A i \in 1 .. n : a[i] = a[i - 1] + f[i - 1]
  BY <1>1, PartialSumsExist
<1>3. PICK b : /\ SumOf(f, n + 1) = b[n + 1] /\ b[0] = 0
               /\ \A i \in 1 .. n + 1 : b[i] = b[i - 1] + f[i - 1]
  BY PartialSumsExist
<1>4. a[n] = b[n]
  <2>1. \A i \in 1 .. n : b[i] = b[i - 1] + f[i - 1]
    BY <1>3
  <2> QED BY <1>2, <1>3, <2>1, PartialSumsAgree
<1>5. b[n + 1] = b[n] + f[n]
  <2>1. n + 1 \in 1 .. n + 1 /\ (n + 1) - 1 = n
    OBVIOUS
  <2> QED BY <1>3, <2>1
<1>6. SumOf(f, n) \in Int
  BY <1>1, SumType
<1> QED BY <1>1, <1>2, <1>3, <1>4, <1>5, <1>6

\* A sum depends on its terms only.
LEMMA SameSum ==
  ASSUME NEW n \in Nat, NEW f, NEW g, Terms(f, n), \A i \in 0 .. n - 1 : f[i] = g[i]
  PROVE  SumOf(f, n) = SumOf(g, n)
<1>1. Terms(g, n)
  BY DEF Terms
<1>2. PICK a : /\ SumOf(f, n) = a[n] /\ a[0] = 0
               /\ \A i \in 1 .. n : a[i] = a[i - 1] + f[i - 1]
  BY PartialSumsExist
<1>3. PICK b : /\ SumOf(g, n) = b[n] /\ b[0] = 0
               /\ \A i \in 1 .. n : b[i] = b[i - 1] + g[i - 1]
  BY <1>1, PartialSumsExist
<1> QED BY <1>2, <1>3, PartialSumsAgree

\* The sum of two sums, term by term.
LEMMA SumAdded ==
  ASSUME NEW n \in Nat, NEW f, NEW g, NEW h, Terms(f, n), Terms(g, n),
         \A i \in 0 .. n - 1 : h[i] = f[i] + g[i]
  PROVE  SumOf(h, n) = SumOf(f, n) + SumOf(g, n)
<1>0. Terms(h, n)
  BY DEF Terms
<1> DEFINE T == {i \in Nat : i <= n => SumOf(h, i) = SumOf(f, i) + SumOf(g, i)}
<1>1. 0 \in T
  BY SumOfNone
<1>2. ASSUME NEW i \in Nat, i \in T PROVE i + 1 \in T
  <2> SUFFICES ASSUME i + 1 <= n PROVE SumOf(h, i + 1) = SumOf(f, i + 1) + SumOf(g, i + 1)
    OBVIOUS
  <2>1. Terms(f, i + 1) /\ Terms(g, i + 1) /\ Terms(h, i + 1)
    BY <1>0 DEF Terms
  <2>2. h[i] = f[i] + g[i] /\ SumOf(h, i) = SumOf(f, i) + SumOf(g, i)
    BY <1>2
  <2>3. /\ SumOf(f, i + 1) = SumOf(f, i) + f[i] /\ SumOf(f, i) \in Int /\ f[i] \in Int
        /\ SumOf(g, i + 1) = SumOf(g, i) + g[i] /\ SumOf(g, i) \in Int /\ g[i] \in Int
        /\ SumOf(h, i + 1) = SumOf(h, i) + h[i]
    BY <2>1, SumOfMore
  <2> QED BY <2>2, <2>3
<1>3. Nat \subseteq T
  <2> HIDE DEF T
  <2> QED BY <1>1, <1>2, InductiveSet
<1> QED BY <1>3

\* A common factor of the terms.
LEMMA SumScaled ==
  ASSUME NEW n \in Nat, NEW f, NEW g, NEW c \in Int, Terms(f, n),
         \A i \in 0 .. n - 1 : g[i] = c * f[i]
  PROVE  SumOf(g, n) = c * SumOf(f, n)
<1>0. Terms(g, n)
  BY DEF Terms
<1> DEFINE T == {i \in Nat : i <= n => SumOf(g, i) = c * SumOf(f, i)}
<1>1. 0 \in T
  BY SumOfNone
<1>2. ASSUME NEW i \in Nat, i \in T PROVE i + 1 \in T
  <2> SUFFICES ASSUME i + 1 <= n PROVE SumOf(g, i + 1) = c * SumOf(f, i + 1)
    OBVIOUS
  <2>1. Terms(f, i + 1) /\ Terms(g, i + 1)
    BY <1>0 DEF Terms
  <2>2. g[i] = c * f[i] /\ SumOf(g, i) = c * SumOf(f, i)
    BY <1>2
  <2>3. /\ SumOf(f, i + 1) = SumOf(f, i) + f[i] /\ SumOf(f, i) \in Int /\ f[i] \in Int
        /\ SumOf(g, i + 1) = SumOf(g, i) + g[i]
    BY <2>1, SumOfMore
  <2>4. \A u, v \in Int : c * u + c * v = c * (u + v)
    OBVIOUS
  <2> QED BY <2>2, <2>3, <2>4
<1>3. Nat \subseteq T
  <2> HIDE DEF T
  <2> QED BY <1>1, <1>2, InductiveSet
<1> QED BY <1>3

\* A sum in two parts.
LEMMA SumSplit ==
  ASSUME NEW m \in Nat, NEW n \in Nat, NEW f, NEW g, Terms(f, m + n),
         \A i \in 0 .. n - 1 : g[i] = f[m + i]
  PROVE  SumOf(f, m + n) = SumOf(f, m) + SumOf(g, n)
<1>0. Terms(g, n) /\ Terms(f, m)
  BY DEF Terms
<1> DEFINE T == {i \in Nat : i <= n => SumOf(f, m + i) = SumOf(f, m) + SumOf(g, i)}
<1>1. 0 \in T
  <2>1. SumOf(f, m) \in Int /\ m + 0 = m
    BY <1>0, SumType
  <2> QED BY <2>1, SumOfNone
<1>2. ASSUME NEW i \in Nat, i \in T PROVE i + 1 \in T
  <2> SUFFICES ASSUME i + 1 <= n PROVE SumOf(f, m + (i + 1)) = SumOf(f, m) + SumOf(g, i + 1)
    OBVIOUS
  <2>1. Terms(f, (m + i) + 1) /\ Terms(g, i + 1) /\ m + i \in Nat /\ m + (i + 1) = (m + i) + 1
    BY <1>0 DEF Terms
  <2>2. g[i] = f[m + i] /\ SumOf(f, m + i) = SumOf(f, m) + SumOf(g, i)
    BY <1>2
  <2>3. /\ SumOf(f, (m + i) + 1) = SumOf(f, m + i) + f[m + i] /\ f[m + i] \in Int
        /\ SumOf(g, i + 1) = SumOf(g, i) + g[i] /\ SumOf(g, i) \in Int
    BY <2>1, SumOfMore
  <2>4. SumOf(f, m) \in Int
    BY <1>0, SumType
  <2> QED BY <2>1, <2>2, <2>3, <2>4
<1>3. Nat \subseteq T
  <2> HIDE DEF T
  <2> QED BY <1>1, <1>2, InductiveSet
<1> QED BY <1>3

\* A table of m rows and n columns, summed row by row and column by column.
Cells(F, m, n) == \A i \in 0 .. m - 1, j \in 0 .. n - 1 : F[<<i, j>>] \in Int
RowSum(F, i, n) == SumOf([j \in 0 .. n - 1 |-> F[<<i, j>>]], n)
ColumnSum(F, j, m) == SumOf([i \in 0 .. m - 1 |-> F[<<i, j>>]], m)
ByRows(F, m, n) == SumOf([i \in 0 .. m - 1 |-> RowSum(F, i, n)], m)
ByColumns(F, m, n) == SumOf([j \in 0 .. n - 1 |-> ColumnSum(F, j, m)], n)

LEMMA LineSums ==
  ASSUME NEW m \in Nat, NEW n \in Nat, NEW F, Cells(F, m, n)
  PROVE  /\ \A i \in 0 .. m - 1 : RowSum(F, i, n) \in Int
         /\ \A j \in 0 .. n - 1 : ColumnSum(F, j, m) \in Int
<1>1. ASSUME NEW i \in 0 .. m - 1 PROVE RowSum(F, i, n) \in Int
  <2> DEFINE f == [j \in 0 .. n - 1 |-> F[<<i, j>>]]
  <2>1. Terms(f, n)
    BY DEF Terms, Cells
  <2> HIDE DEF f
  <2>2. SumOf(f, n) \in Int
    BY <2>1, SumType
  <2> QED BY <2>2 DEF f, RowSum
<1>2. ASSUME NEW j \in 0 .. n - 1 PROVE ColumnSum(F, j, m) \in Int
  <2> DEFINE f == [i \in 0 .. m - 1 |-> F[<<i, j>>]]
  <2>1. Terms(f, m)
    BY DEF Terms, Cells
  <2> HIDE DEF f
  <2>2. SumOf(f, m) \in Int
    BY <2>1, SumType
  <2> QED BY <2>2 DEF f, ColumnSum
<1> QED BY <1>1, <1>2

\* Both ways give the same.
LEMMA SumSwapped ==
  ASSUME NEW m \in Nat, NEW n \in Nat, NEW F, Cells(F, m, n)
  PROVE  ByRows(F, m, n) = ByColumns(F, m, n) /\ ByRows(F, m, n) \in Int
<1> DEFINE row == [i \in 0 .. m - 1 |-> RowSum(F, i, n)]
           line(j) == [i \in 0 .. m - 1 |-> F[<<i, j>>]]
           column(k) == [j \in 0 .. n - 1 |-> SumOf(line(j), k)]
           T == {k \in Nat : k <= m => SumOf(row, k) = SumOf(column(k), n)}
<1>0. Terms(row, m) /\ \A j \in 0 .. n - 1 : Terms(line(j), m)
  <2>1. Terms(row, m)
    BY LineSums DEF Terms
  <2>2. ASSUME NEW j \in 0 .. n - 1 PROVE Terms(line(j), m)
    BY DEF Terms, Cells
  <2> QED BY <2>1, <2>2
<1>1. 0 \in T
  <2>1. SumOf(row, 0) = 0
    BY SumOfNone
  <2> DEFINE c == column(0)
  <2>2. \A j \in 0 .. n - 1 : c[j] = 0
    BY SumOfNone
  <2>3. Terms(c, n) /\ \A j \in 0 .. n - 1 : c[j] = c[j] + c[j]
    <3> HIDE DEF c
    <3> QED BY <2>2 DEF Terms
  <2>4. SumOf(c, n) = SumOf(c, n) + SumOf(c, n) /\ SumOf(c, n) \in Int
    <3> HIDE DEF c
    <3> QED BY <2>3, SumAdded, SumType
  <2> QED BY <2>1, <2>4
<1>2. ASSUME NEW k \in Nat, k \in T PROVE k + 1 \in T
  <2> SUFFICES ASSUME k + 1 <= m PROVE SumOf(row, k + 1) = SumOf(column(k + 1), n)
    OBVIOUS
  <2> DEFINE next == [j \in 0 .. n - 1 |-> F[<<k, j>>]]
             c == column(k)
             d == column(k + 1)
  <2>1. Terms(row, k + 1) /\ \A j \in 0 .. n - 1 : Terms(line(j), k + 1)
    <3> HIDE DEF row, line
    <3> QED BY <1>0 DEF Terms
  <2>2. SumOf(row, k + 1) = SumOf(row, k) + row[k]
    <3> HIDE DEF row
    <3> QED BY <2>1, SumOfMore
  <2>3. row[k] = SumOf(next, n)
    BY DEF RowSum
  <2>4. ASSUME NEW j \in 0 .. n - 1
        PROVE  d[j] = c[j] + next[j] /\ c[j] \in Int /\ next[j] \in Int
    <3> DEFINE l == line(j)
    <3>1. /\ SumOf(l, k + 1) = SumOf(l, k) + l[k]
          /\ SumOf(l, k) \in Int /\ l[k] \in Int
      <4>1. Terms(l, k + 1)
        BY <2>1
      <4> HIDE DEF l
      <4> QED BY <4>1, SumOfMore
    <3>2. l[k] = F[<<k, j>>]
      OBVIOUS
    <3>3. d[j] = SumOf(l, k + 1) /\ c[j] = SumOf(l, k) /\ next[j] = F[<<k, j>>]
      OBVIOUS
    <3> HIDE DEF l, d, c, next
    <3> QED BY <3>1, <3>2, <3>3
  <2>5. SumOf(d, n) = SumOf(c, n) + SumOf(next, n)
    <3> HIDE DEF d, c, next
    <3>1. Terms(c, n) /\ Terms(next, n)
      BY <2>4 DEF Terms
    <3> QED BY <2>4, <3>1, SumAdded
  <2>6. SumOf(row, k) = SumOf(c, n)
    BY <1>2
  <2> HIDE DEF row, column, next
  <2> QED BY <2>2, <2>3, <2>5, <2>6
<1>3. Nat \subseteq T
  <2> HIDE DEF T
  <2> QED BY <1>1, <1>2, InductiveSet
<1>4. SumOf(row, m) = SumOf(column(m), n)
  BY <1>3
<1>5. SumOf(row, m) = ByRows(F, m, n) /\ SumOf(column(m), n) = ByColumns(F, m, n)
  BY Zenon DEF ByRows, ByColumns, ColumnSum
<1>6. SumOf(row, m) \in Int
  <2> HIDE DEF row
  <2> QED BY <1>0, SumType
<1> QED BY <1>4, <1>5, <1>6

\* A table whose rows follow each other in f.
RowsFollow(F, m, n, f) == \A i \in 0 .. m - 1, j \in 0 .. n - 1 : F[<<i, j>>] = f[i * n + j]

LEMMA SumOfRows ==
  ASSUME NEW m \in Nat, NEW n \in Nat, NEW F, NEW f, Terms(f, m * n), RowsFollow(F, m, n, f)
  PROVE  ByRows(F, m, n) = SumOf(f, m * n) /\ Cells(F, m, n)
<1> USE DEF RowsFollow
<1>0. ASSUME NEW i \in 0 .. m - 1 PROVE i * n + n <= m * n /\ i * n \in Nat
  <2>1. (m - i - 1) * n >= 0
    OBVIOUS
  <2>2. (m - i - 1) * n = m * n - i * n - n
    OBVIOUS
  <2> QED BY <2>1, <2>2
<1>1. ASSUME NEW i \in 0 .. m - 1, NEW j \in 0 .. n - 1 PROVE F[<<i, j>>] \in Int
  <2> DEFINE p == i * n
             q == m * n
  <2>1. p + n <= q /\ p \in Nat /\ q \in Nat
    BY <1>0
  <2>2. p + j \in 0 .. q - 1
    <3> HIDE DEF p, q
    <3> QED BY <2>1
  <2> QED BY <2>2 DEF Terms
<1>2. Cells(F, m, n)
  BY <1>1 DEF Cells
<1> DEFINE row == [i \in 0 .. m - 1 |-> RowSum(F, i, n)]
           T == {k \in Nat : k <= m => SumOf(row, k) = SumOf(f, k * n)}
<1>3. Terms(row, m)
  BY <1>2, LineSums DEF Terms
<1>4. 0 \in T
  <2>1. 0 * n = 0
    OBVIOUS
  <2> QED BY <2>1, SumOfNone
<1>5. ASSUME NEW k \in Nat, k \in T PROVE k + 1 \in T
  <2> SUFFICES ASSUME k + 1 <= m PROVE SumOf(row, k + 1) = SumOf(f, (k + 1) * n)
    OBVIOUS
  <2>0. k \in 0 .. m - 1
    OBVIOUS
  <2> DEFINE p == k * n
             next == [j \in 0 .. n - 1 |-> F[<<k, j>>]]
  <2>1. (k + 1) * n = p + n /\ p \in Nat /\ p + n <= m * n
    BY <1>0, <2>0
  <2>2. SumOf(row, k + 1) = SumOf(row, k) + row[k]
    <3> HIDE DEF row
    <3>1. Terms(row, k + 1)
      BY <1>3 DEF Terms
    <3> QED BY <3>1, SumOfMore
  <2>3. row[k] = SumOf(next, n)
    BY <2>0 DEF RowSum
  <2>4. \A j \in 0 .. n - 1 : next[j] = f[p + j]
    BY <2>0
  <2>5. SumOf(f, p + n) = SumOf(f, p) + SumOf(next, n)
    <3> DEFINE q == m * n
    <3>1. q \in Nat /\ p + n <= q /\ Terms(f, q)
      BY <2>1
    <3> HIDE DEF p, next, q
    <3>2. Terms(f, p + n)
      BY <2>1, <3>1 DEF Terms
    <3> QED BY <2>1, <2>4, <3>2, SumSplit
  <2>6. SumOf(row, k) = SumOf(f, p)
    BY <1>5
  <2> HIDE DEF row, next, p
  <2> QED BY <2>1, <2>2, <2>3, <2>5, <2>6
<1>6. Nat \subseteq T
  <2> HIDE DEF T
  <2> QED BY <1>4, <1>5, InductiveSet
<1>7. SumOf(row, m) = SumOf(f, m * n)
  BY <1>6
<1>8. SumOf(row, m) = ByRows(F, m, n)
  BY Zenon DEF ByRows
<1> QED BY <1>2, <1>7, <1>8

\* Smaller exponents give smaller powers.
LEMMA PowerGrows ==
  ASSUME NEW m \in Nat, NEW n \in Nat, m < n
  PROVE  2^m < 2^n
<1> DEFINE d == n - m - 1
           a == 2^m
           b == 2^d
           c == 2^(m + 1)
           e == 2^n
<1>1. d \in Nat /\ a \in Nat \ {0} /\ b \in Nat \ {0} /\ c = 2 * a
  BY PowerOfTwo
<1>2. e = c * b
  <2>1. n = (m + 1) + d
    OBVIOUS
  <2> QED BY <1>1, <2>1, PowerOfSum
<1> HIDE DEF a, b, c, e
<1>3. (2 * a) * b >= 2 * a
  BY <1>1
<1>4. a < e
  BY <1>1, <1>2, <1>3
<1> QED BY <1>4 DEF a, e

----------------------------------------------------------------------------
(***************************************************************************)
(* The digits of 2^T div B                                                 *)
(***************************************************************************)

\* What a division leaves determines its quotient.
LEMMA QuotientIs ==
  ASSUME NEW a \in Nat, NEW B \in Nat \ {0}, NEW q \in Nat, NEW r \in 0 .. B - 1,
         a = B * q + r
  PROVE  a \div B = q
<1> DEFINE Q == a \div B
           R == a % B
<1>1. Q \in Int /\ R \in 0 .. B - 1 /\ a = B * Q + R
  OBVIOUS
<1> HIDE DEF Q, R
<1>2. B * (q - Q) = R - r
  BY <1>1
<1>3. CASE q >= Q + 1
  <2>1. B * (q - Q) >= B
    BY <1>1, <1>3
  <2> QED BY <1>1, <1>2, <2>1
<1>4. CASE q <= Q - 1
  <2>1. B * (Q - q) >= B
    BY <1>1, <1>4
  <2>2. B * (Q - q) = r - R
    BY <1>1
  <2> QED BY <1>1, <2>1, <2>2
<1>5. q = Q
  BY <1>1, <1>3, <1>4
<1> QED BY <1>5 DEF Q

Quotient(e, B) == 2^e \div B

LEMMA QuotientType ==
  ASSUME NEW e \in Nat, NEW B \in Nat \ {0}
  PROVE  Quotient(e, B) \in Nat
<1> DEFINE p == 2^e
<1>1. p \in Nat
  BY PowerOfTwo
<1> HIDE DEF p
<1>2. p \div B \in Nat
  BY <1>1
<1> QED BY <1>2 DEF Quotient, p

\* A block is the next digit of the quotient, base 2^k: it is below 2^k, which is
\* what GenerateProof tests.
LEMMA BlockIsDigit ==
  ASSUME NEW T \in Nat, NEW k \in Nat, NEW B \in Nat \ {0}, NEW i \in Nat, HasBlock(T, k, i)
  PROVE  /\ GetBlock(i, k, T, B) \in 0 .. 2^k - 1
         /\ GetBlock(i, k, T, B) = Quotient(T - k * i, B) - 2^k * Quotient(T - k * (i + 1), B)
         /\ T - k * i \in Nat /\ T - k * (i + 1) \in Nat
<1> DEFINE e == T - k * (i + 1)
           P == 2^k
           E == 2^e
           q == E \div B
           r == E % B
           b == (r * P) \div B
           s == (r * P) % B
<1>1. e \in Nat /\ T - k * i = e + k
  <2>1. k * (i + 1) = k * i + k /\ k * i \in Nat
    OBVIOUS
  <2> QED BY <2>1 DEF HasBlock
<1>2. P \in Nat \ {0} /\ E \in Nat \ {0}
  BY <1>1, PowerOfTwo
<1>3. 2^(T - k * i) = E * P
  BY <1>1, PowerOfSum
<1>4. GetBlock(i, k, T, B) = b
  BY DEF GetBlock, FastPow
<1> HIDE DEF P, E
<1>5. q \in Nat /\ r \in 0 .. B - 1 /\ E = B * q + r
  BY <1>2
<1> HIDE DEF q, r
<1> DEFINE rP == r * P
<1>6. rP \in Nat /\ rP <= B * P - P
  <2>1. (B - 1 - r) * P >= 0
    BY <1>2, <1>5
  <2>2. (B - 1 - r) * P = B * P - P - r * P
    BY <1>2, <1>5
  <2>3. r * P \in Nat
    BY <1>2, <1>5
  <2> QED BY <1>2, <2>1, <2>2, <2>3
<1> HIDE DEF rP
<1>7. b = rP \div B /\ s = rP % B
  BY DEF rP
<1>8. b \in Nat /\ s \in 0 .. B - 1 /\ rP = B * b + s
  <2>1. \A x \in Nat : x \div B \in Nat /\ x % B \in 0 .. B - 1 /\ x = B * (x \div B) + (x % B)
    OBVIOUS
  <2>2. rP \in Nat
    BY <1>6
  <2> HIDE DEF b, s
  <2> QED BY <1>7, <2>1, <2>2
<1> HIDE DEF b, s
<1>9. b < P
  <2> SUFFICES ASSUME b >= P PROVE FALSE
    BY <1>2, <1>8
  <2>1. B * b >= B * P
    BY <1>2, <1>8
  <2>2. B * P \in Nat /\ B * b \in Nat
    BY <1>2, <1>8
  <2> QED BY <1>2, <1>6, <1>8, <2>1, <2>2
<1>10. E * P = B * (P * q + b) + s
  <2>1. E * P = B * q * P + r * P
    BY <1>2, <1>5
  <2>2. B * (P * q + b) = B * q * P + B * b
    BY <1>2, <1>5, <1>8
  <2>3. B * q * P \in Int /\ B * b \in Int
    BY <1>2, <1>5, <1>8
  <2> QED BY <1>8, <2>1, <2>2, <2>3 DEF rP
<1>11. (E * P) \div B = P * q + b
  <2>1. P * q + b \in Nat /\ E * P \in Nat
    BY <1>2, <1>5, <1>8
  <2> DEFINE EP == E * P
             Qb == P * q + b
  <2>2. EP \in Nat /\ Qb \in Nat /\ EP = B * Qb + s
    BY <1>10, <2>1
  <2> HIDE DEF EP, Qb
  <2>3. EP \div B = Qb
    BY <1>8, <2>2, QuotientIs
  <2> QED BY <2>3 DEF EP, Qb
<1>12. Quotient(e, B) = q
  BY DEF Quotient, q, E
<1>13. Quotient(T - k * i, B) = P * q + b
  BY <1>3, <1>11 DEF Quotient
<1>14. b = Quotient(T - k * i, B) - P * Quotient(e, B)
  <2>1. P * q \in Nat
    BY <1>2, <1>5
  <2> QED BY <1>8, <1>12, <1>13, <2>1
<1>15. GetBlock(i, k, T, B) \in 0 .. P - 1
  BY <1>2, <1>4, <1>8, <1>9
<1>16. T - k * i \in Nat
  BY <1>1
<1> QED BY <1>1, <1>4, <1>14, <1>15, <1>16 DEF P

Digit(m, k, T, B) == IF HasBlock(T, k, m) THEN 2^(k * m) * GetBlock(m, k, T, B) ELSE 0

LEMMA DigitType ==
  ASSUME NEW T \in Nat, NEW k \in Nat, NEW B \in Nat \ {0}, NEW m \in Nat
  PROVE  Digit(m, k, T, B) \in Nat
<1>1. CASE HasBlock(T, k, m)
  <2> DEFINE b == GetBlock(m, k, T, B)
             p == 2^(k * m)
  <2>1. b \in 0 .. 2^k - 1 /\ 2^k \in Nat
    BY <1>1, BlockIsDigit, PowerOfTwo
  <2>2. p \in Nat
    <3>1. k * m \in Nat
      OBVIOUS
    <3> QED BY <3>1, PowerOfTwo
  <2>3. b \in Nat
    <3> HIDE DEF b
    <3> QED BY <2>1
  <2> HIDE DEF b, p
  <2>4. p * b \in Nat
    BY <2>2, <2>3
  <2> QED BY <1>1, <2>4 DEF Digit, b, p
<1> QED BY <1>1 DEF Digit

\* Which digits there are.
LEMMA BlocksBelow ==
  ASSUME NEW T \in Nat, NEW k \in Nat \ {0}, NEW m \in Nat
  PROVE  /\ T \div k \in Nat /\ (HasBlock(T, k, m) <=> m < T \div k)
         /\ T - k * (T \div k) \in 0 .. k - 1
<1> DEFINE n == T \div k
           r == T % k
<1>1. n \in Nat /\ r \in 0 .. k - 1 /\ T = k * n + r
  OBVIOUS
<1> HIDE DEF n, r
<1>2. CASE m < n
  <2>1. k * (n - m - 1) >= 0
    BY <1>1, <1>2
  <2>2. k * (n - m - 1) = k * n - k * (m + 1) /\ k * n \in Nat /\ k * (m + 1) \in Nat
    BY <1>1
  <2>3. T >= k * (m + 1)
    BY <1>1, <2>1, <2>2
  <2> QED BY <1>2, <2>3, <1>1 DEF HasBlock, n
<1>3. CASE ~(m < n)
  <2>1. k * (m - n) >= 0
    BY <1>1, <1>3
  <2>2. k * (m - n) = k * m - k * n /\ k * n \in Nat /\ k * m \in Nat /\ k * (m + 1) = k * m + k
    BY <1>1
  <2>3. T < k * (m + 1)
    BY <1>1, <2>1, <2>2
  <2>4. ~HasBlock(T, k, m)
    BY <2>2, <2>3 DEF HasBlock
  <2> QED BY <1>3, <2>4, <1>1 DEF n
<1>4. T - k * n \in 0 .. k - 1
  <2>1. k * n \in Nat
    BY <1>1
  <2> QED BY <1>1, <2>1
<1> QED BY <1>1, <1>2, <1>3, <1>4 DEF n

\* One digit takes the quotient one step further.
LEMMA DigitStep ==
  ASSUME NEW T \in Nat, NEW k \in Nat, NEW B \in Nat \ {0}, NEW m \in Nat, HasBlock(T, k, m)
  PROVE  Digit(m, k, T, B) = 2^(k * m) * Quotient(T - k * m, B)
                             - 2^(k * (m + 1)) * Quotient(T - k * (m + 1), B)
<1> DEFINE p == 2^(k * m)
           P == 2^k
           q == Quotient(T - k * m, B)
           u == Quotient(T - k * (m + 1), B)
           b == GetBlock(m, k, T, B)
<1>1. b = q - P * u /\ q \in Nat /\ u \in Nat
  <2>1. b = q - P * u /\ T - k * m \in Nat /\ T - k * (m + 1) \in Nat
    BY BlockIsDigit
  <2> QED BY <2>1, QuotientType
<1>2. p \in Nat /\ P \in Nat /\ 2^(k * (m + 1)) = p * P
  <2>1. k * (m + 1) = k * m + k /\ k * m \in Nat
    OBVIOUS
  <2> QED BY <2>1, PowerOfTwo, PowerOfSum
<1>3. Digit(m, k, T, B) = p * b
  BY DEF Digit
<1> HIDE DEF p, P, q, u, b
<1>4. p * (q - P * u) = p * q - (p * P) * u
  BY <1>1, <1>2
<1>5. Digit(m, k, T, B) = p * q - (p * P) * u
  BY <1>1, <1>3, <1>4
<1> QED BY <1>2, <1>5 DEF p, q, u

\* All digits together are 2^T div B, if B is not below 2^k.
LEMMA DigitsAddUp ==
  ASSUME NEW T \in Nat, NEW k \in Nat \ {0}, NEW B \in Nat \ {0}, 2^k <= B,
         NEW M \in Nat, T \div k <= M,
         NEW t, \A m \in 0 .. M - 1 : t[m] = Digit(m, k, T, B)
  PROVE  SumOf(t, M) = Quotient(T, B) /\ Terms(t, M)
<1> DEFINE n == T \div k
           rest(m) == 2^(k * m) * Quotient(T - k * m, B)
<1>0. n \in Nat /\ T - k * n \in 0 .. k - 1 /\ \A m \in Nat : (HasBlock(T, k, m) <=> m < n)
  <2>1. ASSUME NEW m \in Nat
        PROVE  n \in Nat /\ T - k * n \in 0 .. k - 1 /\ (HasBlock(T, k, m) <=> m < n)
    BY BlocksBelow
  <2>2. 0 \in Nat
    OBVIOUS
  <2> HIDE DEF n
  <2> QED BY <2>1, <2>2
<1>1. Terms(t, M)
  <2>1. ASSUME NEW m \in 0 .. M - 1 PROVE t[m] \in Int
    <3>1. m \in Nat /\ t[m] = Digit(m, k, T, B)
      OBVIOUS
    <3>2. Digit(m, k, T, B) \in Nat
      BY <3>1, DigitType
    <3> QED BY <3>1, <3>2
  <2> QED BY <2>1 DEF Terms
<1>2. n <= M
  OBVIOUS
<1> HIDE DEF n
<1>3. ASSUME NEW m \in 0 .. n PROVE T - k * m \in Nat /\ rest(m) \in Int
  <2>1. k * (n - m) >= 0 /\ k * (n - m) = k * n - k * m /\ k * n \in Nat /\ k * m \in Nat
    BY <1>0
  <2>2. T - k * m \in Nat
    BY <1>0, <2>1
  <2> DEFINE p == 2^(k * m)
             q == Quotient(T - k * m, B)
  <2>3. p \in Nat /\ q \in Nat
    BY <2>1, <2>2, PowerOfTwo, QuotientType
  <2>4. p * q \in Int
    <3> HIDE DEF p, q
    <3> QED BY <2>3
  <2> QED BY <2>2, <2>4
<1>4. \A m \in 0 .. n - 1 : t[m] = rest(m) - rest(m + 1)
  <2> SUFFICES ASSUME NEW m \in 0 .. n - 1 PROVE t[m] = rest(m) - rest(m + 1)
    OBVIOUS
  <2>1. m \in Nat /\ m < n /\ m \in 0 .. M - 1
    <3> HIDE DEF n
    <3> QED BY <1>0, <1>2
  <2>2. HasBlock(T, k, m) /\ t[m] = Digit(m, k, T, B)
    BY <1>0, <2>1
  <2> QED BY <2>1, <2>2, DigitStep
<1>5. rest(0) = Quotient(T, B)
  <2>1. k * 0 = 0 /\ T - 0 = T /\ 2^0 = 1
    BY PowerOfZero
  <2>2. rest(0) = 1 * Quotient(T, B)
    BY <2>1
  <2> DEFINE q == Quotient(T, B)
  <2>3. q \in Nat
    BY QuotientType
  <2>4. 1 * q = q
    <3> HIDE DEF q
    <3> QED BY <2>3
  <2> QED BY <2>2, <2>4
<1>6. rest(n) = 0
  <2> DEFINE e == T - k * n
             E == 2^e
             P == 2^k
             p == 2^(k * n)
  <2>1. E < P /\ E \in Nat /\ P <= B /\ P \in Nat /\ p \in Nat
    <3>1. e \in Nat /\ e < k /\ k * n \in Nat
      BY <1>0
    <3> HIDE DEF e
    <3> QED BY <3>1, PowerGrows, PowerOfTwo
  <2>2. E \div B = 0
    <3> HIDE DEF E, P
    <3> QED BY <2>1
  <2>3. Quotient(e, B) = 0
    BY <2>2 DEF Quotient
  <2>4. p * 0 = 0
    <3> HIDE DEF p
    <3> QED BY <2>1
  <2> QED BY <2>3, <2>4
<1> HIDE DEF rest
<1> DEFINE S == {m \in Nat : m <= n => SumOf(t, m) = Quotient(T, B) - rest(m)}
<1>7. 0 \in S
  BY <1>5, SumOfNone, QuotientType
<1>8. ASSUME NEW m \in Nat, m \in S PROVE m + 1 \in S
  <2> SUFFICES ASSUME m + 1 <= n PROVE SumOf(t, m + 1) = Quotient(T, B) - rest(m + 1)
    OBVIOUS
  <2>1. Terms(t, m + 1)
    BY <1>0, <1>1, <1>2 DEF Terms
  <2>2. SumOf(t, m + 1) = SumOf(t, m) + t[m]
    BY <2>1, SumOfMore
  <2>3. m \in 0 .. n - 1 /\ m \in 0 .. n /\ m + 1 \in 0 .. n
    BY <1>0
  <2>4. t[m] = rest(m) - rest(m + 1) /\ rest(m) \in Int /\ rest(m + 1) \in Int
    BY <1>3, <1>4, <2>3
  <2>5. SumOf(t, m) = Quotient(T, B) - rest(m)
    BY <1>0, <1>8
  <2>6. Quotient(T, B) \in Nat
    BY QuotientType
  <2> QED BY <2>2, <2>4, <2>5, <2>6
<1>9. SumOf(t, n) = Quotient(T, B)
  <2>1. Nat \subseteq S
    <3> HIDE DEF S
    <3> QED BY <1>7, <1>8, InductiveSet
  <2>2. Quotient(T, B) \in Nat
    BY QuotientType
  <2> QED BY <1>0, <1>6, <2>1, <2>2
<1> DEFINE U == {i \in Nat : n + i <= M => SumOf(t, n + i) = Quotient(T, B)}
<1>10. 0 \in U
  <2>1. n + 0 = n
    BY <1>0
  <2> QED BY <1>9, <2>1
<1>11. ASSUME NEW i \in Nat, i \in U PROVE i + 1 \in U
  <2> SUFFICES ASSUME n + (i + 1) <= M PROVE SumOf(t, n + (i + 1)) = Quotient(T, B)
    OBVIOUS
  <2>1. n + i \in Nat /\ n + (i + 1) = (n + i) + 1 /\ n + i \in 0 .. M - 1 /\ ~(n + i < n)
    BY <1>0
  <2>2. Terms(t, (n + i) + 1)
    BY <1>1, <2>1 DEF Terms
  <2>3. SumOf(t, (n + i) + 1) = SumOf(t, n + i) + t[n + i]
    BY <2>1, <2>2, SumOfMore
  <2>4. t[n + i] = 0
    <3>1. t[n + i] = Digit(n + i, k, T, B)
      BY <2>1
    <3> QED BY <1>0, <2>1, <3>1 DEF Digit
  <2>5. SumOf(t, n + i) = Quotient(T, B) /\ Quotient(T, B) \in Nat
    <3>1. n + i <= M
      BY <1>0
    <3> QED BY <1>11, <3>1, QuotientType
  <2> QED BY <2>1, <2>3, <2>4, <2>5
<1>12. M - n \in U
  <2>1. Nat \subseteq U
    <3> HIDE DEF U
    <3> QED BY <1>10, <1>11, InductiveSet
  <2> QED BY <1>0, <1>2, <2>1
<1>13. SumOf(t, M) = Quotient(T, B)
  <2>1. n + (M - n) = M
    BY <1>0
  <2> QED BY <1>12, <2>1
<1> QED BY <1>1, <1>13

----------------------------------------------------------------------------
(***************************************************************************)
(* What the provers of module Wesolowski compute                           *)
(***************************************************************************)

\* Two tables, cell by cell.
CellsAdd(H, F, G, m, n) ==
  \A i \in 0 .. m - 1, j \in 0 .. n - 1 : H[<<i, j>>] = F[<<i, j>>] + G[<<i, j>>]

LEMMA RowsAdded ==
  ASSUME NEW m \in Nat, NEW n \in Nat, NEW F, NEW G, NEW H, Cells(F, m, n), Cells(G, m, n),
         CellsAdd(H, F, G, m, n)
  PROVE  ByRows(H, m, n) = ByRows(F, m, n) + ByRows(G, m, n)
<1> USE DEF CellsAdd
<1> DEFINE f == [i \in 0 .. m - 1 |-> RowSum(F, i, n)]
           g == [i \in 0 .. m - 1 |-> RowSum(G, i, n)]
           h == [i \in 0 .. m - 1 |-> RowSum(H, i, n)]
<1>1. Terms(f, m) /\ Terms(g, m)
  BY LineSums DEF Terms
<1>2. ASSUME NEW i \in 0 .. m - 1 PROVE h[i] = f[i] + g[i]
  <2> DEFINE a == [j \in 0 .. n - 1 |-> F[<<i, j>>]]
             b == [j \in 0 .. n - 1 |-> G[<<i, j>>]]
             c == [j \in 0 .. n - 1 |-> H[<<i, j>>]]
  <2>1. Terms(a, n) /\ Terms(b, n)
    BY DEF Terms, Cells
  <2>2. \A j \in 0 .. n - 1 : c[j] = a[j] + b[j]
    OBVIOUS
  <2>3. SumOf(c, n) = SumOf(a, n) + SumOf(b, n)
    <3> HIDE DEF a, b, c
    <3> QED BY <2>1, <2>2, SumAdded
  <2>4. h[i] = SumOf(c, n) /\ f[i] = SumOf(a, n) /\ g[i] = SumOf(b, n)
    BY DEF RowSum
  <2> HIDE DEF a, b, c, f, g, h
  <2> QED BY <2>3, <2>4
<1>3. SumOf(h, m) = SumOf(f, m) + SumOf(g, m)
  <2> HIDE DEF f, g, h
  <2> QED BY <1>1, <1>2, SumAdded
<1> QED BY <1>3, Zenon DEF ByRows

\* The weight of b by its high and its low half, as GenerateProof adds them up.
ByHalves(ys, high, low) ==
  SumOf([b1 \in 0 .. high - 1 |->
           b1 * low * SumOf([b0 \in 0 .. low - 1 |-> ys[b1 * low + b0]], low)], high)
  + SumOf([b0 \in 0 .. low - 1 |->
             b0 * SumOf([b1 \in 0 .. high - 1 |-> ys[b1 * low + b0]], high)], low)

LEMMA HalvesWeighted ==
  ASSUME NEW high \in Nat, NEW low \in Nat, NEW ys, NEW f, Terms(ys, high * low),
         \A b \in 0 .. high * low - 1 : f[b] = b * ys[b]
  PROVE  ByHalves(ys, high, low) = SumOf(f, high * low)
<1> DEFINE Y == [c \in (0 .. high - 1) \X (0 .. low - 1) |-> ys[c[1] * low + c[2]]]
           F == [c \in (0 .. high - 1) \X (0 .. low - 1) |-> c[1] * low * ys[c[1] * low + c[2]]]
           G == [c \in (0 .. high - 1) \X (0 .. low - 1) |-> c[2] * ys[c[1] * low + c[2]]]
           H == [c \in (0 .. high - 1) \X (0 .. low - 1) |-> f[c[1] * low + c[2]]]
           hl == high * low
           p == [b1 \in 0 .. high - 1 |->
                   b1 * low * SumOf([b0 \in 0 .. low - 1 |-> ys[b1 * low + b0]], low)]
           q == [b0 \in 0 .. low - 1 |->
                   b0 * SumOf([b1 \in 0 .. high - 1 |-> ys[b1 * low + b0]], high)]
<1>1. ASSUME NEW i \in 0 .. high - 1, NEW j \in 0 .. low - 1
      PROVE  /\ i * low + j \in 0 .. hl - 1
             /\ Y[<<i, j>>] = ys[i * low + j] /\ Y[<<i, j>>] \in Int
             /\ F[<<i, j>>] = i * low * Y[<<i, j>>]
             /\ G[<<i, j>>] = j * Y[<<i, j>>]
             /\ H[<<i, j>>] = f[i * low + j]
             /\ H[<<i, j>>] = F[<<i, j>>] + G[<<i, j>>]
             /\ F[<<i, j>>] \in Int /\ G[<<i, j>>] \in Int
  <2> DEFINE il == i * low
             y == ys[i * low + j]
  <2>1. il \in Nat /\ hl \in Nat /\ il + low <= hl
    <3>1. (high - i - 1) * low >= 0
      OBVIOUS
    <3>2. (high - i - 1) * low = high * low - i * low - low
      OBVIOUS
    <3> QED BY <3>1, <3>2
  <2>2. il + j \in 0 .. hl - 1
    <3> HIDE DEF il, hl
    <3> QED BY <2>1
  <2>3. y \in Int /\ f[il + j] = (il + j) * y
    BY <2>2 DEF Terms
  <2>4. /\ Y[<<i, j>>] = y /\ F[<<i, j>>] = il * y /\ G[<<i, j>>] = j * y
        /\ H[<<i, j>>] = f[il + j]
    OBVIOUS
  <2>5. (il + j) * y = il * y + j * y /\ il * y \in Int /\ j * y \in Int
    <3> HIDE DEF il, y
    <3> QED BY <2>1, <2>3
  <2>6. y = ys[i * low + j] /\ il = i * low
    OBVIOUS
  <2>7. il + j \in 0 .. hl - 1 /\ y \in Int /\ il * y \in Int /\ j * y \in Int
        /\ H[<<i, j>>] = il * y + j * y
    <3> HIDE DEF y, il, hl, Y, F, G, H
    <3> QED BY <2>2, <2>3, <2>4, <2>5
  <2> HIDE DEF y, il, hl, Y, F, G, H
  <2> QED BY <2>4, <2>6, <2>7, Zenon
<1> HIDE DEF Y, F, G, H
<1>2. Cells(Y, high, low) /\ Cells(F, high, low) /\ Cells(G, high, low)
  BY <1>1 DEF Cells
<1>3. ByRows(H, high, low) = ByRows(F, high, low) + ByRows(G, high, low)
  <2>1. CellsAdd(H, F, G, high, low)
    BY <1>1 DEF CellsAdd
  <2> HIDE DEF p, q, hl
  <2> QED BY <1>2, <2>1, RowsAdded
<1>4. ByRows(H, high, low) = SumOf(f, high * low)
  <2>1. RowsFollow(H, high, low, f)
    BY <1>1 DEF RowsFollow
  <2>2. Terms(f, hl)
    <3>1. ASSUME NEW b \in 0 .. hl - 1 PROVE f[b] \in Int
      <4>1. b \in Int /\ ys[b] \in Int /\ f[b] = b * ys[b]
        BY DEF Terms
      <4> DEFINE y == ys[b]
      <4>2. b \in Int /\ y \in Int /\ f[b] = b * y
        BY <4>1
      <4>3. b * y \in Int
        <5> HIDE DEF y
        <5> QED BY <4>2
      <4> QED BY <4>2, <4>3
    <3> QED BY <3>1 DEF Terms
  <2>3. Terms(f, high * low)
    BY <2>2
  <2> HIDE DEF p, q, hl
  <2> QED BY <2>1, <2>3, SumOfRows, ZenonT(30)
<1>5. SumOf(p, high) = ByRows(F, high, low)
  <2> DEFINE r == [i \in 0 .. high - 1 |-> RowSum(F, i, low)]
  <2>1. Terms(r, high)
    BY <1>2, LineSums DEF Terms
  <2>2. ASSUME NEW i \in 0 .. high - 1 PROVE p[i] = r[i]
    <3> DEFINE a == [j \in 0 .. low - 1 |-> ys[i * low + j]]
               b == [j \in 0 .. low - 1 |-> F[<<i, j>>]]
               c == i * low
    <3>1. Terms(a, low) /\ \A j \in 0 .. low - 1 : b[j] = c * a[j]
      BY <1>1, ZenonT(40) DEF Terms
    <3>2. c \in Int
      OBVIOUS
    <3>3. p[i] = c * SumOf(a, low) /\ r[i] = SumOf(b, low)
      BY DEF RowSum
    <3> HIDE DEF a, b, c
    <3>4. SumOf(b, low) = c * SumOf(a, low)
      BY <3>1, <3>2, SumScaled
    <3> QED BY <3>3, <3>4
  <2>3. SumOf(p, high) = SumOf(r, high)
    <3> HIDE DEF p, r
    <3> QED BY <2>1, <2>2, SameSum
  <2> QED BY <2>3, Zenon DEF ByRows
<1>6. SumOf(q, low) = ByColumns(G, high, low)
  <2> DEFINE r == [j \in 0 .. low - 1 |-> ColumnSum(G, j, high)]
  <2>1. Terms(r, low)
    BY <1>2, LineSums DEF Terms
  <2>2. ASSUME NEW j \in 0 .. low - 1 PROVE q[j] = r[j]
    <3> DEFINE a == [i \in 0 .. high - 1 |-> ys[i * low + j]]
               b == [i \in 0 .. high - 1 |-> G[<<i, j>>]]
    <3>1. Terms(a, high) /\ \A i \in 0 .. high - 1 : b[i] = j * a[i]
      BY <1>1 DEF Terms
    <3>3. q[j] = j * SumOf(a, high) /\ r[j] = SumOf(b, high)
      BY DEF ColumnSum
    <3> HIDE DEF a, b
    <3>4. SumOf(b, high) = j * SumOf(a, high)
      BY <3>1, SumScaled
    <3> QED BY <3>3, <3>4
  <2>3. SumOf(q, low) = SumOf(r, low)
    <3> HIDE DEF q, r
    <3> QED BY <2>1, <2>2, SameSum
  <2> QED BY <2>3, Zenon DEF ByColumns
<1>7. ByColumns(G, high, low) = ByRows(G, high, low)
  BY <1>2, SumSwapped
<1>8. SumOf(p, high) + SumOf(q, low) = SumOf(f, high * low)
  <2> HIDE DEF p, q
  <2> QED BY <1>3, <1>4, <1>5, <1>6, <1>7
<1> QED BY <1>8, Zenon DEF ByHalves

\* Each ys[b] counts b times.
LEMMA WeightedSum ==
  ASSUME NEW k \in Nat, NEW ys, NEW f, Terms(ys, 2^k),
         \A b \in 0 .. 2^k - 1 : f[b] = b * ys[b]
  PROVE  Weighted(ys, k) = SumOf(f, 2^k)
<1> DEFINE h == k \div 2
           high == 2^h
           low == 2^(k - h)
<1>1. h \in Nat /\ k - h \in Nat /\ h + (k - h) = k
  OBVIOUS
<1>2. high \in Nat /\ low \in Nat /\ 2^k = high * low
  <2> HIDE DEF h
  <2>1. 2^(h + (k - h)) = high * low
    BY <1>1, PowerOfSum
  <2> QED BY <1>1, <2>1, PowerOfTwo
<1> HIDE DEF high, low
<1>3. ByHalves(ys, high, low) = SumOf(f, high * low)
  <2>1. Terms(ys, high * low)
    BY <1>2
  <2>2. \A b \in 0 .. high * low - 1 : f[b] = b * ys[b]
    BY <1>2
  <2> QED BY <1>2, <2>1, <2>2, HalvesWeighted
<1>4. Weighted(ys, k) = ByHalves(ys, high, low)
  BY Zenon DEF Weighted, ByHalves, high, low
<1> QED BY <1>2, <1>3, <1>4

\* A sum of zeros.
LEMMA SumOfZeros ==
  ASSUME NEW n \in Nat, NEW f, \A i \in 0 .. n - 1 : f[i] = 0
  PROVE  SumOf(f, n) = 0
<1>1. Terms(f, n) /\ \A i \in 0 .. n - 1 : f[i] = f[i] + f[i]
  BY DEF Terms
<1>2. SumOf(f, n) = SumOf(f, n) + SumOf(f, n) /\ SumOf(f, n) \in Int
  BY <1>1, SumAdded, SumType
<1>3. \A s \in Int : s = s + s => s = 0
  OBVIOUS
<1> QED BY <1>2, <1>3

\* A sum of zeros but for one term.
LEMMA SumOfOneTerm ==
  ASSUME NEW n \in Nat, NEW p \in 0 .. n - 1, NEW f, f[p] \in Int,
         \A i \in 0 .. n - 1 : i # p => f[i] = 0
  PROVE  SumOf(f, n) = f[p]
<1> DEFINE r == n - (p + 1)
           g == [i \in 0 .. r - 1 |-> f[(p + 1) + i]]
<1>1. r \in Nat /\ p \in Nat /\ p + 1 \in Nat /\ (p + 1) + r = n
  OBVIOUS
<1>2. Terms(f, n) /\ Terms(f, p + 1)
  BY DEF Terms
<1>3. SumOf(f, p) = 0
  BY <1>1, SumOfZeros
<1>4. SumOf(f, p + 1) = SumOf(f, p) + f[p]
  BY <1>1, <1>2, SumOfMore
<1>5. SumOf(g, r) = 0
  <2>1. \A i \in 0 .. r - 1 : g[i] = 0
    OBVIOUS
  <2> HIDE DEF g, r
  <2> QED BY <1>1, <2>1, SumOfZeros
<1>6. SumOf(f, (p + 1) + r) = SumOf(f, p + 1) + SumOf(g, r)
  <2>1. \A i \in 0 .. r - 1 : g[i] = f[(p + 1) + i]
    OBVIOUS
  <2>2. Terms(f, (p + 1) + r)
    BY <1>1, <1>2
  <2> HIDE DEF g, r
  <2> QED BY <1>1, <2>1, <2>2, SumSplit
<1> QED BY <1>1, <1>3, <1>4, <1>5, <1>6

\* The number of stored forms, the last of them for a part of the distance.
Limit(T, k, l) == (T + k * l - 1) \div (k * l)

LEMMA LimitCovers ==
  ASSUME NEW T \in Nat, NEW k \in Nat \ {0}, NEW l \in Nat \ {0}
  PROVE  Limit(T, k, l) \in Nat /\ T \div k <= Limit(T, k, l) * l
<1> DEFINE d == k * l
           e == T + d - 1
           m == e \div d
           r == e % d
           n == T \div k
<1>1. d \in Nat \ {0} /\ n \in Nat /\ k * n <= T
  <2>1. d \in Nat \ {0}
    OBVIOUS
  <2>2. T = k * n + (T % k) /\ n \in Nat /\ T % k \in 0 .. k - 1
    OBVIOUS
  <2>3. k * n \in Nat
    BY <2>2
  <2> HIDE DEF n, d
  <2> QED BY <2>1, <2>2, <2>3
<1> HIDE DEF d, n
<1>2. m \in Nat /\ r \in 0 .. d - 1 /\ T + d - 1 = d * m + r
  BY <1>1
<1> HIDE DEF m, r
<1>3. d * m >= T
  <2>1. d * m \in Int
    BY <1>1, <1>2
  <2> QED BY <1>1, <1>2, <2>1
<1>4. n <= m * l
  <2> SUFFICES ASSUME m * l < n PROVE FALSE
    BY <1>1, <1>2
  <2> DEFINE q == m * l
  <2>1. q \in Nat /\ q + 1 <= n
    BY <1>1, <1>2
  <2>2. d * m = k * q
    BY <1>2 DEF d
  <2> HIDE DEF q
  <2>3. k * (n - q - 1) >= 0 /\ k * (n - q - 1) = k * n - k * q - k /\ k * n \in Int /\ k * q \in Int
    BY <1>1, <2>1
  <2> QED BY <1>1, <1>3, <2>2, <2>3
<1> QED BY <1>2, <1>4 DEF Limit, m, n, d

\* What the stored form i counts in the block j.
Counts(g, n, intermediates, j, k, l, T, B) ==
  \A i \in 0 .. n - 1 :
    g[i] = IF HasBlock(T, k, i * l + j) THEN GetBlock(i * l + j, k, T, B) * intermediates[i] ELSE 0

\* Sorted by their blocks and weighted, each stored form counts as often as its block says.
LEMMA CollectedSum ==
  ASSUME NEW T \in Nat, NEW k \in Nat \ {0}, NEW l \in Nat \ {0}, NEW B \in Nat \ {0},
         NEW j \in Nat, NEW intermediates, \A i \in Nat : intermediates[i] \in Int,
         NEW g, Counts(g, Limit(T, k, l), intermediates, j, k, l, T, B)
  PROVE  /\ Weighted(Collected(intermediates, j, k, l, T, B), k) = SumOf(g, Limit(T, k, l))
         /\ Terms(g, Limit(T, k, l))
<1> DEFINE n == Limit(T, k, l)
           P == 2^k
           has(i) == HasBlock(T, k, i * l + j)
           block(i) == GetBlock(i * l + j, k, T, B)
           x(i) == intermediates[i]
           part(b) == [i \in 0 .. n - 1 |-> IF has(i) /\ block(i) = b THEN x(i) ELSE 0]
           ys == Collected(intermediates, j, k, l, T, B)
           f == [b \in 0 .. P - 1 |-> b * ys[b]]
           F == [c \in (0 .. P - 1) \X (0 .. n - 1) |->
                   IF has(c[2]) /\ block(c[2]) = c[1] THEN c[1] * x(c[2]) ELSE 0]
<1>1. n \in Nat /\ P \in Nat
  BY LimitCovers, PowerOfTwo
<1>2. \A b \in 0 .. P - 1 : ys[b] = SumOf(part(b), n)
  BY DEF Collected, Limit, GroupIdentity
<1>3. ASSUME NEW i \in 0 .. n - 1
      PROVE  /\ x(i) \in Int /\ (has(i) => block(i) \in 0 .. P - 1)
             /\ g[i] = IF has(i) THEN block(i) * x(i) ELSE 0
  <2>1. i \in Nat /\ i * l + j \in Nat
    <3>1. i \in Nat
      BY <1>1
    <3> QED BY <3>1
  <2>2. has(i) => block(i) \in 0 .. P - 1
    BY <2>1, BlockIsDigit
  <2>3. g[i] = IF has(i) THEN block(i) * x(i) ELSE 0
    BY DEF Counts
  <2> QED BY <2>1, <2>2, <2>3
<1> HIDE DEF P, n, has, block, x
<1>4. \A b \in 0 .. P - 1 : Terms(part(b), n)
  BY <1>3 DEF Terms
<1>5. ASSUME NEW b \in 0 .. P - 1 PROVE ys[b] \in Int
  <2> DEFINE p == part(b)
  <2>1. Terms(p, n) /\ ys[b] = SumOf(p, n)
    BY <1>2, <1>4
  <2> HIDE DEF p
  <2> QED BY <1>1, <2>1, SumType
<1> HIDE DEF ys
<1>6. Weighted(ys, k) = SumOf(f, P)
  <2>1. Terms(ys, 2^k) /\ \A b \in 0 .. 2^k - 1 : f[b] = b * ys[b]
    BY <1>5 DEF Terms, P
  <2> HIDE DEF f
  <2> QED BY <2>1, WeightedSum DEF P
<1>7. ASSUME NEW b \in 0 .. P - 1, NEW i \in 0 .. n - 1
      PROVE  /\ F[<<b, i>>] = b * part(b)[i] /\ F[<<b, i>>] \in Int
             /\ F[<<b, i>>] = IF has(i) /\ block(i) = b THEN b * x(i) ELSE 0
  <2> DEFINE w == x(i)
  <2>1. w \in Int /\ b \in Int
    BY <1>1, <1>3
  <2>2. b * w \in Int /\ b * 0 = 0
    <3> HIDE DEF w
    <3> QED BY <2>1
  <2>3. F[<<b, i>>] = IF has(i) /\ block(i) = b THEN b * w ELSE 0
    OBVIOUS
  <2>4. part(b)[i] = IF has(i) /\ block(i) = b THEN w ELSE 0
    OBVIOUS
  <2> HIDE DEF w, F, part
  <2> QED BY <2>2, <2>3, <2>4 DEF w
<1> HIDE DEF F, part
<1>8. Cells(F, P, n)
  BY <1>7 DEF Cells
<1>9. SumOf(f, P) = ByRows(F, P, n)
  <2> DEFINE r == [b \in 0 .. P - 1 |-> RowSum(F, b, n)]
  <2>1. Terms(r, P)
    BY <1>1, <1>8, LineSums DEF Terms
  <2>2. ASSUME NEW b \in 0 .. P - 1 PROVE f[b] = r[b]
    <3> DEFINE p == part(b)
               q == [i \in 0 .. n - 1 |-> F[<<b, i>>]]
    <3>1. Terms(p, n) /\ (\A i \in 0 .. n - 1 : q[i] = b * p[i]) /\ b \in Int
      BY <1>1, <1>4, <1>7
    <3>2. f[b] = b * SumOf(p, n) /\ r[b] = SumOf(q, n)
      BY <1>2 DEF RowSum
    <3> HIDE DEF p, q, f, r
    <3>3. SumOf(q, n) = b * SumOf(p, n)
      BY <1>1, <3>1, SumScaled
    <3> QED BY <3>2, <3>3
  <2>3. SumOf(f, P) = SumOf(r, P)
    <3> HIDE DEF f, r
    <3> QED BY <1>1, <2>1, <2>2, SameSum
  <2> QED BY <2>3, Zenon DEF ByRows
<1>10. ASSUME NEW i \in 0 .. n - 1
       PROVE  ColumnSum(F, i, P) = g[i]
  <2> DEFINE q == [b \in 0 .. P - 1 |-> F[<<b, i>>]]
  <2>1. ColumnSum(F, i, P) = SumOf(q, P)
    BY DEF ColumnSum
  <2>2. \A b \in 0 .. P - 1 : q[b] \in Int /\ q[b] = IF has(i) /\ block(i) = b THEN b * x(i) ELSE 0
    BY <1>7
  <2> HIDE DEF q
  <2>3. CASE has(i)
    <3> DEFINE c == block(i)
    <3>1. c \in 0 .. P - 1 /\ g[i] = c * x(i)
      BY <1>3, <2>3
    <3>2. q[c] = c * x(i) /\ q[c] \in Int /\ \A b \in 0 .. P - 1 : b # c => q[b] = 0
      BY <2>2, <2>3, <3>1
    <3> HIDE DEF c
    <3>3. SumOf(q, P) = q[c]
      BY <1>1, <3>1, <3>2, SumOfOneTerm
    <3> QED BY <2>1, <3>1, <3>2, <3>3
  <2>4. CASE ~has(i)
    <3>1. SumOf(q, P) = 0 /\ g[i] = 0
      BY <1>1, <1>3, <2>2, <2>4, SumOfZeros
    <3> QED BY <2>1, <3>1
  <2> QED BY <2>3, <2>4
<1>11. Terms(g, n) /\ SumOf(g, n) = ByColumns(F, P, n)
  <2> DEFINE r == [i \in 0 .. n - 1 |-> ColumnSum(F, i, P)]
  <2>1. Terms(r, n) /\ \A i \in 0 .. n - 1 : g[i] = r[i]
    BY <1>1, <1>8, <1>10, LineSums DEF Terms
  <2>2. Terms(g, n) /\ SumOf(g, n) = SumOf(r, n)
    <3> HIDE DEF r
    <3> QED BY <1>1, <2>1, SameSum DEF Terms
  <2> QED BY <2>2, Zenon DEF ByColumns
<1>12. ByColumns(F, P, n) = ByRows(F, P, n)
  BY <1>1, <1>8, SumSwapped
<1>13. Weighted(ys, k) = SumOf(g, n)
  BY <1>6, <1>9, <1>11, <1>12
<1> QED BY <1>11, <1>13 DEF n, ys

\* The function that Blocks defines by recursion, and that it is well defined.
BlockTurns(x, intermediates, start, len, k, l, T, B) ==
  x = [n \in 0 .. len |->
         IF n = 0 THEN GroupIdentity
         ELSE x[n - 1] * 2^k + Weighted(Collected(intermediates, start - n, k, l, T, B), k)]

\* What the turns add, and what x is after each of them.
TurnsAdd(w, intermediates, start, len, k, l, T, B) ==
  \A n \in 1 .. len :
    w[n] \in Int /\ w[n] = Weighted(Collected(intermediates, start - n, k, l, T, B), k)

TurnsMake(x, w, len, k, result) ==
  /\ result = x[len] /\ x[0] = 0
  /\ \A n \in 0 .. len : x[n] \in Int
  /\ \A n \in 1 .. len : x[n] = x[n - 1] * 2^k + w[n]

LEMMA BlockTurnsExist ==
  ASSUME NEW intermediates, NEW start, NEW len \in Nat, NEW k \in Nat, NEW l, NEW T, NEW B,
         NEW w, TurnsAdd(w, intermediates, start, len, k, l, T, B)
  PROVE  \E x : TurnsMake(x, w, len, k, Blocks(intermediates, start, len, k, l, T, B))
<1> USE DEF TurnsAdd
<1> DEFINE P == 2^k
           More(n, v) == v * P + w[n]
           D == [p \in (1 .. len) \X Int |-> More(p[1], p[2])]
           W(n) == Weighted(Collected(intermediates, start - n, k, l, T, B), k)
<1>0. P \in Int
  BY PowerOfTwo
<1>1. D \in [(1 .. len) \X Int -> Int]
  <2>1. ASSUME NEW n \in 1 .. len, NEW v \in Int PROVE More(n, v) \in Int
    <3>1. v * P \in Int
      <4> HIDE DEF P
      <4> QED BY <1>0
    <3> DEFINE vP == v * P
    <3> HIDE DEF vP
    <3>2. vP \in Int /\ w[n] \in Int
      BY <3>1 DEF vP
    <3>3. vP + w[n] \in Int
      BY <3>2
    <3> QED BY <3>3 DEF vP
  <2> HIDE DEF More
  <2> QED BY <2>1
<1>2. PICK g \in [0 .. len -> Int] : Recurs(g, len, 0, D)
  <2>1. 0 \in Int
    OBVIOUS
  <2> HIDE DEF D
  <2> QED BY <1>1, <2>1, RecursiveFunction
<1>3. ASSUME NEW n \in 1 .. len PROVE g[n] = More(n, g[n - 1])
  <2>1. n - 1 \in 0 .. len
    OBVIOUS
  <2>2. <<n, g[n - 1]>> \in (1 .. len) \X Int
    BY <2>1
  <2>3. g[n] = D[<<n, g[n - 1]>>]
    BY <1>2, Zenon DEF Recurs
  <2> HIDE DEF More
  <2> QED BY <2>2, <2>3
<1>4. g[0] = 0
  BY <1>2 DEF Recurs
<1>5. BlockTurns(g, intermediates, start, len, k, l, T, B)
  <2>1. ASSUME NEW n \in 0 .. len, n # 0 PROVE g[n] = g[n - 1] * 2^k + W(n)
    <3>1. n \in 1 .. len
      BY <2>1
    <3>2. g[n] = g[n - 1] * 2^k + w[n] /\ w[n] = W(n)
      BY <1>3, <3>1
    <3> HIDE DEF W
    <3> QED BY <3>2
  <2>2. g = [n \in 0 .. len |-> IF n = 0 THEN 0 ELSE g[n - 1] * 2^k + W(n)]
    <3> HIDE DEF W
    <3> QED BY <1>4, <2>1
  <2> QED BY <2>2, Zenon DEF BlockTurns, GroupIdentity
<1> DEFINE h == CHOOSE x : BlockTurns(x, intermediates, start, len, k, l, T, B)
<1>6. BlockTurns(h, intermediates, start, len, k, l, T, B)
  BY <1>5, Zenon
<1>7. Blocks(intermediates, start, len, k, l, T, B) = h[len]
  BY Zenon DEF Blocks, BlockTurns
<1>8. \A n \in 0 .. len : h[n] = IF n = 0 THEN 0 ELSE h[n - 1] * 2^k + W(n)
  <2> HIDE DEF h
  <2> QED BY <1>6, Zenon DEF BlockTurns, GroupIdentity
<1> HIDE DEF h
<1>9. ASSUME NEW n \in 1 .. len PROVE h[n] = h[n - 1] * 2^k + w[n]
  <2>1. n \in 0 .. len /\ n # 0 /\ w[n] = W(n)
    OBVIOUS
  <2> HIDE DEF W
  <2> QED BY <1>8, <2>1
<1>10. h[0] = 0
  BY <1>8
<1> DEFINE S == {n \in Nat : n <= len => h[n] \in Int}
<1>11. 0 \in S
  BY <1>10
<1>12. ASSUME NEW n \in Nat, n \in S PROVE n + 1 \in S
  <2> SUFFICES ASSUME n + 1 <= len PROVE h[n + 1] \in Int
    OBVIOUS
  <2>1. n + 1 \in 1 .. len /\ (n + 1) - 1 = n
    OBVIOUS
  <2>2. h[n + 1] = More(n + 1, h[n]) /\ h[n] \in Int /\ w[n + 1] \in Int
    BY <1>9, <1>12, <2>1
  <2> HIDE DEF P
  <2> QED BY <1>0, <2>2, SMTT(30)
<1>13. Nat \subseteq S
  <2> HIDE DEF S
  <2> QED BY <1>11, <1>12, InductiveSet
<1>14. \A n \in 0 .. len : h[n] \in Int
  BY <1>13
<1> QED BY <1>7, <1>9, <1>10, <1>14, Zenon DEF TurnsMake

\* The blocks of the places below start, and what they are of the whole.
PlacesBelow(start, w, g, intermediates, k, l, T, B) ==
  \A j \in 0 .. start - 1 :
    /\ w[j] \in Int /\ g[j] = 2^(k * j) * w[j]
    /\ w[j] = Weighted(Collected(intermediates, j, k, l, T, B), k)

\* The loop gives each block of start - len .. start - 1 its place: shifted, the
\* result is what these blocks are of the whole.
LEMMA BlocksSum ==
  ASSUME NEW intermediates, NEW start \in Nat, NEW len \in 0 .. start,
         NEW k \in Nat, NEW l, NEW T, NEW B, NEW w, NEW g,
         PlacesBelow(start, w, g, intermediates, k, l, T, B)
  PROVE  /\ Blocks(intermediates, start, len, k, l, T, B) \in Int
         /\ 2^(k * (start - len)) * Blocks(intermediates, start, len, k, l, T, B)
              = SumOf(g, start) - SumOf(g, start - len)
         /\ Terms(g, start)
<1> USE DEF PlacesBelow
<1> DEFINE v == [n \in 1 .. len |-> w[start - n]]
           P == 2^k
<1>0. len \in Nat /\ P \in Nat
  BY PowerOfTwo
<1>1. ASSUME NEW n \in 1 .. len
      PROVE  v[n] \in Int /\ v[n] = Weighted(Collected(intermediates, start - n, k, l, T, B), k)
  <2>1. start - n \in 0 .. start - 1
    OBVIOUS
  <2> QED BY <2>1
<1>2. PICK x : /\ Blocks(intermediates, start, len, k, l, T, B) = x[len] /\ x[0] = 0
               /\ \A n \in 0 .. len : x[n] \in Int
               /\ \A n \in 1 .. len : x[n] = x[n - 1] * P + v[n]
  <2>1. TurnsAdd(v, intermediates, start, len, k, l, T, B)
    <3> HIDE DEF v
    <3> QED BY <1>1 DEF TurnsAdd
  <2>2. PICK x : TurnsMake(x, v, len, k, Blocks(intermediates, start, len, k, l, T, B))
    <3> HIDE DEF v
    <3> QED BY <1>0, <2>1, BlockTurnsExist
  <2> HIDE DEF v
  <2> QED BY <2>2, Zenon DEF TurnsMake
<1>3. Terms(g, start)
  <2>1. ASSUME NEW j \in 0 .. start - 1 PROVE g[j] \in Int
    <3> DEFINE p == 2^(k * j)
    <3>1. p \in Int
      <4>1. k * j \in Nat
        OBVIOUS
      <4> QED BY <4>1, PowerOfTwo
    <3>2. w[j] \in Int /\ g[j] = p * w[j]
      OBVIOUS
    <3> HIDE DEF p
    <3>3. \A c \in Int : p * c \in Int
      BY <3>1
    <3> QED BY <3>2, <3>3
  <2> QED BY <2>1 DEF Terms
<1> DEFINE E(n) == 2^(k * (start - n))
           S == {n \in Nat : n <= len => E(n) * x[n] = SumOf(g, start) - SumOf(g, start - n)}
<1>4. ASSUME NEW n \in 0 .. len PROVE E(n) \in Int
  <2>1. start - n \in Nat
    OBVIOUS
  <2>2. k * (start - n) \in Nat
    BY <2>1
  <2> QED BY <2>2, PowerOfTwo
<1>5. ASSUME NEW n \in Nat, n + 1 <= len PROVE E(n) = E(n + 1) * P
  <2>1. k * (start - n) = k * (start - (n + 1)) + k /\ start - (n + 1) \in Nat
    BY <1>5
  <2>2. k * (start - (n + 1)) \in Nat
    BY <2>1
  <2> QED BY <2>1, <2>2, PowerOfSum
<1>6. ASSUME NEW n \in Nat, n + 1 <= len
      PROVE  g[start - (n + 1)] = E(n + 1) * v[n + 1] /\ v[n + 1] \in Int
  <2>1. start - (n + 1) \in 0 .. start - 1 /\ n + 1 \in 1 .. len
    BY <1>6
  <2> QED BY <2>1
<1>7. ASSUME NEW n \in Nat, n + 1 <= len
      PROVE  /\ SumOf(g, start - n) = SumOf(g, start - (n + 1)) + g[start - (n + 1)]
             /\ SumOf(g, start - (n + 1)) \in Int /\ SumOf(g, start - n) \in Int
  <2> DEFINE m == start - (n + 1)
  <2>1. m \in Nat /\ m + 1 = start - n /\ Terms(g, m + 1)
    BY <1>3, <1>7 DEF Terms
  <2> HIDE DEF m
  <2>2. /\ SumOf(g, m + 1) = SumOf(g, m) + g[m] /\ SumOf(g, m) \in Int
        /\ SumOf(g, m + 1) \in Int
    BY <2>1, SumOfMore, SumType
  <2> QED BY <2>1, <2>2 DEF m
<1> HIDE DEF E, v, P
<1>8. 0 \in S
  <2>1. E(0) * 0 = 0
    BY <1>4
  <2>2. SumOf(g, start) \in Int /\ start - 0 = start
    BY <1>3, SumType
  <2> QED BY <1>2, <2>1, <2>2
<1>9. ASSUME NEW n \in Nat, n \in S PROVE n + 1 \in S
  <2> SUFFICES ASSUME n + 1 <= len
               PROVE  E(n + 1) * x[n + 1] = SumOf(g, start) - SumOf(g, start - (n + 1))
    OBVIOUS
  <2> DEFINE e == E(n + 1)
             a == x[n]
             b == v[n + 1]
             s == SumOf(g, start)
             t == SumOf(g, start - n)
             u == SumOf(g, start - (n + 1))
  <2>1. e \in Int /\ a \in Int /\ n + 1 \in 1 .. len /\ n \in 0 .. len /\ (n + 1) - 1 = n
    BY <1>0, <1>2, <1>4
  <2>2. x[n + 1] = a * P + b
    BY <1>2, <2>1
  <2>3. b \in Int /\ t = u + e * b /\ u \in Int /\ t \in Int
    BY <1>6, <1>7
  <2>4. (e * P) * a = s - t
    <3>1. E(n) * a = s - t
      BY <1>0, <1>9
    <3> QED BY <1>5, <3>1
  <2>5. s \in Int
    BY <1>3, SumType
  <2> HIDE DEF e, a, b, s, t, u
  <2>6. e * (a * P + b) = (e * P) * a + e * b
    BY <1>0, <2>1, <2>3
  <2>7. e * b \in Int
    BY <2>1, <2>3
  <2>8. e * x[n + 1] = s - u
    <3> DEFINE eb == e * b
               ea == (e * P) * a
    <3>1. eb \in Int /\ ea = s - t /\ t = u + eb /\ e * x[n + 1] = ea + eb
      BY <2>2, <2>3, <2>4, <2>6, <2>7
    <3> HIDE DEF eb, ea
    <3> QED BY <2>3, <2>5, <3>1
  <2> QED BY <2>8 DEF e, s, u
<1>10. Nat \subseteq S
  <2> HIDE DEF S
  <2> QED BY <1>8, <1>9, InductiveSet
<1>11. E(len) * x[len] = SumOf(g, start) - SumOf(g, start - len)
  BY <1>0, <1>10
<1>12. x[len] \in Int
  BY <1>0, <1>2
<1> QED BY <1>2, <1>3, <1>11, <1>12 DEF E

\* The blocks of all places, and what they are of the whole.
PlacesOf(w, g, x, T, k, l, B) ==
  \A j \in 0 .. l - 1 :
    /\ w[j] = Weighted(Collected(Stored(x, k, l), j, k, l, T, B), k)
    /\ g[j] = 2^(k * j) * w[j]

\* The block j of the stored form i is the digit i * l + j: together they are all
\* digits.
LEMMA PlacesAddUp ==
  ASSUME NEW x \in Int, NEW T \in Nat, NEW k \in Nat \ {0}, NEW l \in Nat \ {0},
         NEW B \in Nat \ {0}, 2^k <= B, NEW w, NEW g, PlacesOf(w, g, x, T, k, l, B)
  PROVE  /\ SumOf(g, l) = x * Quotient(T, B)
         /\ \A j \in 0 .. l - 1 : w[j] \in Int
<1> DEFINE n == Limit(T, k, l)
           nl == n * l
           s == Stored(x, k, l)
           has(i, j) == HasBlock(T, k, i * l + j)
           block(i, j) == GetBlock(i * l + j, k, T, B)
           c(j) == [i \in 0 .. n - 1 |-> IF has(i, j) THEN block(i, j) * s[i] ELSE 0]
           t == [m \in 0 .. nl - 1 |-> Digit(m, k, T, B)]
           f == [m \in 0 .. nl - 1 |-> x * t[m]]
           F == [p \in (0 .. n - 1) \X (0 .. l - 1) |-> f[p[1] * l + p[2]]]
<1>1. n \in Nat /\ nl \in Nat /\ T \div k <= nl
  <2>1. n \in Nat /\ T \div k <= n * l
    BY LimitCovers
  <2> HIDE DEF n
  <2> QED BY <2>1
<1>2. ASSUME NEW i \in Nat
      PROVE  s[i] \in Int /\ s[i] = x * 2^(i * k * l) /\ i * k * l \in Nat
  <2> DEFINE p == 2^(i * k * l)
  <2>1. i * k * l \in Nat
    OBVIOUS
  <2>2. s[i] = x * p /\ p \in Nat
    BY <2>1, PowerOfTwo DEF Stored
  <2>3. x * p \in Int
    <3> HIDE DEF p
    <3> QED BY <2>2
  <2> QED BY <2>1, <2>2, <2>3
<1>3. ASSUME NEW j \in 0 .. l - 1
      PROVE  w[j] = SumOf(c(j), n) /\ Terms(c(j), n) /\ w[j] \in Int
  <2> DEFINE d == c(j)
  <2>1. Counts(d, n, s, j, k, l, T, B)
    BY DEF Counts
  <2>2. j \in Nat /\ \A i \in Nat : s[i] \in Int
    BY <1>2
  <2> HIDE DEF d, s
  <2>3. Weighted(Collected(s, j, k, l, T, B), k) = SumOf(d, n) /\ Terms(d, n)
    BY <2>1, <2>2, CollectedSum
  <2>4. w[j] = SumOf(d, n)
    BY <2>3 DEF PlacesOf, s
  <2>5. w[j] \in Int
    BY <1>1, <2>3, <2>4, SumType
  <2> QED BY <2>3, <2>4, <2>5 DEF d
<1> HIDE DEF n, s
<1>4. ASSUME NEW i \in 0 .. n - 1, NEW j \in 0 .. l - 1
      PROVE  /\ i * l + j \in 0 .. nl - 1
             /\ F[<<i, j>>] = f[i * l + j]
             /\ F[<<i, j>>] = 2^(k * j) * c(j)[i]
  <2> DEFINE il == i * l
             m == il + j
             p == 2^(k * j)
             q == 2^(i * k * l)
             r == 2^(k * m)
             b == block(i, j)
  <2>0. i \in Nat /\ j \in Nat
    BY <1>1
  <2>1. il \in Nat /\ nl \in Nat /\ il + l <= nl
    <3>1. (n - i - 1) * l >= 0
      BY <1>1
    <3>2. (n - i - 1) * l = n * l - i * l - l
      BY <1>1
    <3> QED BY <1>1, <2>0, <3>1, <3>2
  <2>2. m \in 0 .. nl - 1
    <3> HIDE DEF il, nl
    <3> QED BY <2>1
  <2>3. F[<<i, j>>] = x * Digit(m, k, T, B) /\ F[<<i, j>>] = f[m]
    BY <2>2
  <2>4. p \in Nat /\ q \in Nat /\ r = p * q
    <3> DEFINE u == k * j
               v == i * k * l
               turn == k * m
    <3>1. turn = u + v /\ u \in Nat /\ v \in Nat
      BY <2>0
    <3>2. 2^turn = 2^u * 2^v /\ 2^u \in Nat /\ 2^v \in Nat
      <4> HIDE DEF u, v, turn
      <4> QED BY <3>1, PowerSplit
    <3> QED BY <3>2
  <2>5. CASE has(i, j)
    <3>1. b \in Int
      <4>1. m \in Nat
        BY <2>0
      <4>2. b \in 0 .. 2^k - 1 /\ 2^k \in Nat
        BY <2>5, <4>1, BlockIsDigit, PowerOfTwo
      <4> HIDE DEF b
      <4> QED BY <4>2
    <3>2. Digit(m, k, T, B) = r * b
      BY <2>5 DEF Digit
    <3>3. c(j)[i] = b * s[i]
      BY <2>5
    <3>4. s[i] = x * q
      BY <1>2, <2>0
    <3>5. c(j)[i] = b * (x * q)
      BY <3>3, <3>4
    <3> HIDE DEF p, q, r, b
    <3>6. x * (p * q * b) = p * (b * (x * q))
      BY <2>4, <3>1
    <3>7. x * Digit(m, k, T, B) = p * c(j)[i]
      <4> HIDE DEF c, m
      <4> QED BY <2>4, <3>2, <3>5, <3>6
    <3> QED BY <2>2, <2>3, <3>7 DEF p
  <2>6. CASE ~has(i, j)
    <3>1. Digit(m, k, T, B) = 0
      BY <2>6 DEF Digit
    <3>2. c(j)[i] = 0
      BY <2>6
    <3>3. x * 0 = 0 /\ p * 0 = 0
      <4> HIDE DEF p
      <4> QED BY <2>4
    <3>4. F[<<i, j>>] = 0 /\ p * c(j)[i] = 0
      <4> HIDE DEF c, p, F, f
      <4> QED BY <2>3, <3>1, <3>2, <3>3
    <3> QED BY <2>2, <2>3, <3>4
  <2> QED BY <2>5, <2>6
<1>5. SumOf(t, nl) = Quotient(T, B) /\ Terms(t, nl)
  <2>1. \A m \in 0 .. nl - 1 : t[m] = Digit(m, k, T, B)
    OBVIOUS
  <2> HIDE DEF t, nl
  <2> QED BY <1>1, <2>1, DigitsAddUp
<1>6. Terms(f, nl) /\ SumOf(f, nl) = x * Quotient(T, B)
  <2>1. \A m \in 0 .. nl - 1 : f[m] = x * t[m]
    OBVIOUS
  <2>2. Terms(f, nl)
    <3>1. \A u \in Int : x * u \in Int
      OBVIOUS
    <3> HIDE DEF t, f, nl
    <3> QED BY <1>5, <2>1, <3>1 DEF Terms
  <2> HIDE DEF t, f, nl
  <2>3. SumOf(f, nl) = x * SumOf(t, nl)
    BY <1>1, <1>5, <2>1, SumScaled
  <2> QED BY <1>5, <2>2, <2>3
<1>7. ByRows(F, n, l) = SumOf(f, nl) /\ Cells(F, n, l)
  <2>1. RowsFollow(F, n, l, f)
    <3> HIDE DEF F, f
    <3> QED BY <1>4 DEF RowsFollow
  <2>2. Terms(f, n * l)
    BY <1>6
  <2> HIDE DEF F, f
  <2> QED BY <1>1, <2>1, <2>2, SumOfRows
<1>8. ASSUME NEW j \in 0 .. l - 1 PROVE g[j] = ColumnSum(F, j, n)
  <2> DEFINE a == c(j)
             p == 2^(k * j)
             b == [i \in 0 .. n - 1 |-> F[<<i, j>>]]
  <2>1. p \in Int
    <3>1. k * j \in Nat
      OBVIOUS
    <3> QED BY <3>1, PowerOfTwo
  <2>2. Terms(a, n) /\ w[j] = SumOf(a, n)
    BY <1>3
  <2>3. \A i \in 0 .. n - 1 : b[i] = p * a[i]
    <3>1. ASSUME NEW i \in 0 .. n - 1 PROVE b[i] = p * a[i]
      <4>1. b[i] = F[<<i, j>>]
        OBVIOUS
      <4>2. F[<<i, j>>] = p * a[i]
        BY <1>4
      <4> HIDE DEF b, a, p, F
      <4> QED BY <4>1, <4>2
    <3> QED BY <3>1
  <2>4. ColumnSum(F, j, n) = SumOf(b, n)
    BY DEF ColumnSum
  <2>5. g[j] = p * w[j]
    BY DEF PlacesOf
  <2> HIDE DEF a, b, p
  <2>6. SumOf(b, n) = p * SumOf(a, n)
    BY <1>1, <2>1, <2>2, <2>3, SumScaled
  <2> QED BY <2>2, <2>4, <2>5, <2>6
<1> HIDE DEF F, f
<1>9. SumOf(g, l) = ByColumns(F, n, l)
  <2> DEFINE r == [j \in 0 .. l - 1 |-> ColumnSum(F, j, n)]
  <2>1. Terms(r, l) /\ \A j \in 0 .. l - 1 : r[j] = g[j]
    BY <1>1, <1>7, <1>8, LineSums DEF Terms
  <2>2. SumOf(r, l) = SumOf(g, l)
    <3> HIDE DEF r
    <3> QED BY <2>1, SameSum
  <2> QED BY <2>2, Zenon DEF ByColumns
<1>10. ByColumns(F, n, l) = ByRows(F, n, l)
  BY <1>1, <1>7, SumSwapped
<1>11. SumOf(g, l) = x * Quotient(T, B)
  BY <1>6, <1>7, <1>9, <1>10
<1> QED BY <1>3, <1>11

\* Functions with these values.
LEMMA PlacesExist ==
  ASSUME NEW x, NEW T, NEW k, NEW l \in Nat, NEW B
  PROVE  \E w, g : PlacesOf(w, g, x, T, k, l, B)
<1> DEFINE W(j) == Weighted(Collected(Stored(x, k, l), j, k, l, T, B), k)
           w == [j \in 0 .. l - 1 |-> W(j)]
           g == [j \in 0 .. l - 1 |-> 2^(k * j) * W(j)]
<1>1. PlacesOf(w, g, x, T, k, l, B)
  <2>1. \A j \in 0 .. l - 1 : w[j] = W(j) /\ g[j] = 2^(k * j) * w[j]
    <3> HIDE DEF W
    <3> QED OBVIOUS
  <2> HIDE DEF w, g
  <2> QED BY <2>1 DEF PlacesOf
<1> QED BY <1>1

\* The part of a range of blocks is the difference of two partial sums.
LEMMA RangeOfBlocks ==
  ASSUME NEW x \in Int, NEW T \in Nat, NEW k \in Nat \ {0}, NEW l \in Nat \ {0},
         NEW B \in Nat \ {0}, 2^k <= B, NEW w, NEW g, PlacesOf(w, g, x, T, k, l, B),
         NEW start \in 0 .. l, NEW len \in 0 .. start
  PROVE  /\ 2^(k * (start - len)) * Blocks(Stored(x, k, l), start, len, k, l, T, B)
              = SumOf(g, start) - SumOf(g, start - len)
         /\ SumOf(g, start) \in Int /\ SumOf(g, start - len) \in Int
         /\ Blocks(Stored(x, k, l), start, len, k, l, T, B) \in Int
<1>1. \A j \in 0 .. l - 1 : w[j] \in Int
  BY PlacesAddUp
<1> DEFINE s == Stored(x, k, l)
<1>2. start \in Nat /\ start - len \in Nat
  OBVIOUS
<1>3. PlacesBelow(start, w, g, s, k, l, T, B)
  BY <1>1 DEF PlacesOf, PlacesBelow
<1> HIDE DEF s
<1>5. /\ Blocks(s, start, len, k, l, T, B) \in Int
      /\ 2^(k * (start - len)) * Blocks(s, start, len, k, l, T, B)
              = SumOf(g, start) - SumOf(g, start - len)
      /\ Terms(g, start)
  BY <1>2, <1>3, BlocksSum
<1>6. Terms(g, start - len)
  BY <1>5 DEF Terms
<1>7. SumOf(g, start) \in Int /\ SumOf(g, start - len) \in Int
  BY <1>2, <1>5, <1>6, SumType
<1> QED BY <1>5, <1>7 DEF s

\* Prover::GenerateProof: from the stored forms comes x to the 2^T div B, the proof
\* that Wesolowski defines, for every number of iterations, every k and every l.
THEOREM GenerateProofIsTheProof ==
  ASSUME NEW x \in Int, NEW y, NEW T \in Nat, NEW k \in Nat \ {0}, NEW l \in Nat \ {0},
         BOf(x, y) \in Nat, 2^k <= BOf(x, y)
  PROVE  GenerateProof(x, y, T, k, l) = x * (2^T \div BOf(x, y))
<1> DEFINE B == BOf(x, y)
<1>1. B \in Nat \ {0}
  BY PowerOfTwo
<1> HIDE DEF B
<1>2. 2^k <= B
  BY DEF B
<1>3. PICK w, g : PlacesOf(w, g, x, T, k, l, B)
  BY PlacesExist
<1> DEFINE b == Blocks(Stored(x, k, l), l, l, k, l, T, B)
<1>4. 2^(k * (l - l)) * b = SumOf(g, l) - SumOf(g, l - l) /\ b \in Int
  BY <1>1, <1>2, <1>3, RangeOfBlocks
<1>5. SumOf(g, l) = x * Quotient(T, B) /\ SumOf(g, l) \in Int
  BY <1>1, <1>2, <1>3, PlacesAddUp, RangeOfBlocks
<1>6. 2^(k * (l - l)) = 1 /\ l - l = 0
  <2>1. k * (l - l) = 0 /\ l - l = 0
    OBVIOUS
  <2> QED BY <2>1, PowerOfZero
<1>7. SumOf(g, l - l) = 0
  BY <1>6, SumOfNone
<1>8. b = SumOf(g, l)
  <2>1. 1 * b = SumOf(g, l) - 0
    BY <1>4, <1>6, <1>7
  <2> HIDE DEF b
  <2> QED BY <1>4, <1>5, <2>1
<1> QED BY <1>5, <1>8 DEF GenerateProof, Quotient, B

\* ParallelProver: the parts of the two threads together are the same proof.
THEOREM ParallelProofIsTheProof ==
  ASSUME NEW x \in Int, NEW y, NEW T \in Nat, NEW k \in Nat \ {0}, NEW l \in Nat \ {0},
         BOf(x, y) \in Nat, 2^k <= BOf(x, y)
  PROVE  ParallelProof(x, y, T, k, l) = x * (2^T \div BOf(x, y))
<1> DEFINE B == BOf(x, y)
           l0 == l \div 2
           l1 == l - l0
           upper == ProvePart(x, y, T, k, l, l, l0)
           lower == ProvePart(x, y, T, k, l, l1, l1)
<1>1. B \in Nat \ {0}
  BY PowerOfTwo
<1>2. 2^k <= B
  OBVIOUS
<1>3. l0 \in Nat /\ l0 \in 0 .. l /\ l1 \in 0 .. l /\ l1 \in Nat /\ l \in 0 .. l
  OBVIOUS
<1> HIDE DEF B, l0
<1>4. PICK w, g : PlacesOf(w, g, x, T, k, l, B)
  BY PlacesExist
<1>5. upper = SumOf(g, l) - SumOf(g, l1) /\ SumOf(g, l) \in Int /\ SumOf(g, l1) \in Int
  <2>1. l1 * k = k * l1
    BY <1>3
  <2>2. upper = 2^(k * l1) * Blocks(Stored(x, k, l), l, l0, k, l, T, B)
    BY <2>1 DEF ProvePart, B
  <2> QED BY <1>1, <1>2, <1>3, <1>4, <2>2, RangeOfBlocks
<1>6. lower = SumOf(g, l1) - SumOf(g, 0)
  <2>1. (l1 - l1) * k = k * (l1 - l1) /\ l1 \in 0 .. l1 /\ l1 - l1 = 0
    BY <1>3
  <2>2. lower = 2^(k * (l1 - l1)) * Blocks(Stored(x, k, l), l1, l1, k, l, T, B)
    BY <2>1 DEF ProvePart, B
  <2> HIDE DEF l1, lower
  <2>3. lower = SumOf(g, l1) - SumOf(g, l1 - l1)
    BY <1>1, <1>2, <1>3, <1>4, <2>1, <2>2, RangeOfBlocks, SMTT(30)
  <2> QED BY <2>1, <2>3
<1>7. SumOf(g, 0) = 0
  BY SumOfNone
<1>8. upper + lower = SumOf(g, l)
  <2> HIDE DEF upper, lower, l1
  <2> QED BY <1>5, <1>6, <1>7
<1>9. SumOf(g, l) = x * Quotient(T, B)
  BY <1>1, <1>2, <1>4, PlacesAddUp
<1> QED BY <1>8, <1>9, Zenon DEF ParallelProof, Quotient, B, l0

----------------------------------------------------------------------------
(***************************************************************************)
(* What the verifier of module Wesolowski accepts                          *)
(***************************************************************************)

\* VerifyWesolowskiProof and VerifyWesoSegment: the proof that Wesolowski defines gives
\* the result, and with it the B that it was made for.
THEOREM TheProofVerifies ==
  ASSUME NEW x \in Int, NEW T \in Nat, NEW B \in Nat \ {0}
  PROVE  Combined(B, x * (2^T \div B), x, T) = x * 2^T
<1> DEFINE E == 2^T
           q == E \div B
           r == E % B
<1>1. E \in Nat
  BY PowerOfTwo
<1> HIDE DEF E
<1>2. q \in Int /\ r \in Int /\ E = B * q + r
  BY <1>1
<1> HIDE DEF q, r
<1>3. B * (x * q) + r * x = x * (B * q + r)
  BY <1>2
<1> QED BY <1>2, <1>3 DEF Combined, FastPow, E, q, r

\* A segment proved by itself.
LEMMA SegmentVerifies ==
  ASSUME NEW x \in Int, NEW T \in Nat, NEW k \in Nat \ {0},
         BOf(x, x * 2^T) \in Nat, 2^k <= BOf(x, x * 2^T)
  PROVE  LET sg == ProvedSegment(x, T, k)
             bytes == SegmentBytes(sg)
         IN  /\ bytes.iters = T
             /\ VerifyWesoSegment(x, bytes.proof, bytes.B, bytes.iters)
                  = [y |-> x * 2^T, ok |-> TRUE]
             /\ VerifyWesoSegment(x, sg.proof, BOf(x, x * 2^T), T) = [y |-> x * 2^T, ok |-> TRUE]
             /\ VerifyWesolowskiProof(x, x * 2^T, sg.proof, T)
<1> DEFINE y == x * 2^T
           B == BOf(x, y)
           proof == GenerateProof(x, y, T, k, 1)
<1>1. proof = x * (2^T \div B)
  <2>1. 1 \in Nat \ {0}
    OBVIOUS
  <2> QED BY <2>1, GenerateProofIsTheProof
<1>2. B \in Nat \ {0}
  BY PowerOfTwo
<1>3. Combined(B, proof, x, T) = y
  <2> HIDE DEF B, proof
  <2> QED BY <1>1, <1>2, TheProofVerifies
<1>4. /\ ProvedSegment(x, T, k) = [x |-> x, y |-> y, length |-> T, proof |-> proof]
      /\ SegmentBytes([x |-> x, y |-> y, length |-> T, proof |-> proof])
           = [iters |-> T, B |-> B, proof |-> proof]
  <2> HIDE DEF proof
  <2> QED BY DEF ProvedSegment, SegmentBytes, proof
<1>5. VerifyWesoSegment(x, proof, B, T) = [y |-> y, ok |-> TRUE]
  <2> HIDE DEF proof
  <2> QED BY <1>3, Zenon DEF VerifyWesoSegment
<1>6. VerifyWesolowskiProof(x, y, proof, T)
  <2> HIDE DEF proof
  <2> QED BY <1>3 DEF VerifyWesolowskiProof
<1> HIDE DEF proof, B, y
<1>7. /\ ProvedSegment(x, T, k).proof = proof
      /\ SegmentBytes(ProvedSegment(x, T, k)).iters = T
      /\ SegmentBytes(ProvedSegment(x, T, k)).proof = proof
      /\ SegmentBytes(ProvedSegment(x, T, k)).B = B
  BY <1>4
<1> QED BY <1>5, <1>6, <1>7 DEF y, B

\* Where the walk is after each of the segments: at the form c[n], with r[n] left.
Accepts(c, r, segs) ==
  LET count == Len(segs)
  IN  /\ \A n \in 0 .. count : r[n] \in Int
      /\ \A n \in 1 .. count :
           LET sg == segs[count + 1 - n]
           IN  /\ VerifyWesoSegment(c[n - 1], sg.proof, sg.B, sg.iters)
                    = [y |-> c[n], ok |-> TRUE]
               /\ sg.iters \in Int /\ sg.iters <= r[n - 1]
               /\ r[n] = r[n - 1] - sg.iters

\* The function that Walk defines by recursion.
WalkSteps(w, x, segs, iterations, skip_check) ==
  LET count == Len(segs)
  IN  w = [n \in 0 .. count |->
             IF n = 0 THEN Walked(TRUE, x, iterations)
             ELSE LET p == w[n - 1]
                      sg == segs[count + 1 - n]
                      v == VerifyWesoSegment(p.x, sg.proof, sg.B, sg.iters)
                  IN  IF ~p.ok THEN p
                      ELSE IF ~skip_check /\ ~v.ok THEN Walked(FALSE, p.x, p.iterations)
                      ELSE IF sg.iters > p.iterations THEN Walked(FALSE, v.y, p.iterations)
                      ELSE Walked(TRUE, v.y, Remaining(p.iterations, sg.iters))]

\* The walk passes segments that verify one after the other and fit.
LEMMA WalkPasses ==
  ASSUME NEW segs, Len(segs) \in Nat, NEW c, NEW r, Accepts(c, r, segs), NEW skip_check
  PROVE  Walk(c[0], segs, r[0], skip_check) = Walked(TRUE, c[Len(segs)], r[Len(segs)])
<1> DEFINE count == Len(segs)
           Next(n, p) ==
             LET sg == segs[count + 1 - n]
                 v == VerifyWesoSegment(p.x, sg.proof, sg.B, sg.iters)
             IN  IF ~p.ok THEN p
                 ELSE IF ~skip_check /\ ~v.ok THEN Walked(FALSE, p.x, p.iterations)
                 ELSE IF sg.iters > p.iterations THEN Walked(FALSE, v.y, p.iterations)
                 ELSE Walked(TRUE, v.y, Remaining(p.iterations, sg.iters))
           at(n) == Walked(TRUE, c[n], r[n])
           g == [n \in 0 .. count |-> at(n)]
<1>1. ASSUME NEW n \in 1 .. count PROVE Next(n, at(n - 1)) = at(n)
  <2> DEFINE sg == segs[count + 1 - n]
             v == VerifyWesoSegment(c[n - 1], sg.proof, sg.B, sg.iters)
  <2>1. /\ v = [y |-> c[n], ok |-> TRUE]
        /\ sg.iters \in Int /\ sg.iters <= r[n - 1] /\ r[n] = r[n - 1] - sg.iters
        /\ r[n - 1] \in Int
    <3>1. n - 1 \in 0 .. count
      OBVIOUS
    <3> QED BY <3>1 DEF Accepts
  <2>2. at(n - 1).x = c[n - 1] /\ at(n - 1).ok = TRUE /\ at(n - 1).iterations = r[n - 1]
    BY DEF Walked
  <2>3. v.y = c[n] /\ v.ok = TRUE /\ ~(sg.iters > r[n - 1]) /\ Remaining(r[n - 1], sg.iters) = r[n]
    <3> HIDE DEF v, sg
    <3> QED BY <2>1 DEF Remaining
  <2> HIDE DEF at
  <2>4. Next(n, at(n - 1)) = Walked(TRUE, c[n], r[n])
    BY <2>2, <2>3
  <2> QED BY <2>4 DEF at
<1> HIDE DEF at, Next
<1>2. g = [n \in 0 .. count |-> IF n = 0 THEN at(0) ELSE Next(n, g[n - 1])]
  <2>1. ASSUME NEW n \in 0 .. count PROVE at(n) = IF n = 0 THEN at(0) ELSE Next(n, g[n - 1])
    <3>1. n # 0 => n \in 1 .. count /\ n - 1 \in 0 .. count
      OBVIOUS
    <3> QED BY <1>1, <3>1
  <2> QED BY <2>1
<1>3. WalkSteps(g, c[0], segs, r[0], skip_check)
  <2> HIDE DEF g
  <2> QED BY <1>2, Zenon DEF WalkSteps, Next, at
<1> DEFINE h == CHOOSE w : WalkSteps(w, c[0], segs, r[0], skip_check)
<1>4. WalkSteps(h, c[0], segs, r[0], skip_check)
  <2> HIDE DEF g
  <2> QED BY <1>3, Zenon
<1>5. Walk(c[0], segs, r[0], skip_check) = h[count]
  BY Zenon DEF Walk, WalkSteps
<1> HIDE DEF h
<1>6. \A n \in 0 .. count : h[n] = IF n = 0 THEN at(0) ELSE Next(n, h[n - 1])
  BY <1>4, Zenon DEF WalkSteps, Next, at
<1> DEFINE S == {n \in Nat : n <= count => h[n] = at(n)}
<1>7. 0 \in S
  BY <1>6
<1>8. ASSUME NEW n \in Nat, n \in S PROVE n + 1 \in S
  <2> SUFFICES ASSUME n + 1 <= count PROVE h[n + 1] = at(n + 1)
    OBVIOUS
  <2>1. n + 1 \in 1 .. count /\ n + 1 \in 0 .. count /\ (n + 1) - 1 = n /\ n + 1 # 0
    OBVIOUS
  <2>2. h[n + 1] = Next(n + 1, h[n]) /\ h[n] = at(n)
    BY <1>6, <1>8, <2>1
  <2>3. Next(n + 1, at(n)) = at(n + 1)
    BY <1>1, <2>1
  <2> QED BY <2>2, <2>3
<1>9. Nat \subseteq S
  <2> HIDE DEF S
  <2> QED BY <1>7, <1>8, InductiveSet
<1>10. h[count] = at(count)
  BY <1>9
<1> QED BY <1>5, <1>10 DEF at

\* The segments of chain, one after the other from x: the segment n goes from p[n - 1]
\* to p[n] iterations, and B is long enough for its blocks.
ChainAlong(x, p, chain, k) ==
  /\ p[0] = 0 /\ \A n \in 0 .. Len(chain) : p[n] \in Nat
  /\ \A n \in 1 .. Len(chain) :
       /\ p[n - 1] <= p[n]
       /\ chain[n] = ProvedSegment(x * 2^p[n - 1], p[n] - p[n - 1], k)
       /\ BOf(x * 2^p[n - 1], x * 2^p[n]) \in Nat
       /\ 2^k <= BOf(x * 2^p[n - 1], x * 2^p[n])

\* CheckProofOfTimeNWesolowski, ...WithB and GetBFromProof accept the segments that the
\* prover put together, the last one first, for the iterations that they cover.
LEMMA ChainVerifies ==
  ASSUME NEW x \in Int, NEW k \in Nat \ {0}, NEW chain, Len(chain) \in Nat \ {0}, NEW p,
         ChainAlong(x, p, chain, k)
  PROVE  LET count == Len(chain)
             y == x * 2^p[count]
             blob == Assembled(y, chain)
             B == GetBFromProof(x, blob, p[count], count - 1)
         IN  /\ CheckProofOfTimeNWesolowski(x, blob, p[count], count - 1)
             /\ CheckProofOfTimeNWesolowskiWithB(B, x, blob, p[count], count - 1) = <<y>>
             /\ B = BOf(x * 2^p[count - 1], y)
<1> DEFINE count == Len(chain)
           y == x * 2^p[count]
           blob == Assembled(y, chain)
           segs == [i \in 1 .. count - 1 |-> SegmentBytes(chain[count - i])]
           c == [n \in 0 .. count |-> x * 2^p[n]]
           r == [n \in 0 .. count |-> p[count] - p[n]]
<1>1. ASSUME NEW n \in 0 .. count
      PROVE  p[n] \in Nat /\ c[n] = x * 2^p[n] /\ c[n] \in Int /\ r[n] = p[count] - p[n]
  <2>1. p[n] \in Nat
    BY DEF ChainAlong
  <2> DEFINE t == 2^p[n]
  <2>2. t \in Nat
    BY <2>1, PowerOfTwo
  <2>3. x * t \in Int
    <3> HIDE DEF t
    <3> QED BY <2>2
  <2> QED BY <2>1, <2>3
<1>2. ASSUME NEW n \in 1 .. count
      PROVE  /\ p[n] - p[n - 1] \in Nat
             /\ chain[n] = ProvedSegment(c[n - 1], p[n] - p[n - 1], k)
             /\ c[n] = c[n - 1] * 2^(p[n] - p[n - 1])
             /\ BOf(c[n - 1], c[n]) \in Nat /\ 2^k <= BOf(c[n - 1], c[n])
  <2> DEFINE d == p[n] - p[n - 1]
             a == 2^p[n - 1]
             b == 2^d
  <2>1. n \in 0 .. count /\ n - 1 \in 0 .. count
    OBVIOUS
  <2>2. p[n] \in Nat /\ p[n - 1] \in Nat /\ p[n - 1] <= p[n]
    BY <1>1, <2>1 DEF ChainAlong
  <2>3. d \in Nat /\ p[n - 1] + d = p[n]
    BY <2>2
  <2>4. a \in Nat /\ b \in Nat /\ 2^p[n] = a * b
    <3> HIDE DEF d
    <3> QED BY <2>2, <2>3, PowerSplit, ZenonT(30)
  <2>5. c[n] = x * (a * b) /\ c[n - 1] = x * a
    <3>1. c[n] = x * 2^p[n] /\ c[n - 1] = x * 2^p[n - 1]
      BY <1>1, <2>1
    <3> QED BY <2>4, <3>1
  <2>6. x * (a * b) = (x * a) * b
    <3> HIDE DEF a, b
    <3> QED BY <2>4
  <2>7. c[n] = c[n - 1] * b
    <3> HIDE DEF c, a, b
    <3> QED BY <2>5, <2>6
  <2> QED BY <2>1, <2>3, <2>7, <1>1 DEF ChainAlong
<1>3. blob = [y |-> y, proof |-> chain[count].proof, segs |-> segs]
  BY Zenon DEF Assembled
<1>4. Len(segs) = count - 1
  BY DEF segs
<1> HIDE DEF c, r
<1>5. Accepts(c, r, segs)
  <2>1. ASSUME NEW n \in 0 .. count - 1 PROVE r[n] \in Int
    <3>1. n \in 0 .. count /\ count \in 0 .. count
      OBVIOUS
    <3>2. r[n] = p[count] - p[n] /\ p[n] \in Nat /\ p[count] \in Nat
      BY <1>1, <3>1
    <3> QED BY <3>2
  <2>2. ASSUME NEW n \in 1 .. count - 1
        PROVE  /\ VerifyWesoSegment(c[n - 1], segs[(count - 1) + 1 - n].proof,
                    segs[(count - 1) + 1 - n].B, segs[(count - 1) + 1 - n].iters)
                    = [y |-> c[n], ok |-> TRUE]
               /\ segs[(count - 1) + 1 - n].iters \in Int
               /\ segs[(count - 1) + 1 - n].iters <= r[n - 1]
               /\ r[n] = r[n - 1] - segs[(count - 1) + 1 - n].iters
    <3> DEFINE d == p[n] - p[n - 1]
               sg == SegmentBytes(ProvedSegment(c[n - 1], d, k))
    <3>1. n \in 1 .. count /\ n \in 0 .. count /\ n - 1 \in 0 .. count /\ count \in 0 .. count
          /\ (count - 1) + 1 - n \in 1 .. count - 1 /\ count - ((count - 1) + 1 - n) = n
      OBVIOUS
    <3>2. segs[(count - 1) + 1 - n] = SegmentBytes(chain[n])
      <4>1. segs[(count - 1) + 1 - n] = SegmentBytes(chain[count - ((count - 1) + 1 - n)])
        BY <3>1, Zenon
      <4> QED BY <3>1, <4>1
    <3>3. segs[(count - 1) + 1 - n] = sg
      BY <1>2, <3>1, <3>2
    <3>4. /\ d \in Nat /\ c[n - 1] \in Int /\ c[n] = c[n - 1] * 2^d
          /\ BOf(c[n - 1], c[n - 1] * 2^d) \in Nat /\ 2^k <= BOf(c[n - 1], c[n - 1] * 2^d)
      BY <1>1, <1>2, <3>1
    <3> HIDE DEF segs
    <3>5. /\ sg.iters = d
          /\ VerifyWesoSegment(c[n - 1], sg.proof, sg.B, sg.iters)
               = [y |-> c[n - 1] * 2^d, ok |-> TRUE]
      <4> HIDE DEF d
      <4> QED BY <3>4, SegmentVerifies
    <3>6. /\ r[n] = p[count] - p[n] /\ r[n - 1] = p[count] - p[n - 1]
          /\ p[n] \in Nat /\ p[n - 1] \in Nat /\ p[count] \in Nat
      BY <1>1, <3>1
    <3>7. p[n] <= p[count]
      <4> DEFINE S == {m \in Nat : n + m <= count => p[n] <= p[n + m]}
      <4>1. 0 \in S
        <5>1. n + 0 = n
          OBVIOUS
        <5> QED BY <3>6, <5>1
      <4>2. ASSUME NEW m \in Nat, m \in S PROVE m + 1 \in S
        <5> SUFFICES ASSUME n + (m + 1) <= count PROVE p[n] <= p[n + (m + 1)]
          OBVIOUS
        <5>1. n + (m + 1) \in 1 .. count /\ (n + (m + 1)) - 1 = n + m
              /\ n + m \in 0 .. count /\ n + (m + 1) \in 0 .. count
          BY <3>1
        <5>2. p[n + m] <= p[n + (m + 1)] /\ p[n + m] \in Nat /\ p[n + (m + 1)] \in Nat
          BY <1>1, <5>1 DEF ChainAlong
        <5>3. p[n] <= p[n + m]
          BY <4>2
        <5> DEFINE u == p[n]
                   v == p[n + m]
                   w == p[n + (m + 1)]
        <5>4. u <= v /\ v <= w /\ u \in Nat /\ v \in Nat /\ w \in Nat
          BY <3>6, <5>2, <5>3
        <5>5. u <= w
          <6> HIDE DEF u, v, w
          <6> QED BY <5>4
        <5> QED BY <5>5
      <4>3. Nat \subseteq S
        <5> HIDE DEF S
        <5> QED BY <4>1, <4>2, InductiveSet
      <4>4. count - n \in S /\ n + (count - n) = count
        BY <3>1, <4>3
      <4> QED BY <4>4
    <3>8. d <= r[n - 1] /\ r[n] = r[n - 1] - d /\ d \in Int
      BY <3>6, <3>7, SMTT(30)
    <3> HIDE DEF sg, d
    <3> QED BY <3>3, <3>4, <3>5, <3>8
  <2> HIDE DEF segs
  <2> QED BY <1>4, <2>1, <2>2, Zenon DEF Accepts
<1> DEFINE last == count - 1
<1>6. /\ c[0] = x /\ r[0] = p[count] /\ c[count] = y
      /\ count \in 1 .. count /\ last \in 0 .. count /\ last \in Nat
      /\ r[last] = p[count] - p[last]
  <2>1. 0 \in 0 .. count /\ count \in 0 .. count /\ last \in 0 .. count /\ last \in Nat
    OBVIOUS
  <2>2. p[0] = 0 /\ 2^p[0] = 1
    BY PowerOfZero DEF ChainAlong
  <2>3. c[0] = x * 1 /\ r[0] = p[count] - 0 /\ p[count] \in Nat /\ c[count] = y
    <3>1. c[0] = x * 2^p[0] /\ r[0] = p[count] - p[0]
      BY <1>1, <2>1
    <3> HIDE DEF last
    <3> QED BY <1>1, <2>1, <2>2, <3>1
  <2>4. r[last] = p[count] - p[last]
    BY <1>1, <2>1
  <2> QED BY <2>1, <2>3, <2>4
<1> HIDE DEF segs
<1>7. ASSUME NEW skip
      PROVE  Walk(x, segs, p[count], skip) = Walked(TRUE, c[last], p[count] - p[last])
  <2>1. Walk(c[0], segs, r[0], skip) = Walked(TRUE, c[Len(segs)], r[Len(segs)])
    <3>1. Len(segs) \in Nat
      BY <1>4, <1>6
    <3> QED BY <1>5, <3>1, WalkPasses
  <2> QED BY <1>4, <1>6, <2>1
<1> DEFINE d == p[count] - p[last]
           proof == ProvedSegment(c[last], d, k).proof
<1>8. chain[count].proof = proof /\ d \in Nat /\ c[last] \in Int /\ c[last] * 2^d = y
      /\ BOf(c[last], y) \in Nat /\ 2^k <= BOf(c[last], y)
  <2> HIDE DEF y
  <2> QED BY <1>1, <1>2, <1>6
<1> HIDE DEF d
<1>9. /\ VerifyWesolowskiProof(c[last], y, proof, d)
      /\ VerifyWesoSegment(c[last], proof, BOf(c[last], y), d) = [y |-> y, ok |-> TRUE]
  <2> HIDE DEF y, last
  <2> QED BY <1>8, SegmentVerifies
<1> HIDE DEF proof
<1>10. blob.segs = segs /\ blob.proof = proof /\ blob.y = y
  <2> HIDE DEF blob, y
  <2> QED BY <1>3, <1>8
<1> HIDE DEF blob, y
<1>11. ASSUME NEW skip
       PROVE  LET w == Walk(x, blob.segs, p[count], skip)
              IN  w.ok = TRUE /\ w.x = c[last] /\ w.iterations = d
  <2>1. Walk(x, segs, p[count], skip) = [ok |-> TRUE, x |-> c[last], iterations |-> d]
    BY <1>7 DEF Walked, d
  <2> HIDE DEF last
  <2> QED BY <1>10, <2>1
<1>12. last = Len(blob.segs)
  BY <1>4, <1>10
<1> HIDE DEF last
<1>13. CheckProofOfTimeNWesolowski(x, blob, p[count], last)
  BY <1>9, <1>10, <1>11, <1>12 DEF CheckProofOfTimeNWesolowski
<1>14. GetBFromProof(x, blob, p[count], last) = BOf(c[last], y)
  BY <1>10, <1>11, <1>12 DEF GetBFromProof
<1>15. CheckProofOfTimeNWesolowskiWithB(BOf(c[last], y), x, blob, p[count], last) = <<y>>
  <2> DEFINE w == Walk(x, blob.segs, p[count], FALSE)
             v == VerifyWesoSegment(w.x, blob.proof, BOf(c[last], y), w.iterations)
  <2>1. w.ok = TRUE /\ w.x = c[last] /\ w.iterations = d
    BY <1>11
  <2>2. v = [y |-> y, ok |-> TRUE]
    <3> HIDE DEF w
    <3> QED BY <1>9, <1>10, <2>1
  <2>3. v.y = y /\ v.ok = TRUE
    <3> HIDE DEF v
    <3> QED BY <2>2
  <2>4. CheckProofOfTimeNWesolowskiWithB(BOf(c[last], y), x, blob, p[count], last)
          = IF last = Len(blob.segs) /\ w.ok /\ v.ok THEN <<v.y>> ELSE << >>
    BY Zenon DEF CheckProofOfTimeNWesolowskiWithB
  <2> HIDE DEF w, v
  <2> QED BY <1>12, <2>1, <2>3, <2>4
<1>16. c[last] = x * 2^p[count - 1]
  BY <1>1, <1>6 DEF last
<1> QED BY <1>13, <1>14, <1>15, <1>16 DEF blob, last, y

\* Segments of any lengths, proved one after the other, put together and walked over:
\* the verifier accepts them for their iterations and their number, and without the
\* result it gives the result from the B that it reads out.
THEOREM ChainsAreAccepted ==
  ASSUME NEW x \in Int, NEW k \in Nat \ {0}, NEW lengths \in Seq(Nat), lengths # << >>,
         \A n \in 1 .. Len(lengths) :
           LET sg == ProvedChain(x, lengths, k)[n]
           IN  BOf(sg.x, sg.y) \in Nat /\ 2^k <= BOf(sg.x, sg.y)
  PROVE  LET count == Len(lengths)
             iters == Iterations(lengths, count)
             y == x * 2^iters
             blob == Assembled(y, ProvedChain(x, lengths, k))
             B == GetBFromProof(x, blob, iters, count - 1)
         IN  /\ CheckProofOfTimeNWesolowski(x, blob, iters, count - 1)
             /\ CheckProofOfTimeNWesolowskiWithB(B, x, blob, iters, count - 1) = <<y>>
<1> DEFINE count == Len(lengths)
           chain == ProvedChain(x, lengths, k)
           p == [n \in 0 .. count |-> Iterations(lengths, n)]
<1>1. count \in Nat \ {0} /\ \A n \in 1 .. count : lengths[n] \in Nat
  OBVIOUS
<1> HIDE DEF count
<1>2. ASSUME NEW n \in 0 .. count PROVE p[n] = SumOf([m \in 0 .. n - 1 |-> lengths[m + 1]], n)
  BY DEF Iterations
<1>3. p[0] = 0
  <2>1. 0 \in 0 .. count
    BY <1>1
  <2> QED BY <1>2, <2>1, SumOfNone
<1>4. ASSUME NEW n \in 1 .. count, p[n - 1] \in Nat PROVE p[n] = p[n - 1] + lengths[n]
  <2> DEFINE m == n - 1
             f == [i \in 0 .. n - 1 |-> lengths[i + 1]]
             g == [i \in 0 .. m - 1 |-> lengths[i + 1]]
  <2>1. m \in Nat /\ n = m + 1 /\ m \in 0 .. count /\ n \in 0 .. count
    BY <1>1
  <2>2. ASSUME NEW i \in 0 .. n - 1 PROVE f[i] \in Int
    <3>1. i + 1 \in 1 .. count
      BY <1>1
    <3> QED BY <1>1, <3>1
  <2>3. Terms(f, m + 1) /\ Terms(g, m) /\ \A i \in 0 .. m - 1 : g[i] = f[i]
    <3>1. \A i \in 0 .. m - 1 : i \in 0 .. n - 1 /\ g[i] = f[i]
      BY <2>1
    <3> HIDE DEF f, g, m
    <3> QED BY <2>1, <2>2, <3>1 DEF Terms
  <2>4. f[m] = lengths[n]
    BY <2>1
  <2>5. p[n] = SumOf(f, n) /\ p[m] = SumOf(g, m)
    BY <1>2, <2>1
  <2> HIDE DEF f, g, m
  <2>6. SumOf(f, m + 1) = SumOf(f, m) + f[m] /\ SumOf(g, m) = SumOf(f, m)
    BY <2>1, <2>3, SumOfMore, SameSum
  <2> QED BY <2>1, <2>4, <2>5, <2>6 DEF m
<1> HIDE DEF p
<1> DEFINE S == {n \in Nat : n <= count => p[n] \in Nat}
<1>5. 0 \in S
  BY <1>3
<1>6. ASSUME NEW n \in Nat, n \in S PROVE n + 1 \in S
  <2> SUFFICES ASSUME n + 1 <= count PROVE p[n + 1] \in Nat
    OBVIOUS
  <2>1. n + 1 \in 1 .. count /\ (n + 1) - 1 = n /\ p[n] \in Nat /\ lengths[n + 1] \in Nat
    BY <1>1, <1>6
  <2>2. p[n + 1] = p[n] + lengths[n + 1]
    BY <1>4, <2>1
  <2> QED BY <2>1, <2>2
<1>7. \A n \in 0 .. count : p[n] \in Nat
  <2>1. Nat \subseteq S
    <3> HIDE DEF S
    <3> QED BY <1>5, <1>6, InductiveSet
  <2> QED BY <1>1, <2>1
<1>8. Len(chain) = count
  BY <1>1 DEF ProvedChain, count
<1>9. ASSUME NEW n \in 1 .. count
      PROVE  /\ p[n - 1] <= p[n]
             /\ chain[n] = ProvedSegment(x * 2^p[n - 1], p[n] - p[n - 1], k)
             /\ BOf(x * 2^p[n - 1], x * 2^p[n]) \in Nat
             /\ 2^k <= BOf(x * 2^p[n - 1], x * 2^p[n])
  <2> DEFINE d == lengths[n]
             a == 2^p[n - 1]
             b == 2^d
             sg == ProvedSegment(x * a, d, k)
  <2>1. n - 1 \in 0 .. count /\ n \in 0 .. count /\ d \in Nat
    BY <1>1
  <2>2. p[n - 1] \in Nat /\ p[n] = p[n - 1] + d
    BY <1>4, <1>7, <2>1
  <2>3. p[n] - p[n - 1] = d /\ p[n - 1] <= p[n]
    BY <2>1, <2>2
  <2>4. chain[n] = sg
    BY <2>1 DEF ProvedChain, p, count
  <2>5. sg.x = x * a /\ sg.y = x * a * b
    BY DEF ProvedSegment
  <2>6. x * a * b = x * 2^p[n]
    <3>1. a \in Nat /\ b \in Nat /\ 2^p[n] = a * b
      BY <2>1, <2>2, PowerSplit
    <3> HIDE DEF a, b
    <3> QED BY <3>1
  <2>7. BOf(sg.x, sg.y) \in Nat /\ 2^k <= BOf(sg.x, sg.y)
    BY <2>4 DEF count
  <2> HIDE DEF sg
  <2> QED BY <2>3, <2>4, <2>5, <2>6, <2>7 DEF sg
<1> HIDE DEF chain
<1>10. ChainAlong(x, p, chain, k)
  BY <1>3, <1>7, <1>8, <1>9 DEF ChainAlong
<1>11. p[count] = Iterations(lengths, count)
  BY <1>1 DEF p
<1>12. LET y == x * 2^p[count]
           blob == Assembled(y, chain)
           B == GetBFromProof(x, blob, p[count], count - 1)
       IN  /\ CheckProofOfTimeNWesolowski(x, blob, p[count], count - 1)
           /\ CheckProofOfTimeNWesolowskiWithB(B, x, blob, p[count], count - 1) = <<y>>
  BY <1>1, <1>8, <1>10, ChainVerifies
<1> QED BY <1>11, <1>12, Zenon DEF chain, count

\* What ProveTwoWeso proves itself is a part of the iterations.
LEMMA FirstPartType ==
  ASSUME NEW iters \in Nat, NEW hundred \in Nat \ {0}
  PROVE  FirstPart(iters, hundred) \in 0 .. iters
<1> DEFINE third == (iters * 2) \div 3
           r == third % hundred
<1>1. third \in 0 .. iters
  OBVIOUS
<1>2. r \in 0 .. third
  <2> HIDE DEF third
  <2>1. third = hundred * (third \div hundred) + r /\ r \in 0 .. hundred - 1
        /\ third \div hundred \in Nat
    BY <1>1
  <2> DEFINE q == third \div hundred
  <2>2. hundred * q \in Nat
    <3>1. q \in Nat
      BY <2>1
    <3> HIDE DEF q
    <3> QED BY <3>1
  <2> HIDE DEF r, q
  <2> DEFINE hq == hundred * q
  <2>3. hq \in Nat /\ third = hq + r /\ r \in Nat
    BY <2>1, <2>2 DEF q
  <2> HIDE DEF hq
  <2> QED BY <2>3
<1> HIDE DEF third, r
<1>3. third - r \in 0 .. iters
  BY <1>1, <1>2
<1> QED BY <1>3 DEF FirstPart, third, r

\* The calls of ProveTwoWeso.
NextCall(c, hundred) ==
  LET iterations1 == FirstPart(c.iters, hundred)
  IN  [x |-> c.x * 2^iterations1, iters |-> c.iters - iterations1]

Calls(call, x, iters, hundred) ==
  call = [depth \in 0 .. 2 |->
            IF depth = 0 THEN [x |-> x, iters |-> iters]
            ELSE NextCall(call[depth - 1], hundred)]

LEMMA CallsAre ==
  ASSUME NEW x, NEW iters, NEW k, NEW hundred
  PROVE  LET c0 == [x |-> x, iters |-> iters]
             c1 == NextCall(c0, hundred)
             c2 == NextCall(c1, hundred)
             Proved(c) == SegmentBytes(ProvedSegment(c.x, FirstPart(c.iters, hundred), k))
         IN  ProveTwoWeso(x, iters, k, hundred)
               = [ProveSlow(c2.x, c2.iters, k, 1) EXCEPT !.segs = <<Proved(c1), Proved(c0)>>]
<1> DEFINE c0 == [x |-> x, iters |-> iters]
           c1 == NextCall(c0, hundred)
           c2 == NextCall(c1, hundred)
           Proved(c) == SegmentBytes(ProvedSegment(c.x, FirstPart(c.iters, hundred), k))
           g == [depth \in 0 .. 2 |-> IF depth = 0 THEN c0 ELSE IF depth = 1 THEN c1 ELSE c2]
           h == CHOOSE call : Calls(call, x, iters, hundred)
<1>1. Calls(g, x, iters, hundred)
  <2>1. ASSUME NEW depth \in 0 .. 2
        PROVE  g[depth] = IF depth = 0 THEN c0 ELSE NextCall(g[depth - 1], hundred)
    <3> HIDE DEF c0
    <3>1. CASE depth = 0
      BY <3>1
    <3>2. CASE depth = 1
      BY <3>2
    <3>3. CASE depth = 2
      BY <3>3
    <3> QED BY <3>1, <3>2, <3>3
  <2>2. g = [depth \in 0 .. 2 |-> IF depth = 0 THEN c0 ELSE NextCall(g[depth - 1], hundred)]
    <3> HIDE DEF c0, c1, c2
    <3> QED BY <2>1
  <2> QED BY <2>2, Zenon DEF Calls
<1>2. Calls(h, x, iters, hundred)
  <2> HIDE DEF g
  <2> QED BY <1>1, Zenon
<1>3. h[0] = c0 /\ h[1] = c1 /\ h[2] = c2
  <2> HIDE DEF h
  <2>1. \A depth \in 0 .. 2 : h[depth] = IF depth = 0 THEN c0 ELSE NextCall(h[depth - 1], hundred)
    BY <1>2, Zenon DEF Calls
  <2> HIDE DEF c0
  <2>2. h[0] = c0
    BY <2>1
  <2>3. h[1] = NextCall(h[0], hundred)
    BY <2>1
  <2>4. h[2] = NextCall(h[1], hundred)
    BY <2>1
  <2> QED BY <2>2, <2>3, <2>4
<1>4. ProveTwoWeso(x, iters, k, hundred)
        = [ProveSlow(h[2].x, h[2].iters, k, 1) EXCEPT !.segs = <<Proved(h[1]), Proved(h[0])>>]
  BY Zenon DEF ProveTwoWeso, Calls, NextCall
<1> HIDE DEF h
<1> QED BY <1>3, <1>4, Zenon

\* ProveTwoWeso: its three parts are accepted for all iterations, at depth 2.
THEOREM ProveTwoWesoIsAccepted ==
  ASSUME NEW x \in Int, NEW iters \in Nat, NEW k \in Nat \ {0}, NEW hundred \in Nat \ {0},
         \A a, b \in 0 .. iters :
           LET B == BOf(x * 2^a, x * 2^b) IN B \in Nat /\ 2^k <= B
  PROVE  CheckProofOfTimeNWesolowski(x, ProveTwoWeso(x, iters, k, hundred), iters, 2)
<1> DEFINE f0 == FirstPart(iters, hundred)
           i1 == iters - f0
           f1 == FirstPart(i1, hundred)
           i2 == i1 - f1
           x1 == x * 2^f0
           x2 == x1 * 2^f1
           p == [n \in 0 .. 3 |-> IF n = 0 THEN 0 ELSE IF n = 1 THEN f0
                                  ELSE IF n = 2 THEN f0 + f1 ELSE iters]
           chain == <<ProvedSegment(x, f0, k), ProvedSegment(x1, f1, k), ProvedSegment(x2, i2, k)>>
           y == x * 2^iters
<1>1. f0 \in 0 .. iters /\ i1 \in Nat /\ f1 \in 0 .. i1 /\ i2 \in Nat /\ f1 \in Nat /\ f0 \in Nat
  <2>1. f0 \in 0 .. iters
    BY FirstPartType
  <2> HIDE DEF f0
  <2>2. i1 \in Nat
    BY <2>1
  <2> HIDE DEF i1
  <2>3. f1 \in 0 .. i1
    BY <2>2, FirstPartType
  <2> HIDE DEF f1
  <2> QED BY <2>1, <2>2, <2>3
<1> HIDE DEF f0, f1
<1>2. p[0] = 0 /\ p[1] = f0 /\ p[2] = f0 + f1 /\ p[3] = iters
  OBVIOUS
<1>3. /\ p[0] \in 0 .. iters /\ p[1] \in 0 .. iters /\ p[2] \in 0 .. iters /\ p[3] \in 0 .. iters
      /\ p[0] <= p[1] /\ p[1] <= p[2] /\ p[2] <= p[3]
      /\ p[1] - p[0] = f0 /\ p[2] - p[1] = f1 /\ p[3] - p[2] = i2
  BY <1>1, <1>2
<1> HIDE DEF p
<1>4. x * 2^p[0] = x /\ x * 2^p[1] = x1 /\ x * 2^p[2] = x2 /\ x2 * 2^i2 = y
  <2> DEFINE a == 2^f0
             b == 2^f1
             c == 2^i2
  <2>1. a \in Nat /\ b \in Nat /\ c \in Nat /\ 2^(f0 + f1) = a * b /\ 2^iters = a * b * c
    <3> HIDE DEF i2
    <3>1. a \in Nat /\ b \in Nat /\ c \in Nat /\ 2^(f0 + f1) = a * b /\ f0 + f1 \in Nat
      BY <1>1, PowerOfTwo, PowerOfSum
    <3>2. (f0 + f1) + i2 = iters
      BY <1>1 DEF i2
    <3>3. 2^((f0 + f1) + i2) = 2^(f0 + f1) * c
      BY <1>1, <3>1, PowerOfSum
    <3> QED BY <3>1, <3>2, <3>3
  <2>2. x * 2^p[0] = x
    BY <1>2, PowerOfZero
  <2>3. x * 2^p[1] = x1
    BY <1>2
  <2>4. x * (a * b) = (x * a) * b /\ ((x * a) * b) * c = x * (a * b * c)
    <3> HIDE DEF a, b, c
    <3> QED BY <2>1
  <2>5. x * 2^p[2] = x2
    BY <1>2, <2>1, <2>4
  <2>6. x2 * 2^i2 = y
    <3>1. x2 * 2^i2 = ((x * a) * b) * c
      OBVIOUS
    <3>2. y = x * (a * b * c)
      BY <2>1
    <3> HIDE DEF y, x2
    <3> QED BY <2>4, <3>1, <3>2
  <2> QED BY <2>2, <2>3, <2>5, <2>6
<1> HIDE DEF i2, x1, x2
<1>5. Len(chain) = 3 /\ chain[1] = ProvedSegment(x, f0, k) /\ chain[2] = ProvedSegment(x1, f1, k)
      /\ chain[3] = ProvedSegment(x2, i2, k)
  OBVIOUS
<1> HIDE DEF chain, y
<1>6. ChainAlong(x, p, chain, k)
  <2>1. \A n \in 0 .. 3 : p[n] \in Nat
    <3>1. ASSUME NEW n \in 0 .. 3 PROVE p[n] \in Nat
      <4>1. n = 0 \/ n = 1 \/ n = 2 \/ n = 3
        OBVIOUS
      <4> QED BY <1>3, <4>1
    <3> QED BY <3>1
  <2>2. ASSUME NEW n \in 1 .. 3
        PROVE  /\ p[n - 1] <= p[n]
               /\ chain[n] = ProvedSegment(x * 2^p[n - 1], p[n] - p[n - 1], k)
               /\ p[n - 1] \in 0 .. iters /\ p[n] \in 0 .. iters
    <3>1. CASE n = 1
      <4>1. n - 1 = 0
        BY <3>1
      <4> QED BY <1>3, <1>4, <1>5, <3>1, <4>1
    <3>2. CASE n = 2
      <4>1. n - 1 = 1
        BY <3>2
      <4> QED BY <1>3, <1>4, <1>5, <3>2, <4>1
    <3>3. CASE n = 3
      <4>1. n - 1 = 2
        BY <3>3
      <4> QED BY <1>3, <1>4, <1>5, <3>3, <4>1
    <3> QED BY <3>1, <3>2, <3>3
  <2>3. \A n \in 1 .. 3 : /\ BOf(x * 2^p[n - 1], x * 2^p[n]) \in Nat
                          /\ 2^k <= BOf(x * 2^p[n - 1], x * 2^p[n])
    BY <2>2
  <2> QED BY <1>2, <1>5, <2>1, <2>2, <2>3 DEF ChainAlong
<1>7. CheckProofOfTimeNWesolowski(x, Assembled(y, chain), iters, 2)
  <2>1. Len(chain) \in Nat \ {0}
    BY <1>5
  <2>2. CheckProofOfTimeNWesolowski(x, Assembled(x * 2^p[Len(chain)], chain), p[Len(chain)],
                                    Len(chain) - 1)
    BY <1>6, <2>1, ChainVerifies
  <2>3. Len(chain) = 3 /\ p[Len(chain)] = iters /\ Len(chain) - 1 = 2
    BY <1>2, <1>5
  <2> QED BY <2>2, <2>3 DEF y
<1>8. ProveTwoWeso(x, iters, k, hundred) = Assembled(y, chain)
  <2> DEFINE c0 == [x |-> x, iters |-> iters]
             c1 == NextCall(c0, hundred)
             c2 == NextCall(c1, hundred)
             Proved(c) == SegmentBytes(ProvedSegment(c.x, FirstPart(c.iters, hundred), k))
             slow == ProveSlow(c2.x, c2.iters, k, 1)
             s0 == SegmentBytes(ProvedSegment(x, f0, k))
             s1 == SegmentBytes(ProvedSegment(x1, f1, k))
             proof == GenerateProof(x2, y, i2, k, 1)
  <2>1. c1 = [x |-> x1, iters |-> i1]
    BY DEF NextCall, f0, x1
  <2>2. c2 = [x |-> x2, iters |-> i2]
    <3> HIDE DEF c1, i1
    <3> QED BY <2>1 DEF NextCall, f1, x2, i2
  <2>3. Proved(c0) = s0 /\ Proved(c1) = s1
    <3>1. c0.x = x /\ c0.iters = iters
      OBVIOUS
    <3>2. c1.x = x1 /\ c1.iters = i1
      BY <2>1
    <3> HIDE DEF c0, c1
    <3> QED BY <3>1, <3>2 DEF f0, f1
  <2>4. slow = [y |-> y, proof |-> proof, segs |-> << >>]
    <3>1. c2.x = x2 /\ c2.iters = i2
      BY <2>2
    <3> HIDE DEF c2
    <3> QED BY <1>4, <3>1 DEF ProveSlow
  <2>5. ProveTwoWeso(x, iters, k, hundred) = [slow EXCEPT !.segs = <<Proved(c1), Proved(c0)>>]
    BY CallsAre, Zenon
  <2>6. ProveTwoWeso(x, iters, k, hundred) = [y |-> y, proof |-> proof, segs |-> <<s1, s0>>]
    <3> HIDE DEF slow, c0, c1, proof, s0, s1
    <3> QED BY <2>3, <2>4, <2>5
  <2>7. chain[3].proof = proof
    <3> HIDE DEF proof
    <3> QED BY <1>4, <1>5 DEF ProvedSegment, proof
  <2>8. [i \in 1 .. 2 |-> SegmentBytes(chain[3 - i])] = <<s1, s0>>
    <3>1. SegmentBytes(chain[2]) = s1 /\ SegmentBytes(chain[1]) = s0
      BY <1>5
    <3> HIDE DEF s0, s1
    <3>2. ASSUME NEW i \in 1 .. 2 PROVE SegmentBytes(chain[3 - i]) = <<s1, s0>>[i]
      <4>1. CASE i = 1
        <5>1. 3 - i = 2
          BY <4>1
        <5> QED BY <3>1, <4>1, <5>1
      <4>2. CASE i = 2
        <5>1. 3 - i = 1
          BY <4>2
        <5> QED BY <3>1, <4>2, <5>1
      <4> QED BY <4>1, <4>2
    <3>3. <<s1, s0>> = [i \in 1 .. 2 |-> <<s1, s0>>[i]]
      OBVIOUS
    <3> QED BY <3>2, <3>3
  <2>9. Assembled(y, chain) = [y |-> y, proof |-> proof, segs |-> <<s1, s0>>]
    <3> HIDE DEF s0, s1, proof
    <3>1. Assembled(y, chain)
            = [y |-> y, proof |-> chain[3].proof,
               segs |-> [i \in 1 .. 3 - 1 |-> SegmentBytes(chain[3 - i])]]
      BY <1>5, Zenon DEF Assembled
    <3>2. 3 - 1 = 2
      OBVIOUS
    <3> QED BY <2>7, <2>8, <3>1, <3>2
  <2> QED BY <2>6, <2>9
<1> QED BY <1>7, <1>8

=============================================================================
