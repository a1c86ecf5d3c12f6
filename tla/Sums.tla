-------------------------------- MODULE Sums --------------------------------
(***************************************************************************)
(* The sum of a function over a finite set, as MapThenSumSet and FoldSet   *)
(* compute it: by a recursive function over the subsets of the set.  What  *)
(* the proofs about counters that are kept per model, node or device need  *)
(* of it: it is the same in any order, grows with its terms, and changes   *)
(* by as much as one of them.                                              *)
(***************************************************************************)
EXTENDS Integers, FiniteSets, FiniteSetsExt, FiniteSetTheorems, WellFoundedInduction, TLAPS

\* What holds of zero, and of the successor of each number it holds of, holds of
\* all: a number it does not hold of would have a least one.
LEMMA Induction ==
  ASSUME NEW S, 0 \in S, \A n \in Nat : n \in S => n + 1 \in S
  PROVE  Nat \subseteq S
<1> DEFINE R == {ss \in Nat \X Nat : ss[1] < ss[2]}
           bad == Nat \ S
<1>1. IsWellFoundedOn(R, Nat)
  BY NatLessThanWellFounded DEF OpToRel
<1> SUFFICES ASSUME bad # {} PROVE FALSE
  OBVIOUS
<1> HIDE DEF R
<1>2. PICK x \in bad : \A y \in bad : ~(<<y, x>> \in R)
  BY <1>1, WFMin
<1>3. x \in Nat /\ x # 0
  OBVIOUS
<1>4. x - 1 \in Nat /\ <<x - 1, x>> \in R
  BY <1>3 DEF R
<1>5. x - 1 \in S
  BY <1>2, <1>4
<1> QED
  BY <1>3, <1>4, <1>5

\* The element of T that a sum over T is taken at.
Pick(T) == CHOOSE x \in T : TRUE

\* g is the recursive function that sums h over the subsets of S.
Adds(h, S, g) == g = [T \in SUBSET S |-> IF T = {} THEN 0 ELSE h[Pick(T)] + g[T \ {Pick(T)}]]

\* v is the sum of h over S.
IsSum(h, S, v) == \E g : Adds(h, S, g) /\ v = g[S]

\* The subsets of S up to a size.
Upto(S, n) == {T \in SUBSET S : Cardinality(T) <= n}

LEMMA PickIs ==
  ASSUME NEW S, IsFiniteSet(S), NEW T \in SUBSET S, T # {}
  PROVE  /\ Pick(T) \in T /\ T \ {Pick(T)} \in SUBSET S
         /\ Cardinality(T) \in Nat /\ Cardinality(T \ {Pick(T)}) = Cardinality(T) - 1
<1>1. Pick(T) \in T
  BY DEF Pick
<1>2. IsFiniteSet(T)
  BY FS_Subset
<1> QED
  BY <1>1, <1>2, FS_RemoveElement, FS_CardinalityType

\* The recursive function exists: it is built up by the size of the subsets.
LEMMA AddsExists ==
  ASSUME NEW S, IsFiniteSet(S), NEW h \in [S -> Int]
  PROVE  \E g \in [SUBSET S -> Int] : Adds(h, S, g)
<1> DEFINE Body(g, T) == IF T = {} THEN 0 ELSE h[Pick(T)] + g[T \ {Pick(T)}]
           N == {n \in Nat : \E g \in [SUBSET S -> Int] : \A T \in Upto(S, n) : g[T] = Body(g, T)}
<1>1. \A T \in SUBSET S : IsFiniteSet(T) /\ Cardinality(T) \in Nat
  BY FS_Subset, FS_CardinalityType
<1>2. 0 \in N
  <2> DEFINE z == [T \in SUBSET S |-> 0]
  <2>1. \A T \in Upto(S, 0) : T = {}
    BY <1>1, FS_EmptySet DEF Upto
  <2>2. z \in [SUBSET S -> Int] /\ \A T \in Upto(S, 0) : z[T] = Body(z, T)
    BY <2>1 DEF Upto
  <2> QED
    BY <2>2
<1>3. ASSUME NEW n \in Nat, n \in N PROVE n + 1 \in N
  <2>1. PICK g \in [SUBSET S -> Int] : \A T \in Upto(S, n) : g[T] = Body(g, T)
    BY <1>3
  <2> DEFINE k == [T \in SUBSET S |-> IF Cardinality(T) <= n THEN g[T] ELSE Body(g, T)]
  <2>2. ASSUME NEW T \in SUBSET S PROVE Body(g, T) \in Int
    <3>1. T # {} => h[Pick(T)] \in Int /\ g[T \ {Pick(T)}] \in Int
      BY PickIs
    <3> QED
      BY <3>1
  <2>3. k \in [SUBSET S -> Int]
    BY <2>2
  <2>4. ASSUME NEW T \in Upto(S, n + 1) PROVE k[T] = Body(k, T)
    <3>1. T \in SUBSET S /\ Cardinality(T) <= n + 1 /\ Cardinality(T) \in Nat
      BY <1>1 DEF Upto
    <3>2. k[T] = Body(g, T)
      BY <2>1, <3>1 DEF Upto
    <3>3. CASE T = {}
      BY <3>2, <3>3
    <3>4. CASE T # {}
      <4>1. T \ {Pick(T)} \in SUBSET S /\ Cardinality(T \ {Pick(T)}) <= n
        BY <3>1, <3>4, PickIs
      <4>2. k[T \ {Pick(T)}] = g[T \ {Pick(T)}]
        BY <4>1
      <4> HIDE DEF k
      <4> QED
        BY <3>2, <3>4, <4>2
    <3> QED
      BY <3>3, <3>4
  <2> HIDE DEF k, Body
  <2> QED
    BY <2>3, <2>4
<1> HIDE DEF N
<1>4. Cardinality(S) \in N
  <2>1. Nat \subseteq N
    BY <1>2, <1>3, Induction
  <2> QED
    BY <1>1, <2>1
<1>5. PICK g \in [SUBSET S -> Int] : \A T \in Upto(S, Cardinality(S)) : g[T] = Body(g, T)
  BY <1>4 DEF N
<1>6. Upto(S, Cardinality(S)) = SUBSET S
  BY FS_Subset DEF Upto
<1>7. g = [T \in SUBSET S |-> Body(g, T)]
  BY <1>5, <1>6
<1> QED
  BY <1>7 DEF Adds

LEMMA AddsAre ==
  ASSUME NEW S, IsFiniteSet(S), NEW h \in [S -> Int], NEW g, Adds(h, S, g)
  PROVE  /\ \A T : T = {} => g[T] = 0
         /\ \A T \in SUBSET S : T # {} => g[T] = h[Pick(T)] + g[T \ {Pick(T)}]
         /\ \A T \in SUBSET S : g[T] \in Int
<1>1. (\A T : T = {} => g[T] = 0) /\ \A T \in SUBSET S : T # {} => g[T] = h[Pick(T)] + g[T \ {Pick(T)}]
  BY DEF Adds
<1> DEFINE N == {n \in Nat : \A T \in Upto(S, n) : g[T] \in Int}
<1>2. \A T \in SUBSET S : IsFiniteSet(T) /\ Cardinality(T) \in Nat
  BY FS_Subset, FS_CardinalityType
<1>3. 0 \in N
  <2>1. \A T \in Upto(S, 0) : T = {}
    BY <1>2, FS_EmptySet DEF Upto
  <2>2. \A U : U = {} => g[U] = 0
    BY <1>1
  <2> QED
    BY <2>1, <2>2
<1>4. ASSUME NEW n \in Nat, n \in N PROVE n + 1 \in N
  <2> SUFFICES ASSUME NEW T \in Upto(S, n + 1), T # {} PROVE g[T] \in Int
    <3>1. \A T : T = {} => g[T] \in Int
      BY <1>1
    <3> QED
      BY <3>1
  <2>1. T \in SUBSET S /\ Cardinality(T) <= n + 1
    BY DEF Upto
  <2>2. Pick(T) \in S /\ T \ {Pick(T)} \in Upto(S, n)
    BY <2>1, PickIs DEF Upto
  <2>3. g[T \ {Pick(T)}] \in Int /\ h[Pick(T)] \in Int
    BY <1>4, <2>2
  <2> QED
    BY <1>1, <2>1, <2>3
<1> HIDE DEF N
<1>5. Nat \subseteq N
  BY <1>3, <1>4, Induction
<1>6. ASSUME NEW T \in SUBSET S PROVE g[T] \in Int
  <2>1. Cardinality(T) \in N /\ T \in Upto(S, Cardinality(T))
    BY <1>2, <1>5 DEF Upto
  <2> QED
    BY <2>1 DEF N
<1> QED
  BY <1>1, <1>6

\* The sum does not depend on the element it is begun at.
LEMMA AddsAnywhere ==
  ASSUME NEW S, IsFiniteSet(S), NEW h \in [S -> Int], NEW g, Adds(h, S, g),
         NEW T \in SUBSET S, NEW x \in T
  PROVE  g[T] = h[x] + g[T \ {x}]
<1> DEFINE N == {n \in Nat : \A U \in Upto(S, n) : \A y \in U : g[U] = h[y] + g[U \ {y}]}
<1>1. /\ \A U : U = {} => g[U] = 0
      /\ \A U \in SUBSET S : U # {} => g[U] = h[Pick(U)] + g[U \ {Pick(U)}]
      /\ \A U \in SUBSET S : g[U] \in Int
  BY AddsAre
<1>2. \A U \in SUBSET S : IsFiniteSet(U) /\ Cardinality(U) \in Nat
  BY FS_Subset, FS_CardinalityType
<1>3. 0 \in N
  <2>1. \A U \in Upto(S, 0) : U = {}
    BY <1>2, FS_EmptySet DEF Upto
  <2> QED
    BY <2>1
<1>4. ASSUME NEW n \in Nat, n \in N PROVE n + 1 \in N
  <2> SUFFICES ASSUME NEW U \in Upto(S, n + 1), NEW y \in U PROVE g[U] = h[y] + g[U \ {y}]
    OBVIOUS
  <2> DEFINE c == Pick(U)
             V == U \ {c}
             W == U \ {y}
  <2>1. U \in SUBSET S /\ Cardinality(U) <= n + 1 /\ U # {}
    BY DEF Upto
  <2>2. c \in U /\ V \in Upto(S, n) /\ g[U] = h[c] + g[V]
    <3>1. c \in U /\ V \in SUBSET S /\ Cardinality(V) = Cardinality(U) - 1 /\ Cardinality(U) \in Nat
      BY <2>1, PickIs
    <3>2. g[U] = h[c] + g[V]
      BY <1>1, <2>1
    <3> QED
      BY <2>1, <3>1, <3>2 DEF Upto
  <2>3. W \in Upto(S, n)
    <3>1. Cardinality(W) = Cardinality(U) - 1 /\ Cardinality(U) \in Nat
      BY <1>2, <2>1, FS_RemoveElement
    <3> QED
      BY <2>1, <3>1 DEF Upto
  <2> HIDE DEF c
  <2>4. CASE y = c
    BY <2>2, <2>4
  <2>5. CASE y # c
    <3>1. y \in V /\ c \in W /\ V \ {y} = W \ {c}
      BY <2>2, <2>5
    <3>2. g[V] = h[y] + g[V \ {y}] /\ g[W] = h[c] + g[W \ {c}]
      BY <1>4, <2>2, <2>3, <3>1
    <3>3. h[y] \in Int /\ h[c] \in Int /\ g[V \ {y}] \in Int /\ g[V \ {y}] = g[W \ {c}]
      BY <1>1, <2>1, <2>2, <3>1
    <3> HIDE DEF V
    <3>4. h[c] + (h[y] + g[V \ {y}]) = h[y] + (h[c] + g[V \ {y}])
      BY <3>3
    <3> HIDE DEF W
    <3>5. g[U] = h[y] + g[W]
      BY <2>2, <3>2, <3>3, <3>4
    <3> QED
      BY <3>5 DEF W
  <2> QED
    BY <2>4, <2>5
<1> HIDE DEF N
<1>5. Nat \subseteq N
  BY <1>3, <1>4, Induction
<1>6. Cardinality(T) \in N /\ T \in Upto(S, Cardinality(T))
  BY <1>2, <1>5 DEF Upto
<1> QED
  BY <1>6 DEF N

\* What is less at each point is less in the sum.
LEMMA AddsGrow ==
  ASSUME NEW S, IsFiniteSet(S), NEW h \in [S -> Int], NEW k \in [S -> Int],
         NEW g, Adds(h, S, g), NEW l, Adds(k, S, l),
         NEW T \in SUBSET S, \A x \in T : h[x] <= k[x]
  PROVE  g[T] <= l[T]
<1> DEFINE N == {n \in Nat : \A U \in Upto(S, n) : U \subseteq T => g[U] <= l[U]}
<1>1. /\ \A U \in SUBSET S : U # {} => g[U] = h[Pick(U)] + g[U \ {Pick(U)}] /\ l[U] = k[Pick(U)] + l[U \ {Pick(U)}]
      /\ \A U \in SUBSET S : g[U] \in Int /\ l[U] \in Int
      /\ \A U : U = {} => g[U] = 0 /\ l[U] = 0
  BY AddsAre
<1>2. \A U \in SUBSET S : IsFiniteSet(U) /\ Cardinality(U) \in Nat
  BY FS_Subset, FS_CardinalityType
<1>3. 0 \in N
  <2>1. \A U \in Upto(S, 0) : U = {}
    BY <1>2, FS_EmptySet DEF Upto
  <2>2. \A U : U = {} => g[U] <= l[U]
    BY <1>1
  <2> QED
    BY <2>1, <2>2
<1>4. ASSUME NEW n \in Nat, n \in N PROVE n + 1 \in N
  <2> SUFFICES ASSUME NEW U \in Upto(S, n + 1), U \subseteq T, U # {} PROVE g[U] <= l[U]
    <3>1. \A U : U = {} => g[U] <= l[U]
      BY <1>1
    <3> QED
      BY <3>1
  <2> DEFINE c == Pick(U)
             V == U \ {c}
  <2>1. U \in SUBSET S /\ Cardinality(U) <= n + 1
    BY DEF Upto
  <2>2. c \in U /\ V \in Upto(S, n) /\ V \in SUBSET S /\ V \subseteq T /\ g[U] = h[c] + g[V] /\ l[U] = k[c] + l[V]
    <3>1. c \in U /\ V \in SUBSET S /\ Cardinality(V) = Cardinality(U) - 1 /\ Cardinality(U) \in Nat
      BY <2>1, PickIs
    <3>2. g[U] = h[c] + g[V] /\ l[U] = k[c] + l[V]
      BY <1>1, <2>1
    <3> QED
      BY <2>1, <3>1, <3>2 DEF Upto
  <2> HIDE DEF c, V
  <2>3. g[V] <= l[V] /\ h[c] <= k[c]
    BY <1>4, <2>2
  <2>4. g[V] \in Int /\ l[V] \in Int /\ h[c] \in Int /\ k[c] \in Int
    BY <1>1, <2>1, <2>2
  <2> QED
    BY <2>2, <2>3, <2>4
<1> HIDE DEF N
<1>5. Nat \subseteq N
  BY <1>3, <1>4, Induction
<1>6. Cardinality(T) \in N /\ T \in Upto(S, Cardinality(T))
  BY <1>2, <1>5 DEF Upto
<1> QED
  BY <1>6 DEF N

-----------------------------------------------------------------------------
LEMMA SumIsInt ==
  ASSUME NEW S, IsFiniteSet(S), NEW h \in [S -> Int], NEW v, IsSum(h, S, v)
  PROVE  v \in Int
  BY AddsAre DEF IsSum

LEMMA SumGrows ==
  ASSUME NEW S, IsFiniteSet(S), NEW h \in [S -> Int], NEW k \in [S -> Int],
         NEW v, IsSum(h, S, v), NEW w, IsSum(k, S, w), \A x \in S : h[x] <= k[x]
  PROVE  v <= w
  BY AddsGrow DEF IsSum

LEMMA SumOfZeros ==
  ASSUME NEW S, IsFiniteSet(S), NEW h \in [S -> Int], NEW v, IsSum(h, S, v), \A x \in S : h[x] = 0
  PROVE  v = 0
<1> DEFINE z == [T \in SUBSET S |-> 0]
<1>1. Adds(h, S, z)
  BY PickIs DEF Adds
<1>2. z[S] = 0
  OBVIOUS
<1>3. IsSum(h, S, 0)
  BY <1>1, <1>2 DEF IsSum
<1>4. v <= 0 /\ 0 <= v
  BY <1>3, SumGrows
<1> QED
  BY <1>4, SumIsInt

LEMMA SumIsNat ==
  ASSUME NEW S, IsFiniteSet(S), NEW h \in [S -> Nat], NEW v, IsSum(h, S, v)
  PROVE  v \in Nat
<1> DEFINE z == [x \in S |-> 0]
<1>1. PICK g : Adds(z, S, g)
  <2>1. z \in [S -> Int]
    OBVIOUS
  <2> HIDE DEF z
  <2> QED
    BY <2>1, AddsExists
<1>2. IsSum(z, S, g[S])
  BY <1>1 DEF IsSum
<1>3. g[S] = 0 /\ g[S] <= v
  BY <1>2, SumOfZeros, SumGrows
<1> QED
  BY <1>3, SumIsInt

\* A change at one point changes the sum by as much.
LEMMA SumMoves ==
  ASSUME NEW S, IsFiniteSet(S), NEW h \in [S -> Int], NEW k \in [S -> Int],
         NEW v, IsSum(h, S, v), NEW w, IsSum(k, S, w),
         NEW x \in S, \A y \in S \ {x} : h[y] = k[y]
  PROVE  w = v + (k[x] - h[x])
<1>1. PICK g : Adds(h, S, g) /\ v = g[S]
  BY DEF IsSum
<1>2. PICK l : Adds(k, S, l) /\ w = l[S]
  BY DEF IsSum
<1>3. v = h[x] + g[S \ {x}] /\ w = k[x] + l[S \ {x}]
  BY <1>1, <1>2, AddsAnywhere
<1>4. g[S \ {x}] \in Int /\ l[S \ {x}] \in Int
  BY <1>1, <1>2, AddsAre
<1>5. g[S \ {x}] <= l[S \ {x}] /\ l[S \ {x}] <= g[S \ {x}]
  <2>1. (\A y \in S \ {x} : h[y] <= k[y]) /\ (\A y \in S \ {x} : k[y] <= h[y])
    OBVIOUS
  <2> QED
    BY <1>1, <1>2, <2>1, AddsGrow
<1> QED
  BY <1>3, <1>4, <1>5
=============================================================================
