---------------------------- MODULE ChoiceProofs -----------------------------
(* Draws by weight and choices from a slice, for every list and slice.  What *)
(* is defined by recursion is reasoned about by its smallest counterexample. *)
EXTENDS Util, FiniteSetTheorems, TLAPS

----------------------------------------------------------------------------
(* Numbers and finite sets.                                                  *)

LEMMA Smallest ==
    ASSUME NEW T \in SUBSET Nat, T # {}
    PROVE  \E n \in T : \A m \in T : n <= m
<1> DEFINE R == OpToRel(<, Nat)
<1>1. IsWellFoundedOn(R, Nat)
    BY NatLessThanWellFounded
<1>2. \A x, y \in Nat : x < y => <<x, y>> \in R
    BY DEF OpToRel
<1> HIDE DEF R
<1>3. PICK n \in T : \A m \in T : ~(<<m, n>> \in R)
    BY <1>1, WFMin
<1>4. \A m \in T : ~(m < n)
    BY <1>2, <1>3
<1> QED BY <1>4

LEMMA MinOf ==
    ASSUME NEW T \in SUBSET Nat, T # {}
    PROVE  Min(T) \in T /\ \A m \in T : Min(T) <= m
<1>1. \E n \in T : \A m \in T : n <= m
    BY Smallest
<1> QED BY <1>1 DEF Min

LEMMA MaxOf ==
    ASSUME NEW n \in Nat, NEW T \in SUBSET (1 .. n), T # {}
    PROVE  Max(T) \in T /\ \A m \in T : m <= Max(T)
<1> DEFINE U == {n - i : i \in T}
<1>1. U \in SUBSET Nat /\ U # {}
    <2>1. \A i \in T : n - i \in Nat
        OBVIOUS
    <2> QED BY <2>1
<1>2. PICK u \in U : \A m \in U : u <= m
    <2> HIDE DEF U
    <2> QED BY <1>1, Smallest
<1>3. PICK i \in T : u = n - i
    BY <1>2
<1>4. \A m \in T : m <= i
    <2> SUFFICES ASSUME NEW m \in T PROVE m <= i
        OBVIOUS
    <2>1. u <= n - m
        BY <1>2
    <2> QED BY <2>1, <1>3
<1>5. \E m \in T : \A j \in T : m >= j
    BY <1>4
<1>6. Max(T) \in T /\ \A j \in T : Max(T) >= j
    BY <1>5 DEF Max
<1> QED BY <1>6

\* An element taken from a set of n + 1 leaves n.
LEMMA TakeOne ==
    ASSUME NEW S, IsFiniteSet(S), NEW x \in S
    PROVE  /\ IsFiniteSet(S \ {x}) /\ Cardinality(S) \in Nat /\ Cardinality(S) > 0
           /\ Cardinality(S \ {x}) \in Nat /\ Cardinality(S \ {x}) = Cardinality(S) - 1
<1>1. IsFiniteSet(S \ {x}) /\ Cardinality(S \ {x}) = Cardinality(S) - 1
    BY FS_RemoveElement
<1>2. Cardinality(S) \in Nat /\ Cardinality(S \ {x}) \in Nat
    BY <1>1, FS_CardinalityType
<1> QED BY <1>1, <1>2

----------------------------------------------------------------------------
(* Sums.  A fold takes the elements in the order CHOOSE gives them.          *)

SumOf(f, S) == FoldFunctionOnSet(LAMBDA a, b : a + b, 0, f, S)

First(T) == CHOOSE x \in T : TRUE
FoldStep(f, g, T) == IF T = {} THEN 0 ELSE f[First(T)] + g[T \ {First(T)}]
IsFold(f, g, D)   == g = [T \in D |-> FoldStep(f, g, T)]

LEMMA SumIsFold ==
    ASSUME NEW f, NEW S
    PROVE  SumOf(f, S) = (CHOOSE g : IsFold(f, g, SUBSET S))[S]
BY DEF SumOf, FoldFunctionOnSet, MapThenFoldSet, IsFold, FoldStep, First

LEMMA FirstIn == \A T : T # {} => First(T) \in T
BY DEF First

\* The sets of at most n elements.
UpTo(n, S) == {T \in SUBSET S : Cardinality(T) <= n}

LEMMA FoldUpTo ==
    ASSUME NEW f, NEW S, IsFiniteSet(S)
    PROVE  \A n \in Nat : \E g : IsFold(f, g, UpTo(n, S))
<1> DEFINE Bad == {n \in Nat : ~\E g : IsFold(f, g, UpTo(n, S))}
<1> SUFFICES ASSUME Bad # {} PROVE FALSE
    OBVIOUS
<1>1. PICK n \in Bad : \A m \in Bad : n <= m
    <2> Bad \in SUBSET Nat
        OBVIOUS
    <2> HIDE DEF Bad
    <2> QED BY Smallest
<1>2. \A T \in SUBSET S : IsFiniteSet(T) /\ Cardinality(T) \in Nat
    BY FS_Subset, FS_CardinalityType
<1>3. CASE n = 0
    <2>1. \A T \in UpTo(0, S) : T = {}
        BY <1>2, FS_EmptySet DEF UpTo
    <2> DEFINE g == [T \in UpTo(0, S) |-> 0]
    <2>2. IsFold(f, g, UpTo(0, S))
        BY <2>1 DEF IsFold, FoldStep
    <2> QED BY <1>3, <2>2
<1>4. CASE n # 0
    <2>1. n - 1 \in Nat /\ n - 1 \notin Bad
        BY <1>1, <1>4
    <2>2. PICK g : IsFold(f, g, UpTo(n - 1, S))
        BY <2>1
    <2> DEFINE h == [T \in UpTo(n, S) |-> FoldStep(f, g, T)]
    <2>3. ASSUME NEW T \in UpTo(n, S) PROVE FoldStep(f, h, T) = FoldStep(f, g, T)
        <3>1. CASE T = {}
            BY <3>1 DEF FoldStep
        <3>2. CASE T # {}
            <4> DEFINE U == T \ {First(T)}
            <4>1. T \in SUBSET S /\ Cardinality(T) <= n /\ First(T) \in T /\ IsFiniteSet(T)
                BY <1>2, <3>2, FirstIn DEF UpTo
            <4>2. Cardinality(U) = Cardinality(T) - 1 /\ Cardinality(T) \in Nat
                BY <4>1, TakeOne
            <4>3. U \in UpTo(n - 1, S) /\ U \in UpTo(n, S)
                BY <4>1, <4>2 DEF UpTo
            <4>4. h[U] = FoldStep(f, g, U) /\ g[U] = FoldStep(f, g, U)
                BY <2>2, <4>3 DEF IsFold
            <4> QED BY <3>2, <4>4 DEF FoldStep
        <3> QED BY <3>1, <3>2
    <2>4. IsFold(f, h, UpTo(n, S))
        BY <2>3, Zenon DEF IsFold
    <2> QED BY <2>4
<1> QED BY <1>3, <1>4

LEMMA FoldExists ==
    ASSUME NEW f, NEW S, IsFiniteSet(S)
    PROVE  IsFold(f, CHOOSE g : IsFold(f, g, SUBSET S), SUBSET S)
<1>1. Cardinality(S) \in Nat /\ \A T \in SUBSET S : Cardinality(T) <= Cardinality(S)
    BY FS_Subset, FS_CardinalityType
<1>2. UpTo(Cardinality(S), S) = SUBSET S
    BY <1>1 DEF UpTo
<1>3. \E g : IsFold(f, g, SUBSET S)
    <2>1. \E g : IsFold(f, g, UpTo(Cardinality(S), S))
        BY <1>1, FoldUpTo
    <2> QED BY <1>2, <2>1, Zenon
<1> QED BY <1>3, Zenon

\* A fold over S is one over each of its subsets.
LEMMA FoldsAgree ==
    ASSUME NEW f, NEW S, NEW U \in SUBSET S, IsFiniteSet(S)
    PROVE  \A g, h : IsFold(f, g, SUBSET S) /\ IsFold(f, h, SUBSET U) => g[U] = h[U]
<1> SUFFICES ASSUME NEW g, IsFold(f, g, SUBSET S), NEW h, IsFold(f, h, SUBSET U)
             PROVE  g[U] = h[U]
    OBVIOUS
<1> DEFINE Bad == {n \in Nat : \E T \in SUBSET U : Cardinality(T) = n /\ g[T] # h[T]}
<1>1. \A T \in SUBSET U : IsFiniteSet(T) /\ Cardinality(T) \in Nat
    BY FS_Subset, FS_CardinalityType
<1>2. ASSUME Bad # {} PROVE FALSE
    <2>1. PICK n \in Bad : \A m \in Bad : n <= m
        <3> Bad \in SUBSET Nat
            OBVIOUS
        <3> HIDE DEF Bad
        <3> QED BY <1>2, Smallest
    <2>2. PICK T \in SUBSET U : Cardinality(T) = n /\ g[T] # h[T]
        BY <2>1
    <2>3. g[T] = FoldStep(f, g, T) /\ h[T] = FoldStep(f, h, T)
        BY <2>2 DEF IsFold
    <2>4. T # {}
        BY <2>2, <2>3 DEF FoldStep
    <2> DEFINE V == T \ {First(T)}
    <2>5. V \in SUBSET U /\ Cardinality(V) \in Nat /\ Cardinality(V) < n
        BY <1>1, <2>2, <2>4, FirstIn, TakeOne
    <2>6. g[V] = h[V]
        <3> HIDE DEF V
        <3>1. Cardinality(V) \notin Bad
            <4>1. n \in Nat
                BY <2>1
            <4> HIDE DEF Bad
            <4> QED BY <2>1, <2>5, <4>1
        <3> QED BY <2>5, <3>1
    <2>7. FoldStep(f, g, T) = FoldStep(f, h, T)
        BY <2>4, <2>6 DEF FoldStep
    <2> QED BY <2>2, <2>3, <2>7
<1> QED BY <1>1, <1>2

LEMMA SumEmpty == ASSUME NEW f PROVE SumOf(f, {}) = 0
<1>1. IsFold(f, CHOOSE g : IsFold(f, g, SUBSET {}), SUBSET {})
    BY FoldExists, FS_EmptySet
<1> QED BY <1>1, SumIsFold DEF IsFold, FoldStep

LEMMA SumFirst ==
    ASSUME NEW f, NEW S, IsFiniteSet(S), S # {}
    PROVE  SumOf(f, S) = f[First(S)] + SumOf(f, S \ {First(S)})
<1> DEFINE U == S \ {First(S)}
           g == CHOOSE x : IsFold(f, x, SUBSET S)
           h == CHOOSE x : IsFold(f, x, SUBSET U)
<1>1. IsFiniteSet(U)
    BY FS_RemoveElement
<1>2. IsFold(f, g, SUBSET S) /\ IsFold(f, h, SUBSET U)
    BY <1>1, FoldExists
<1>3. SumOf(f, S) = g[S] /\ SumOf(f, U) = h[U]
    BY SumIsFold
<1> HIDE DEF g, h
<1>4. g[U] = h[U]
    <2>1. U \in SUBSET S
        OBVIOUS
    <2> HIDE DEF U
    <2>2. \A x, y : IsFold(f, x, SUBSET S) /\ IsFold(f, y, SUBSET U) => x[U] = y[U]
        BY <2>1, FoldsAgree, Zenon
    <2> QED BY <1>2, <2>2, Zenon
<1>5. g[S] = f[First(S)] + g[U]
    BY <1>2 DEF IsFold, FoldStep
<1> QED BY <1>3, <1>4, <1>5

\* A set of subsets holds all of them, if it holds each whose smaller ones it
\* holds.
LEMMA BySize ==
    ASSUME NEW S, IsFiniteSet(S), NEW P \in SUBSET (SUBSET S),
           \A T \in SUBSET S : (\A x \in T : T \ {x} \in P) => T \in P
    PROVE  \A T \in SUBSET S : T \in P
<1> DEFINE Bad == {n \in Nat : \E T \in SUBSET S : Cardinality(T) = n /\ T \notin P}
<1>1. \A T \in SUBSET S : IsFiniteSet(T) /\ Cardinality(T) \in Nat
    BY FS_Subset, FS_CardinalityType
<1>2. ASSUME Bad # {} PROVE FALSE
    <2>1. PICK n \in Bad : \A m \in Bad : n <= m
        <3> Bad \in SUBSET Nat
            OBVIOUS
        <3> HIDE DEF Bad
        <3> QED BY <1>2, Smallest
    <2>2. PICK T \in SUBSET S : Cardinality(T) = n /\ T \notin P
        BY <2>1
    <2>3. PICK x \in T : T \ {x} \notin P
        BY <2>2
    <2>4. Cardinality(T \ {x}) \in Nat /\ Cardinality(T \ {x}) < n
        BY <1>1, <2>2, TakeOne
    <2>5. Cardinality(T \ {x}) \in Bad
        BY <2>3, <2>4
    <2>6. n <= Cardinality(T \ {x})
        <3> HIDE DEF Bad
        <3> QED BY <2>1, <2>5
    <2>7. n \in Nat
        BY <2>1
    <2> QED BY <2>4, <2>6, <2>7
<1> QED BY <1>1, <1>2

LEMMA SumInNat ==
    ASSUME NEW f, NEW S, IsFiniteSet(S), \A i \in S : f[i] \in Nat
    PROVE  SumOf(f, S) \in Nat
<1> DEFINE P == {T \in SUBSET S : SumOf(f, T) \in Nat}
<1>1. ASSUME NEW T \in SUBSET S, \A x \in T : T \ {x} \in P PROVE T \in P
    <2>1. CASE T = {}
        BY <2>1, SumEmpty
    <2>2. CASE T # {}
        <3>1. IsFiniteSet(T) /\ First(T) \in T
            BY <2>2, FirstIn, FS_Subset
        <3>2. SumOf(f, T) = f[First(T)] + SumOf(f, T \ {First(T)})
            BY <2>2, <3>1, SumFirst
        <3>3. SumOf(f, T \ {First(T)}) \in Nat
            BY <1>1, <3>1
        <3> QED BY <3>1, <3>2, <3>3
    <2> QED BY <2>1, <2>2
<1>2. P \in SUBSET (SUBSET S)
    OBVIOUS
<1>3. \A T \in SUBSET S : T \in P
    <2> HIDE DEF P
    <2> QED BY <1>1, <1>2, BySize
<1> QED BY <1>3

\* The order in which a sum takes its elements makes no difference.
LEMMA SumAny ==
    ASSUME NEW f, NEW S, IsFiniteSet(S), \A i \in S : f[i] \in Nat, NEW y \in S
    PROVE  SumOf(f, S) = f[y] + SumOf(f, S \ {y})
<1> DEFINE P == {T \in SUBSET S : \A x \in T : SumOf(f, T) = f[x] + SumOf(f, T \ {x})}
<1>1. ASSUME NEW T \in SUBSET S, \A x \in T : T \ {x} \in P PROVE T \in P
    <2> SUFFICES ASSUME NEW x \in T PROVE SumOf(f, T) = f[x] + SumOf(f, T \ {x})
        OBVIOUS
    <2> DEFINE z == First(T)
               V == (T \ {x}) \ {z}
    <2>1. IsFiniteSet(T) /\ z \in T
        BY FirstIn, FS_Subset
    <2>2. SumOf(f, T) = f[z] + SumOf(f, T \ {z})
        BY <2>1, SumFirst
    <2>3. CASE x = z
        BY <2>2, <2>3
    <2>4. CASE x # z
        <3>1. SumOf(f, T \ {z}) = f[x] + SumOf(f, (T \ {z}) \ {x})
            BY <1>1, <2>1, <2>4
        <3>2. SumOf(f, T \ {x}) = f[z] + SumOf(f, V)
            BY <1>1, <2>1, <2>4
        <3>3. (T \ {z}) \ {x} = V
            OBVIOUS
        <3>4. IsFiniteSet(V) /\ \A i \in V : f[i] \in Nat
            BY <2>1, FS_Subset
        <3>5. SumOf(f, V) \in Nat /\ f[x] \in Nat /\ f[z] \in Nat
            <4>1. f[x] \in Nat /\ f[z] \in Nat
                BY <2>1
            <4> HIDE DEF V
            <4> QED BY <3>4, <4>1, SumInNat
        <3>6. SumOf(f, T \ {z}) = f[x] + SumOf(f, V)
            BY <3>1, <3>3
        <3> HIDE DEF V, z
        <3> QED BY <2>2, <3>2, <3>5, <3>6
    <2> QED BY <2>3, <2>4
<1>2. P \in SUBSET (SUBSET S)
    OBVIOUS
<1>3. S \in P
    <2> HIDE DEF P
    <2> QED BY <1>1, <1>2, BySize
<1> QED BY <1>3

\* A sum of what g takes from S, one at a time and everything, is the one over S.
LEMMA SumImage ==
    ASSUME NEW f, NEW S, NEW T, IsFiniteSet(T), NEW g \in [T -> S], NEW h,
           \A i, j \in T : g[i] = g[j] => i = j,
           \A x \in S : \E i \in T : g[i] = x,
           \A i \in T : h[i] = f[g[i]] /\ h[i] \in Nat
    PROVE  SumOf(h, T) = SumOf(f, S)
<1> DEFINE At1(U) == {g[i] : i \in U}
           P == {U \in SUBSET T : SumOf(h, U) = SumOf(f, At1(U))}
<1>1. ASSUME NEW U \in SUBSET T, \A x \in U : U \ {x} \in P PROVE U \in P
    <2>1. CASE U = {}
        <3>1. At1(U) = {}
            BY <2>1
        <3> QED BY <2>1, <3>1, SumEmpty
    <2>2. CASE U # {}
        <3>1. PICK x \in U : TRUE
            BY <2>2
        <3>2. IsFiniteSet(U) /\ IsFiniteSet(At1(U))
            <4>1. IsFiniteSet(U)
                BY FS_Subset
            <4> DEFINE q == [i \in U |-> g[i]]
            <4>2. q \in Surjection(U, At1(U))
                BY DEF Surjection
            <4> QED BY <4>1, <4>2, FS_Surjection
        <3>3. At1(U \ {x}) = At1(U) \ {g[x]} /\ g[x] \in At1(U)
            OBVIOUS
        <3>4. \A i \in At1(U) : f[i] \in Nat
            OBVIOUS
        <3>5. SumOf(h, U) = h[x] + SumOf(h, U \ {x})
            BY <3>2, SumAny
        <3>6. SumOf(f, At1(U)) = f[g[x]] + SumOf(f, At1(U) \ {g[x]})
            <4> HIDE DEF At1
            <4> QED BY <3>2, <3>3, <3>4, SumAny
        <3>7. SumOf(h, U \ {x}) = SumOf(f, At1(U \ {x}))
            BY <1>1
        <3>8. h[x] = f[g[x]]
            OBVIOUS
        <3> HIDE DEF At1
        <3> QED BY <3>3, <3>5, <3>6, <3>7, <3>8
    <2> QED BY <2>1, <2>2
<1>2. P \in SUBSET (SUBSET T)
    OBVIOUS
<1>3. T \in P
    <2> HIDE DEF P
    <2> QED BY <1>1, <1>2, BySize
<1>4. At1(T) = S
    OBVIOUS
<1> QED BY <1>3, <1>4

LEMMA TotalIsSum == \A s : Total(s) = SumOf(s, DOMAIN s)
BY DEF Total, FoldSeq, FoldFunction, SumOf

----------------------------------------------------------------------------
(* A draw.                                                                   *)

Reached(order, n) == Total([i \in 1 .. n |-> weights[order[i]]])

DrawInv ==
    part = "draw" =>
        /\ weights \in Seq(Nat \ {0}) /\ left \in SUBSET (DOMAIN weights)
        /\ sum = SumOf(weights, left)

LEMMA Counted ==
    ASSUME weights \in Seq(Nat \ {0}), NEW S \in SUBSET (DOMAIN weights)
    PROVE  /\ IsFiniteSet(S) /\ Cardinality(S) \in Nat
           /\ \A i \in S : weights[i] \in Nat /\ weights[i] > 0
           /\ SumOf(weights, S) \in Nat
<1>1. DOMAIN weights = 1 .. Len(weights) /\ Len(weights) \in Nat
    OBVIOUS
<1>2. IsFiniteSet(DOMAIN weights)
    BY <1>1, FS_Interval
<1>3. IsFiniteSet(S) /\ Cardinality(S) \in Nat
    BY <1>2, FS_Subset, FS_CardinalityType
<1>4. \A i \in S : weights[i] \in Nat /\ weights[i] > 0
    BY <1>1
<1> QED BY <1>3, <1>4, SumInNat

LEMMA OrderOf ==
    ASSUME NEW S, IsFiniteSet(S), NEW order \in Orders(S)
    PROVE  /\ Len(order) = Cardinality(S) /\ Cardinality(S) \in Nat
           /\ order \in [1 .. Cardinality(S) -> S]
           /\ \A i, j \in 1 .. Cardinality(S) : order[i] = order[j] => i = j
           /\ \A x \in S : \E i \in 1 .. Cardinality(S) : order[i] = x
<1>1. Cardinality(S) \in Nat
    BY FS_CardinalityType
<1>2. order \in [1 .. Cardinality(S) -> S] /\ IsInjective(order)
    BY DEF Orders
<1>3. Len(order) = Cardinality(S)
    BY <1>1, <1>2
<1>4. order \in Injection(1 .. Cardinality(S), S)
    BY <1>2 DEF Injection
<1>5. Cardinality(1 .. Cardinality(S)) = Cardinality(S)
    <2> DEFINE n == Cardinality(S)
    <2> HIDE DEF n
    <2>1. n \in Nat => Cardinality(1 .. n) = n
        BY FS_Interval
    <2> QED BY <1>1, <2>1 DEF n
<1>6. order \in Surjection(1 .. Cardinality(S), S)
    BY <1>4, <1>5, FS_Injection
<1> QED BY <1>1, <1>2, <1>3, <1>6 DEF IsInjective, Surjection

LEMMA HitIs ==
    ASSUME NEW S, IsFiniteSet(S), NEW order \in Orders(S), NEW rand
    PROVE  LET I == {n \in 1 .. Cardinality(S) : Reached(order, n) > rand} IN
               Hit(order, rand) = IF I # {} THEN Min(I) ELSE 0
<1>1. Len(order) = Cardinality(S) /\ Cardinality(S) \in Nat
    BY OrderOf
<1> DEFINE s == [n \in 1 .. Len(order) |-> Reached(order, n)]
<1>2. Hit(order, rand) = SelectInSeq(s, LAMBDA w : w > rand)
    BY DEF Hit, Reached
<1>3. Len(s) = Cardinality(S)
    BY <1>1
<1>4. {n \in 1 .. Len(s) : s[n] > rand} = {n \in 1 .. Cardinality(S) : Reached(order, n) > rand}
    BY <1>1, <1>3
<1> HIDE DEF s
<1> QED BY <1>2, <1>4 DEF SelectInSeq

\* A number below the total weight always hits an element.
LEMMA EveryOrderHits ==
    ASSUME weights \in Seq(Nat \ {0}), NEW S \in SUBSET (DOMAIN weights),
           NEW order \in Orders(S), NEW rand \in 0 .. SumOf(weights, S) - 1
    PROVE  Hit(order, rand) \in 1 .. Cardinality(S)
<1> DEFINE k == Cardinality(S)
           h == [i \in 1 .. k |-> weights[order[i]]]
           I == {n \in 1 .. k : Reached(order, n) > rand}
<1>1. IsFiniteSet(S) /\ k \in Nat /\ (\A i \in S : weights[i] \in Nat /\ weights[i] > 0)
      /\ SumOf(weights, S) \in Nat
    BY Counted
<1>2. /\ order \in [1 .. k -> S]
      /\ \A i, j \in 1 .. k : order[i] = order[j] => i = j
      /\ \A x \in S : \E i \in 1 .. k : order[i] = x
    BY <1>1, OrderOf
<1> HIDE DEF k
<1>3. SumOf(h, 1 .. k) = SumOf(weights, S)
    <2>1. IsFiniteSet(1 .. k)
        BY <1>1, FS_Interval
    <2>2. \A i \in 1 .. k : h[i] = weights[order[i]] /\ h[i] \in Nat
        BY <1>1, <1>2
    <2> DEFINE T == 1 .. k
    <2>3. /\ IsFiniteSet(T) /\ order \in [T -> S]
          /\ \A i, j \in T : order[i] = order[j] => i = j
          /\ \A x \in S : \E i \in T : order[i] = x
          /\ \A i \in T : h[i] = weights[order[i]] /\ h[i] \in Nat
        BY <1>2, <2>1, <2>2
    <2> HIDE DEF h, T
    <2>4. SumOf(h, T) = SumOf(weights, S)
        BY <2>3, SumImage
    <2> QED BY <2>4 DEF T
<1>5. Reached(order, k) = SumOf(weights, S)
    BY <1>3, TotalIsSum DEF Reached
<1>6. k # 0
    <2> SUFFICES ASSUME k = 0 PROVE FALSE
        OBVIOUS
    <2>1. S = {}
        BY <1>1, FS_EmptySet DEF k
    <2>2. SumOf(weights, S) = 0
        BY <2>1, SumEmpty
    <2> QED BY <2>2
<1>7. k \in I
    BY <1>1, <1>5, <1>6
<1>8. Hit(order, rand) = Min(I)
    BY <1>1, <1>7, HitIs DEF k
<1>9. I \in SUBSET Nat /\ I # {} /\ I \in SUBSET (1 .. k)
    BY <1>7
<1> HIDE DEF I
<1>10. Min(I) \in I
    BY <1>9, MinOf
<1> QED BY <1>8, <1>9, <1>10 DEF k

\* Zero hits the first element of an order, and any element is the first of one.
LEMMA EachIsHit ==
    ASSUME weights \in Seq(Nat \ {0}), NEW S \in SUBSET (DOMAIN weights), NEW i \in S
    PROVE  \E order \in Orders(S), rand \in 0 .. SumOf(weights, S) - 1 :
               order[Hit(order, rand)] = i
<1> DEFINE k == Cardinality(S)
<1>1. IsFiniteSet(S) /\ k \in Nat /\ (\A j \in S : weights[j] \in Nat /\ weights[j] > 0)
      /\ SumOf(weights, S) \in Nat
    BY Counted
<1>2. ExistsBijection(1 .. k, S)
    BY <1>1, FS_CardinalityType
<1> HIDE DEF k
<1>3. PICK f \in Bijection(1 .. k, S) : TRUE
    BY <1>2 DEF ExistsBijection
<1>4. /\ f \in [1 .. k -> S]
      /\ \A a, b \in 1 .. k : f[a] = f[b] => a = b
      /\ \A x \in S : \E a \in 1 .. k : f[a] = x
    BY <1>3 DEF Bijection, Injection, Surjection, IsInjective
<1>5. PICK j \in 1 .. k : f[j] = i
    BY <1>4
<1> DEFINE order == [n \in 1 .. k |-> IF n = 1 THEN i ELSE IF n = j THEN f[1] ELSE f[n]]
<1>6. 1 \in 1 .. k
    BY <1>1, <1>5
<1>7. order \in Orders(S) /\ order[1] = i
    <2>1. order \in [1 .. k -> S]
        BY <1>4, <1>6
    <2>2. \A a, b \in 1 .. k : order[a] = order[b] => a = b
        BY <1>4, <1>5, <1>6
    <2>3. order[1] = i
        BY <1>6
    <2> HIDE DEF order
    <2> QED BY <2>1, <2>2, <2>3 DEF Orders, IsInjective, k
<1>8. SumOf(weights, S) > 0
    <2>1. SumOf(weights, S) = weights[i] + SumOf(weights, S \ {i})
        BY <1>1, SumAny
    <2>2. SumOf(weights, S \ {i}) \in Nat
        BY Counted
    <2> QED BY <1>1, <2>1, <2>2
<1>9. Reached(order, 1) = weights[i]
    <2> DEFINE h == [n \in 1 .. 1 |-> weights[order[n]]]
    <2>1. h[1] = weights[i] /\ DOMAIN h = {1}
        BY <1>7
    <2>2. \A n \in {1} : h[n] \in Nat
        BY <1>1, <2>1
    <2> HIDE DEF h
    <2>3. IsFiniteSet({1})
        BY FS_Singleton
    <2>4. SumOf(h, {1}) = h[1] + SumOf(h, {1} \ {1})
        BY <2>2, <2>3, SumAny
    <2>5. {1} \ {1} = {}
        OBVIOUS
    <2>6. SumOf(h, {1}) = h[1] + 0
        BY <2>4, <2>5, SumEmpty
    <2>7. Total(h) = weights[i]
        BY <2>1, <2>2, <2>6, TotalIsSum
    <2> QED BY <2>7 DEF Reached, h
<1> HIDE DEF order
<1> DEFINE I == {n \in 1 .. k : Reached(order, n) > 0}
<1>10. 1 \in I
    BY <1>1, <1>6, <1>9
<1>11. Hit(order, 0) = Min(I)
    <2>1. LET J == {n \in 1 .. Cardinality(S) : Reached(order, n) > 0} IN
              Hit(order, 0) = IF J # {} THEN Min(J) ELSE 0
        BY <1>1, <1>7, HitIs
    <2> QED BY <1>10, <2>1 DEF k
<1>12. Min(I) = 1
    <2>1. I \in SUBSET Nat /\ I \in SUBSET (1 .. k)
        OBVIOUS
    <2> HIDE DEF I
    <2>2. Min(I) \in I /\ Min(I) <= 1
        BY <1>10, <2>1, MinOf
    <2>3. Min(I) \in 1 .. k
        BY <2>1, <2>2
    <2> HIDE DEF Min
    <2> QED BY <1>1, <2>2, <2>3
<1>13. 0 \in 0 .. SumOf(weights, S) - 1
    BY <1>1, <1>8
<1> QED BY <1>7, <1>11, <1>12, <1>13

THEOREM DrawInvariant == Spec => []DrawInv
<1>1. Init => DrawInv
    <2> SUFFICES ASSUME Init, part = "draw"
                 PROVE  weights \in Seq(Nat \ {0}) /\ left = DOMAIN weights /\ sum = SumOf(weights, left)
        BY DEF DrawInv
    <2> QED BY UtilAssumption, TotalIsSum DEF Init
<1>2. DrawInv /\ [Next]_vars => DrawInv'
    <2> SUFFICES ASSUME DrawInv, [Next]_vars PROVE DrawInv'
        OBVIOUS
    <2>1. CASE Draw
        <3>1. weights \in Seq(Nat \ {0}) /\ left \in SUBSET (DOMAIN weights) /\ sum = SumOf(weights, left)
              /\ part = "draw" /\ weights' = weights
            BY <2>1 DEF Draw, DrawInv
        <3>2. PICK order \in Orders(left), rand \in 0 .. sum - 1 :
                  /\ left' = left \ {order[Hit(order, rand)]}
                  /\ sum' = SumWithout(order[Hit(order, rand)])
            BY <2>1 DEF Draw
        <3> DEFINE i == order[Hit(order, rand)]
        <3>3. IsFiniteSet(left) /\ \A j \in left : weights[j] \in Nat
            BY <3>1, Counted
        <3>4. i \in left
            <4>1. Hit(order, rand) \in 1 .. Cardinality(left)
                BY <3>1, <3>2, EveryOrderHits
            <4>2. order \in [1 .. Cardinality(left) -> left]
                BY <3>3, OrderOf
            <4> QED BY <4>1, <4>2
        <3> HIDE DEF i
        <3>5. sum = weights[i] + SumOf(weights, left \ {i})
            BY <3>1, <3>3, <3>4, SumAny
        <3>6. SumOf(weights, left \ {i}) \in Nat /\ weights[i] \in Nat
            BY <3>1, <3>3, <3>4, Counted
        <3>7. left' = left \ {i} /\ sum' = sum - weights[i]
            BY <3>2 DEF SumWithout, i
        <3>8. sum' = SumOf(weights, left')
            BY <3>5, <3>6, <3>7
        <3> QED BY <3>1, <3>7, <3>8 DEF DrawInv
    <2>2. CASE Tick \/ Refresh \/ TestCoolDown \/ PickSlice \/ UNCHANGED vars
        BY <2>2 DEF DrawInv, Tick, Refresh, TestCoolDown, PickSlice, vars, drawVars
    <2> QED BY <2>1, <2>2 DEF Next
<1> QED BY <1>1, <1>2, PTL DEF Spec

----------------------------------------------------------------------------
(* A choice: the function that PickFrom recurs by, and what its steps keep.  *)

Places(n, X) == [s : [1..n -> X], leftPos : 1 .. n + 1, rightPos : 0..n]
Found(p)     == {r \in p.leftPos .. p.rightPos : p.s[r] \in Picked}
Skip(p)      == [p EXCEPT !.leftPos = @ + 1]
Swap(p)      == [p EXCEPT !.s[p.leftPos] = p.s[Max(Found(p))],
                          !.leftPos = @ + 1, !.rightPos = Max(Found(p)) - 1]
ToGo(p)      == IF p.leftPos > p.rightPos THEN 0 ELSE p.rightPos - p.leftPos + 1

PickStep(g, p) ==
    IF p.leftPos > p.rightPos THEN SubSeq(p.s, 1, p.rightPos)
    ELSE IF p.s[p.leftPos] \in Picked THEN g[Skip(p)]
    ELSE IF Found(p) = {} THEN SubSeq(p.s, 1, p.leftPos - 1)
    ELSE g[Swap(p)]

IsPick(g, D) == g = [p \in D |-> PickStep(g, p)]

LEMMA PickFromIs ==
    \A slc : PickFrom(slc) = (CHOOSE g : IsPick(g, Places(Len(slc), ToSet(slc))))
                                 [[s |-> slc, leftPos |-> 1, rightPos |-> Len(slc)]]
BY DEF PickFrom, IsPick, PickStep, Places, Found, Skip, Swap

LEMMA PlaceTypes ==
    ASSUME NEW n \in Nat, NEW X, NEW p \in Places(n, X)
    PROVE  /\ p.s \in [1..n -> X] /\ p.leftPos \in 1 .. n + 1 /\ p.rightPos \in 0..n
           /\ ToGo(p) \in Nat
BY DEF Places, ToGo

LEMMA SkipIn ==
    ASSUME NEW n \in Nat, NEW X, NEW p \in Places(n, X), p.leftPos <= p.rightPos
    PROVE  /\ Skip(p) \in Places(n, X) /\ ToGo(Skip(p)) < ToGo(p)
           /\ Skip(p).s = p.s /\ Skip(p).leftPos = p.leftPos + 1
           /\ Skip(p).rightPos = p.rightPos
<1>1. p.s \in [1..n -> X] /\ p.leftPos \in 1 .. n + 1 /\ p.rightPos \in 0..n
    BY PlaceTypes
<1>2. Skip(p) = [s |-> p.s, leftPos |-> p.leftPos + 1, rightPos |-> p.rightPos]
    BY DEF Skip, Places
<1> QED BY <1>1, <1>2 DEF Places, ToGo

\* The element that is taken is the last one to take.
LEMMA SwapIn ==
    ASSUME NEW n \in Nat, NEW X, NEW p \in Places(n, X), p.leftPos <= p.rightPos,
           p.s[p.leftPos] \notin Picked, Found(p) # {}
    PROVE  /\ Max(Found(p)) \in p.leftPos + 1 .. p.rightPos
           /\ p.s[Max(Found(p))] \in Picked
           /\ \A r \in Max(Found(p)) + 1 .. p.rightPos : p.s[r] \notin Picked
           /\ Swap(p) \in Places(n, X) /\ ToGo(Swap(p)) < ToGo(p)
           /\ Swap(p).s = [p.s EXCEPT ![p.leftPos] = p.s[Max(Found(p))]]
           /\ Swap(p).leftPos = p.leftPos + 1
           /\ Swap(p).rightPos = Max(Found(p)) - 1
<1> DEFINE m == Max(Found(p))
<1>1. p.s \in [1..n -> X] /\ p.leftPos \in 1 .. n + 1 /\ p.rightPos \in 0..n
    BY PlaceTypes
<1>2. Found(p) \in SUBSET (1 .. n)
    BY <1>1 DEF Found
<1>3. m \in Found(p) /\ \A r \in Found(p) : r <= m
    BY <1>2, MaxOf
<1> HIDE DEF m
<1>4. m \in p.leftPos .. p.rightPos /\ p.s[m] \in Picked /\ m # p.leftPos
    BY <1>3 DEF Found
<1>5. m \in p.leftPos + 1 .. p.rightPos
    BY <1>1, <1>4
<1>6. \A r \in m + 1 .. p.rightPos : p.s[r] \notin Picked
    <2> SUFFICES ASSUME NEW r \in m + 1 .. p.rightPos, p.s[r] \in Picked PROVE FALSE
        OBVIOUS
    <2>1. r \in p.leftPos .. p.rightPos /\ r > m
        BY <1>1, <1>5
    <2>2. r <= m
        BY <1>3, <2>1 DEF Found
    <2> QED BY <1>1, <1>5, <2>1, <2>2
<1> DEFINE t == [p.s EXCEPT ![p.leftPos] = p.s[m]]
<1>7. Swap(p) = [s |-> t, leftPos |-> p.leftPos + 1, rightPos |-> m - 1]
    <2>1. p = [s |-> p.s, leftPos |-> p.leftPos, rightPos |-> p.rightPos]
        BY DEF Places
    <2>2. Swap(p) = [p EXCEPT !.s = t, !.leftPos = p.leftPos + 1, !.rightPos = m - 1]
        BY <2>1 DEF Swap, m
    <2> HIDE DEF t
    <2> QED BY <2>1, <2>2
<1>8. t \in [1..n -> X]
    BY <1>1, <1>5
<1> HIDE DEF t
<1>9. Swap(p) \in Places(n, X) /\ ToGo(Swap(p)) < ToGo(p)
    BY <1>1, <1>5, <1>7, <1>8 DEF Places, ToGo
<1>10. Swap(p).s = t /\ Swap(p).leftPos = p.leftPos + 1 /\ Swap(p).rightPos = m - 1
    BY <1>7
<1> QED BY <1>4, <1>5, <1>6, <1>9, <1>10 DEF m, t

LEMMA PickStepLocal ==
    ASSUME NEW n \in Nat, NEW X, NEW p \in Places(n, X), NEW g, NEW h,
           \A q \in Places(n, X) : ToGo(q) < ToGo(p) => g[q] = h[q]
    PROVE  PickStep(g, p) = PickStep(h, p)
<1>1. CASE p.leftPos > p.rightPos
    BY <1>1 DEF PickStep
<1>2. CASE p.leftPos <= p.rightPos /\ p.s[p.leftPos] \in Picked
    BY <1>2, SkipIn DEF PickStep
<1>3. CASE p.leftPos <= p.rightPos /\ p.s[p.leftPos] \notin Picked /\ Found(p) = {}
    BY <1>3 DEF PickStep
<1>4. CASE p.leftPos <= p.rightPos /\ p.s[p.leftPos] \notin Picked /\ Found(p) # {}
    BY <1>4, SwapIn DEF PickStep
<1>5. p.leftPos > p.rightPos \/ p.leftPos <= p.rightPos
    BY PlaceTypes
<1> QED BY <1>1, <1>2, <1>3, <1>4, <1>5

LEMMA PickUpTo ==
    ASSUME NEW n \in Nat, NEW X
    PROVE  \A m \in Nat : \E g : /\ g = [p \in Places(n, X) |-> g[p]]
                                 /\ \A p \in Places(n, X) : ToGo(p) <= m => g[p] = PickStep(g, p)
<1> DEFINE D == Places(n, X)
           Ok(m, g) == /\ g = [p \in D |-> g[p]]
                       /\ \A p \in D : ToGo(p) <= m => g[p] = PickStep(g, p)
           Bad == {m \in Nat : ~\E g : Ok(m, g)}
<1>1. \A p \in D : ToGo(p) \in Nat
    BY PlaceTypes
<1>2. ASSUME Bad # {} PROVE FALSE
    <2>1. PICK m \in Bad : \A k \in Bad : m <= k
        <3> Bad \in SUBSET Nat
            OBVIOUS
        <3> HIDE DEF Bad
        <3> QED BY <1>2, Smallest
    <2>2. m \in Nat /\ ~\E g : Ok(m, g)
        BY <2>1
    <2>3. PICK g : \A p \in D : ToGo(p) < m => g[p] = PickStep(g, p)
        <3>1. CASE m = 0
            BY <1>1, <3>1
        <3>2. CASE m # 0
            <4>1. m - 1 \in Nat /\ m - 1 \notin Bad
                <5> HIDE DEF Bad
                <5> QED BY <2>1, <2>2, <3>2
            <4>2. PICK g : Ok(m - 1, g)
                BY <4>1
            <4>3. \A p \in D : ToGo(p) < m => ToGo(p) <= m - 1
                BY <1>1, <2>2
            <4> QED BY <4>2, <4>3
        <3> QED BY <3>1, <3>2
    <2> DEFINE h == [p \in D |-> PickStep(g, p)]
    <2>4. ASSUME NEW p \in D, ToGo(p) <= m PROVE PickStep(h, p) = PickStep(g, p)
        <3>1. \A q \in D : ToGo(q) < ToGo(p) => g[q] = h[q]
            <4> SUFFICES ASSUME NEW q \in D, ToGo(q) < ToGo(p) PROVE g[q] = h[q]
                OBVIOUS
            <4>1. ToGo(q) < m
                BY <1>1, <2>2, <2>4
            <4> QED BY <2>3, <4>1
        <3> HIDE DEF h
        <3> QED BY <3>1, PickStepLocal
    <2>5. Ok(m, h)
        <3>1. \A p \in D : h[p] = PickStep(g, p)
            OBVIOUS
        <3>2. h = [p \in D |-> h[p]]
            OBVIOUS
        <3> HIDE DEF h
        <3> QED BY <2>4, <3>1, <3>2
    <2> HIDE DEF Ok
    <2> QED BY <2>2, <2>5
<1> HIDE DEF D
<1> QED BY <1>2 DEF D

LEMMA PickExists ==
    ASSUME NEW n \in Nat, NEW X, NEW g, g = CHOOSE f : IsPick(f, Places(n, X))
    PROVE  \A p \in Places(n, X) : g[p] = PickStep(g, p)
<1>1. PICK h : /\ h = [p \in Places(n, X) |-> h[p]]
               /\ \A p \in Places(n, X) : ToGo(p) <= n => h[p] = PickStep(h, p)
    BY PickUpTo
<1>2. \A p \in Places(n, X) : ToGo(p) <= n
    <2> SUFFICES ASSUME NEW p \in Places(n, X) PROVE ToGo(p) <= n
        OBVIOUS
    <2> QED BY PlaceTypes DEF ToGo
<1>3. \A p \in Places(n, X) : h[p] = PickStep(h, p)
    BY <1>1, <1>2
<1>4. IsPick(h, Places(n, X))
    BY <1>1, <1>3, Zenon DEF IsPick
<1>5. IsPick(g, Places(n, X))
    BY <1>4, Zenon
<1> QED BY <1>5, Zenon DEF IsPick

\* How often e is among the first r elements; what lies before leftPos is taken.
Among(s, r, e) == Cardinality({i \in 1..r : s[i] = e})
TakenBefore(p) == p.leftPos <= p.rightPos + 1 /\ \A i \in 1 .. p.leftPos - 1 : p.s[i] \in Picked
Picks(t, p)    == \A e : Copies(t, e) = IF e \in Picked THEN Among(p.s, p.rightPos, e) ELSE 0

\* What is cut off the slice holds nothing to take.
LEMMA CutPicks ==
    ASSUME NEW n \in Nat, NEW X, NEW p \in Places(n, X), NEW k \in 0 .. p.rightPos,
           \A i \in 1..k : p.s[i] \in Picked,
           \A i \in k + 1 .. p.rightPos : p.s[i] \notin Picked
    PROVE  Picks(SubSeq(p.s, 1, k), p)
<1>1. p.s \in [1..n -> X] /\ p.rightPos \in 0..n
    BY PlaceTypes
<1> DEFINE t == SubSeq(p.s, 1, k)
<1>2. DOMAIN t = 1..k /\ \A i \in 1..k : t[i] = p.s[i]
    BY <1>1
<1> HIDE DEF t
<1>3. SUFFICES ASSUME NEW e
               PROVE  Copies(t, e) = IF e \in Picked THEN Among(p.s, p.rightPos, e) ELSE 0
    BY DEF Picks, t
<1>4. CASE e \in Picked
    <2>1. {i \in DOMAIN t : t[i] = e} = {i \in 1 .. p.rightPos : p.s[i] = e}
        <3>1. \A i \in 1 .. p.rightPos : p.s[i] = e => i \in 1..k
            <4> SUFFICES ASSUME NEW i \in 1 .. p.rightPos, p.s[i] = e, i \notin 1..k PROVE FALSE
                OBVIOUS
            <4>1. i \in k + 1 .. p.rightPos
                BY <1>1
            <4> QED BY <1>4, <4>1
        <3>2. \A i \in 1..k : i \in 1 .. p.rightPos
            BY <1>1
        <3> QED BY <1>2, <3>1, <3>2
    <2> QED BY <1>4, <2>1 DEF Copies, Among
<1>5. CASE e \notin Picked
    <2>1. {i \in DOMAIN t : t[i] = e} = {}
        BY <1>2, <1>5
    <2> QED BY <1>5, <2>1, FS_EmptySet DEF Copies
<1> QED BY <1>4, <1>5

\* An element moved to the left is counted there.
LEMMA SwapCounts ==
    ASSUME NEW n \in Nat, NEW X, NEW p \in Places(n, X), p.leftPos <= p.rightPos,
           p.s[p.leftPos] \notin Picked, Found(p) # {}, NEW e \in Picked
    PROVE  Among(Swap(p).s, Swap(p).rightPos, e) = Among(p.s, p.rightPos, e)
<1> DEFINE m == Max(Found(p))
           A == {i \in 1 .. m - 1 : p.s[i] = e}
           B == {i \in 1 .. m - 1 : Swap(p).s[i] = e}
           C == {i \in 1 .. p.rightPos : p.s[i] = e}
<1>1. p.s \in [1..n -> X] /\ p.leftPos \in 1 .. n + 1 /\ p.rightPos \in 0..n
    BY PlaceTypes
<1>2. /\ m \in p.leftPos + 1 .. p.rightPos
      /\ \A r \in m + 1 .. p.rightPos : p.s[r] \notin Picked
      /\ Swap(p).s = [p.s EXCEPT ![p.leftPos] = p.s[m]]
      /\ Swap(p).rightPos = m - 1
    BY SwapIn
<1> HIDE DEF m
<1>3. IsFiniteSet(A)
    <2>1. IsFiniteSet(1 .. m - 1)
        BY <1>1, <1>2, FS_Interval
    <2>2. A \in SUBSET (1 .. m - 1)
        OBVIOUS
    <2> HIDE DEF A
    <2> QED BY <2>1, <2>2, FS_Subset
<1>4. p.leftPos \notin A /\ m \notin A
    BY <1>1, <1>2
<1>5. B = IF p.s[m] = e THEN A \cup {p.leftPos} ELSE A
    <2>1. \A i \in 1 .. m - 1 : Swap(p).s[i] = IF i = p.leftPos THEN p.s[m] ELSE p.s[i]
        BY <1>1, <1>2
    <2>2. p.leftPos \in 1 .. m - 1
        BY <1>1, <1>2
    <2> QED BY <2>1, <2>2
<1>6. C = IF p.s[m] = e THEN A \cup {m} ELSE A
    <2>1. \A i \in 1 .. p.rightPos : p.s[i] = e => i \in 1 .. m - 1 \/ i = m
        <3> SUFFICES ASSUME NEW i \in 1 .. p.rightPos, p.s[i] = e, i \notin 1 .. m - 1, i # m
                     PROVE  FALSE
            OBVIOUS
        <3>1. i \in m + 1 .. p.rightPos
            BY <1>1, <1>2
        <3> QED BY <1>2, <3>1
    <2>2. m \in 1 .. p.rightPos /\ \A i \in 1 .. m - 1 : i \in 1 .. p.rightPos
        BY <1>1, <1>2
    <2> QED BY <2>1, <2>2
<1> HIDE DEF A, B, C
<1>7. Cardinality(B) = Cardinality(C)
    BY <1>3, <1>4, <1>5, <1>6, FS_AddElement
<1> QED BY <1>2, <1>7 DEF Among, B, C

LEMMA PickPicks ==
    ASSUME NEW n \in Nat, NEW X, NEW g, \A p \in Places(n, X) : g[p] = PickStep(g, p)
    PROVE  \A p \in Places(n, X) : TakenBefore(p) => Picks(g[p], p)
<1> DEFINE Bad == {m \in Nat : \E p \in Places(n, X) :
                                   ToGo(p) = m /\ TakenBefore(p) /\ ~Picks(g[p], p)}
<1>1. \A p \in Places(n, X) : ToGo(p) \in Nat
    BY PlaceTypes
<1>2. ASSUME Bad # {} PROVE FALSE
    <2>1. PICK m \in Bad : \A k \in Bad : m <= k
        <3> Bad \in SUBSET Nat
            OBVIOUS
        <3> HIDE DEF Bad
        <3> QED BY <1>2, Smallest
    <2>2. PICK p \in Places(n, X) : ToGo(p) = m /\ TakenBefore(p) /\ ~Picks(g[p], p)
        BY <2>1
    <2>3. ASSUME NEW q \in Places(n, X), ToGo(q) < ToGo(p), TakenBefore(q) PROVE Picks(g[q], q)
        <3>1. ToGo(q) \in Nat /\ m \in Nat /\ ~(m <= ToGo(q))
            BY <1>1, <2>1, <2>2, <2>3
        <3>2. ToGo(q) \notin Bad
            <4> HIDE DEF Bad
            <4> QED BY <2>1, <3>1
        <3> QED BY <2>3, <3>1, <3>2
    <2> HIDE DEF Bad
    <2>4. p.s \in [1..n -> X] /\ p.leftPos \in 1 .. n + 1 /\ p.rightPos \in 0..n
        BY PlaceTypes
    <2>5. g[p] = PickStep(g, p)
        OBVIOUS
    <2>6. p.leftPos <= p.rightPos + 1 /\ \A i \in 1 .. p.leftPos - 1 : p.s[i] \in Picked
        BY <2>2 DEF TakenBefore
    <2>7. CASE p.leftPos > p.rightPos
        <3>1. p.rightPos = p.leftPos - 1
            BY <2>4, <2>6, <2>7
        <3>2. Picks(SubSeq(p.s, 1, p.rightPos), p)
            BY <2>4, <2>6, <3>1, CutPicks
        <3> QED BY <2>2, <2>5, <2>7, <3>2 DEF PickStep
    <2>8. CASE p.leftPos <= p.rightPos /\ p.s[p.leftPos] \in Picked
        <3>1. /\ Skip(p) \in Places(n, X) /\ ToGo(Skip(p)) < ToGo(p)
              /\ Skip(p).s = p.s /\ Skip(p).leftPos = p.leftPos + 1
              /\ Skip(p).rightPos = p.rightPos
            BY <2>8, SkipIn
        <3>2. \A i \in 1 .. p.leftPos : p.s[i] \in Picked
            BY <2>4, <2>6, <2>8
        <3>3. TakenBefore(Skip(p))
            BY <2>4, <2>8, <3>1, <3>2 DEF TakenBefore
        <3>4. Picks(g[Skip(p)], Skip(p))
            BY <2>3, <3>1, <3>3
        <3>5. Picks(g[Skip(p)], p)
            BY <3>1, <3>4 DEF Picks
        <3>6. PickStep(g, p) = g[Skip(p)]
            BY <2>4, <2>8 DEF PickStep
        <3> QED BY <2>2, <2>5, <3>5, <3>6
    <2>9. CASE p.leftPos <= p.rightPos /\ p.s[p.leftPos] \notin Picked /\ Found(p) = {}
        <3>1. \A i \in p.leftPos .. p.rightPos : p.s[i] \notin Picked
            BY <2>9 DEF Found
        <3>2. p.leftPos - 1 \in 0 .. p.rightPos /\ p.leftPos - 1 + 1 = p.leftPos
            BY <2>4, <2>9
        <3>3. Picks(SubSeq(p.s, 1, p.leftPos - 1), p)
            BY <2>6, <3>1, <3>2, CutPicks
        <3>4. PickStep(g, p) = SubSeq(p.s, 1, p.leftPos - 1)
            BY <2>4, <2>9 DEF PickStep
        <3> QED BY <2>2, <2>5, <3>3, <3>4
    <2>10. CASE p.leftPos <= p.rightPos /\ p.s[p.leftPos] \notin Picked /\ Found(p) # {}
        <3> DEFINE m1 == Max(Found(p))
        <3>1. /\ m1 \in p.leftPos + 1 .. p.rightPos /\ p.s[m1] \in Picked
              /\ Swap(p) \in Places(n, X) /\ ToGo(Swap(p)) < ToGo(p)
              /\ Swap(p).s = [p.s EXCEPT ![p.leftPos] = p.s[m1]]
              /\ Swap(p).leftPos = p.leftPos + 1 /\ Swap(p).rightPos = m1 - 1
            BY <2>10, SwapIn
        <3> HIDE DEF m1
        <3>2. \A i \in 1 .. p.leftPos : Swap(p).s[i] \in Picked
            <4>1. \A i \in 1 .. p.leftPos :
                      Swap(p).s[i] = IF i = p.leftPos THEN p.s[m1] ELSE p.s[i]
                BY <2>4, <3>1
            <4>2. \A i \in 1 .. p.leftPos : i = p.leftPos \/ i \in 1 .. p.leftPos - 1
                BY <2>4
            <4> QED BY <2>6, <3>1, <4>1, <4>2
        <3>3. TakenBefore(Swap(p))
            <4>1. Swap(p).leftPos - 1 = p.leftPos /\ Swap(p).leftPos <= Swap(p).rightPos + 1
                BY <2>4, <3>1
            <4> QED BY <3>2, <4>1 DEF TakenBefore
        <3>4. Picks(g[Swap(p)], Swap(p))
            BY <2>3, <3>1, <3>3
        <3>5. \A e \in Picked : Among(Swap(p).s, Swap(p).rightPos, e) = Among(p.s, p.rightPos, e)
            BY <2>10, SwapCounts
        <3>6. Picks(g[Swap(p)], p)
            BY <3>4, <3>5 DEF Picks
        <3>7. PickStep(g, p) = g[Swap(p)]
            BY <2>4, <2>10 DEF PickStep
        <3> QED BY <2>2, <2>5, <3>6, <3>7
    <2>11. p.leftPos > p.rightPos \/ p.leftPos <= p.rightPos
        BY <2>4
    <2> QED BY <2>7, <2>8, <2>9, <2>10, <2>11
<1> QED BY <1>1, <1>2

\* PickFrom keeps as many copies of each element as the slice has of it, if
\* it is to be taken, and none of any other.
LEMMA PickFromPicks ==
    ASSUME NEW slc, slc \in Seq(ToSet(slc)), NEW e
    PROVE  Copies(PickFrom(slc), e) = IF e \in Picked THEN Copies(slc, e) ELSE 0
<1> DEFINE n == Len(slc)
           X == ToSet(slc)
           g == CHOOSE f : IsPick(f, Places(n, X))
           p == [s |-> slc, leftPos |-> 1, rightPos |-> n]
<1>1. n \in Nat /\ slc \in [1..n -> X] /\ DOMAIN slc = 1..n
    BY DEF n, X
<1>2. PickFrom(slc) = g[p]
    BY PickFromIs
<1> HIDE DEF n, X
<1>3. \A q \in Places(n, X) : g[q] = PickStep(g, q)
    BY <1>1, PickExists
<1> HIDE DEF g
<1>4. p \in Places(n, X)
    BY <1>1 DEF Places
<1>5. TakenBefore(p)
    BY <1>1 DEF TakenBefore
<1>6. Picks(g[p], p)
    <2> HIDE DEF p
    <2> QED BY <1>1, <1>3, <1>4, <1>5, PickPicks
<1>7. p.s = slc /\ p.rightPos = n
    OBVIOUS
<1>8. Among(slc, n, e) = Copies(slc, e)
    BY <1>1 DEF Among, Copies
<1> HIDE DEF p
<1> QED BY <1>2, <1>6, <1>7, <1>8 DEF Picks

PickInv ==
    /\ part = "pick" => slice \in Seq(ToSet(slice))
    /\ part = "picked" => \A e : Copies(result, e) = IF e \in Picked THEN Copies(slice, e) ELSE 0

THEOREM PickInvariant == Spec => []PickInv
<1>1. Init => PickInv
    BY UtilAssumption DEF Init, PickInv
<1>2. PickInv /\ [Next]_vars => PickInv'
    <2> SUFFICES ASSUME PickInv, [Next]_vars PROVE PickInv'
        OBVIOUS
    <2>1. CASE PickSlice
        <3>1. slice \in Seq(ToSet(slice)) /\ result' = PickFrom(slice) /\ slice' = slice
              /\ part' = "picked"
            BY <2>1 DEF PickSlice, PickInv
        <3>2. \A e : Copies(PickFrom(slice), e) = IF e \in Picked THEN Copies(slice, e) ELSE 0
            BY <3>1, PickFromPicks
        <3> QED BY <3>1, <3>2 DEF PickInv
    <2>2. CASE Tick \/ Refresh \/ TestCoolDown \/ Draw \/ UNCHANGED vars
        BY <2>2 DEF PickInv, Tick, Refresh, TestCoolDown, Draw, vars, pickVars
    <2> QED BY <2>1, <2>2 DEF Next
<1> QED BY <1>1, <1>2, PTL DEF Spec

\* For every list of positive weights and every slice: no draw is in vain as
\* long as something is left, each element left may be the next, and PickSlice
\* keeps all the elements chosen, each as often as it was there, and no other.
THEOREM ChoiceIsAlwaysComplete == Spec => []ChoiceIsComplete
<1>1. DrawInv /\ PickInv => ChoiceIsComplete
    <2> SUFFICES ASSUME DrawInv, PickInv PROVE ChoiceIsComplete
        OBVIOUS
    <2>1. ASSUME part = "draw"
          PROVE  /\ \A order \in Orders(left), rand \in 0 .. sum - 1 : Hit(order, rand) # 0
                 /\ \A i \in left : \E order \in Orders(left), rand \in 0 .. sum - 1 :
                        order[Hit(order, rand)] = i
        <3>1. weights \in Seq(Nat \ {0}) /\ left \in SUBSET (DOMAIN weights)
              /\ sum = SumOf(weights, left)
            BY <2>1 DEF DrawInv
        <3>2. Cardinality(left) \in Nat
            BY <3>1, Counted
        <3>3. ASSUME NEW order \in Orders(left), NEW rand \in 0 .. sum - 1
              PROVE  Hit(order, rand) # 0
            <4>1. Hit(order, rand) \in 1 .. Cardinality(left)
                BY <3>1, EveryOrderHits
            <4> QED BY <3>2, <4>1
        <3>4. \A i \in left : \E order \in Orders(left), rand \in 0 .. sum - 1 :
                  order[Hit(order, rand)] = i
            BY <3>1, EachIsHit
        <3> QED BY <3>3, <3>4
    <2> QED BY <2>1 DEF ChoiceIsComplete, PickInv
<1> QED BY <1>1, DrawInvariant, PickInvariant, PTL
=============================================================================
