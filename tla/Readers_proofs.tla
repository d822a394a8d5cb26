---------------------------- MODULE Readers_proofs ----------------------------
(***************************************************************************)
(* What is read.  What the pages and the dashboards of Viewers and         *)
(* Dashboards show of whatever is on record: sums over sets, the first     *)
(* ones of an order, and that the readers agree.  What a statement of the  *)
(* bank and the months of a ledger come to.  What the lines of a receipt   *)
(* say, for lines in any number and any numbers and dates in them.         *)
(***************************************************************************)
EXTENDS Documents, FiniteSetTheorems, WellFoundedInduction, TLAPS

-----------------------------------------------------------------------------
(* Sums over finite sets, as MapThenSumSet folds them.                      *)

\* Induction on the subsets of a finite set: what holds of a set when it holds
\* of all smaller ones holds of all.
LEMMA SmallerSets ==
  ASSUME NEW S, IsFiniteSet(S), NEW Good,
         \A T \in SUBSET S : (\A U \in SUBSET T : U # T => U \in Good) => T \in Good
  PROVE  S \in Good
<1> DEFINE Bad == {T \in SUBSET S : T \notin Good}
<1> SUFFICES ASSUME S \notin Good PROVE FALSE
  OBVIOUS
<1>1. Bad # {} /\ Bad \subseteq FiniteSubsetsOf(S)
  BY FS_Subset DEF FiniteSubsetsOf
<1>2. PICK T \in Bad : \A U \in Bad : ~(<<U, T>> \in StrictSubsetOrdering(S))
  <2>1. IsWellFoundedOn(StrictSubsetOrdering(S), FiniteSubsetsOf(S))
    BY FS_StrictSubsetOrderingWellFounded
  <2> HIDE DEF Bad
  <2> QED
    BY <1>1, <2>1, WFMin
<1>3. ASSUME NEW U \in SUBSET T, U # T PROVE U \in Good
  <2>1. <<U, T>> \in StrictSubsetOrdering(S)
    BY <1>3 DEF StrictSubsetOrdering
  <2> QED
    BY <1>2, <2>1
<1> QED
  BY <1>2, <1>3

\* The sum of f over S, as the library folds it.
AnyOf(S) == CHOOSE x \in S : TRUE

IsFold(g, S, f) ==
  g = [T \in SUBSET S |-> IF T = {} THEN 0 ELSE f[AnyOf(T)] + g[T \ {AnyOf(T)}]]

SumOf(f, S) == (CHOOSE g : IsFold(g, S, f))[S]

LEMMA AnyOfIn == ASSUME NEW S, S # {} PROVE AnyOf(S) \in S
BY DEF AnyOf

LEMMA FoldStep ==
  ASSUME NEW S, NEW f, NEW g, IsFold(g, S, f), NEW T \in SUBSET S, T # {}
  PROVE  g[T] = f[AnyOf(T)] + g[T \ {AnyOf(T)}]
BY DEF IsFold

\* The fold is determined by its equation, and there is one.
LEMMA FoldUnique ==
  ASSUME NEW S, IsFiniteSet(S), NEW f, NEW g, IsFold(g, S, f), NEW h, IsFold(h, S, f)
  PROVE  g[S] = h[S]
<1> DEFINE Good == {T \in SUBSET S : g[T] = h[T]}
<1>1. ASSUME NEW T \in SUBSET S, \A U \in SUBSET T : U # T => U \in Good
      PROVE  T \in Good
  <2>1. CASE T = {}
    BY <2>1 DEF IsFold
  <2>2. CASE T # {}
    <3>1. T \ {AnyOf(T)} \in Good
      BY <1>1, <2>2, AnyOfIn
    <3>2. g[T] = f[AnyOf(T)] + g[T \ {AnyOf(T)}]
      BY <2>2 DEF IsFold
    <3>3. h[T] = f[AnyOf(T)] + h[T \ {AnyOf(T)}]
      BY <2>2 DEF IsFold
    <3> QED
      BY <3>1, <3>2, <3>3
  <2> QED
    BY <2>1, <2>2
<1> HIDE DEF Good
<1>2. S \in Good
  BY <1>1, SmallerSets
<1> QED
  BY <1>2 DEF Good

LEMMA FoldOfPart ==
  ASSUME NEW S, NEW f, NEW g, IsFold(g, S, f), NEW T \in SUBSET S
  PROVE  IsFold([U \in SUBSET T |-> g[U]], T, f)
<1> DEFINE h == [U \in SUBSET T |-> g[U]]
<1>1. ASSUME NEW U \in SUBSET T, U # {}
      PROVE  h[U] = f[AnyOf(U)] + h[U \ {AnyOf(U)}]
  <2>1. g[U] = f[AnyOf(U)] + g[U \ {AnyOf(U)}]
    BY <1>1, FoldStep
  <2>2. U \ {AnyOf(U)} \in SUBSET T
    OBVIOUS
  <2> QED
    BY <2>1, <2>2
<1>2. h[{}] = 0
  BY DEF IsFold
<1>3. h = [U \in SUBSET T |-> h[U]]
  OBVIOUS
<1> HIDE DEF h
<1>4. [U \in SUBSET T |-> h[U]]
        = [U \in SUBSET T |-> IF U = {} THEN 0 ELSE f[AnyOf(U)] + h[U \ {AnyOf(U)}]]
  BY <1>1, <1>2
<1>5. h = [U \in SUBSET T |-> IF U = {} THEN 0 ELSE f[AnyOf(U)] + h[U \ {AnyOf(U)}]]
  BY <1>3, <1>4
<1>6. IsFold(h, T, f)
  BY <1>5 DEF IsFold
<1> QED
  BY <1>6 DEF h

LEMMA FoldSum ==
  ASSUME NEW S, IsFiniteSet(S), NEW f, NEW g, IsFold(g, S, f)
  PROVE  SumOf(f, S) = g[S]
<1>1. IsFold(CHOOSE h : IsFold(h, S, f), S, f)
  OBVIOUS
<1> QED
  BY <1>1, FoldUnique DEF SumOf

LEMMA FoldExists ==
  ASSUME NEW S, IsFiniteSet(S), NEW f
  PROVE  \E g : IsFold(g, S, f)
<1> DEFINE Good == {T \in SUBSET S : \E g : IsFold(g, T, f)}
<1>1. ASSUME NEW T \in SUBSET S, \A U \in SUBSET T : U # T => U \in Good
      PROVE  T \in Good
  <2> DEFINE g == [U \in SUBSET T |-> IF U = {} THEN 0
                     ELSE f[AnyOf(U)] + SumOf(f, U \ {AnyOf(U)})]
  <2>1. ASSUME NEW U \in SUBSET T, U # T
        PROVE  SumOf(f, U) = g[U]
    <3>0. IsFiniteSet(U)
      BY FS_Subset
    <3>1. PICK h : IsFold(h, U, f)
      BY <1>1, <2>1
    <3>2. SumOf(f, U) = h[U]
      BY <3>0, <3>1, FoldSum
    <3>3. CASE U = {}
      BY <3>1, <3>2, <3>3 DEF IsFold
    <3>4. CASE U # {}
      <4>1. h[U] = f[AnyOf(U)] + h[U \ {AnyOf(U)}]
        BY <3>1, <3>4, FoldStep
      <4> DEFINE V == U \ {AnyOf(U)}
      <4>2. V \in SUBSET U /\ IsFiniteSet(V)
        BY <3>0, FS_Subset
      <4>3. IsFold([W \in SUBSET V |-> h[W]], V, f)
        BY <3>1, <4>2, FoldOfPart
      <4>4. SumOf(f, V) = [W \in SUBSET V |-> h[W]][V]
        BY <4>2, <4>3, FoldSum
      <4>5. SumOf(f, V) = h[V]
        BY <4>4
      <4> QED
        BY <3>2, <3>4, <4>1, <4>5
    <3> QED
      BY <3>3, <3>4
  <2>2. \A U \in SUBSET T : U # {} =>
          SumOf(f, U \ {AnyOf(U)}) = g[U \ {AnyOf(U)}]
    BY <2>1, AnyOfIn
  <2>3. g = [U \in SUBSET T |-> IF U = {} THEN 0
                     ELSE f[AnyOf(U)] + SumOf(f, U \ {AnyOf(U)})]
    OBVIOUS
  <2> HIDE DEF g
  <2>4. [U \in SUBSET T |-> IF U = {} THEN 0
                     ELSE f[AnyOf(U)] + SumOf(f, U \ {AnyOf(U)})]
        = [U \in SUBSET T |-> IF U = {} THEN 0
                     ELSE f[AnyOf(U)] + g[U \ {AnyOf(U)}]]
    BY <2>2
  <2>5. IsFold(g, T, f)
    BY <2>3, <2>4 DEF IsFold
  <2> QED
    BY <2>5
<1> HIDE DEF Good
<1>2. S \in Good
  BY <1>1, SmallerSets
<1> QED
  BY <1>2 DEF Good

\* The equation of the sum.
LEMMA SumStep ==
  ASSUME NEW S, IsFiniteSet(S), NEW f
  PROVE  SumOf(f, S) = IF S = {} THEN 0 ELSE f[AnyOf(S)] + SumOf(f, S \ {AnyOf(S)})
<1>1. PICK g : IsFold(g, S, f)
  BY FoldExists
<1>2. SumOf(f, S) = g[S]
  BY <1>1, FoldSum
<1>3. CASE S = {}
  BY <1>1, <1>2, <1>3 DEF IsFold
<1>4. CASE S # {}
  <2> DEFINE V == S \ {AnyOf(S)}
  <2>1. V \in SUBSET S /\ IsFiniteSet(V)
    BY FS_Subset
  <2>2. IsFold([W \in SUBSET V |-> g[W]], V, f)
    BY <1>1, <2>1, FoldOfPart
  <2>3. SumOf(f, V) = [W \in SUBSET V |-> g[W]][V]
    BY <2>1, <2>2, FoldSum
  <2>4. SumOf(f, V) = g[V]
    BY <2>3
  <2>5. g[S] = f[AnyOf(S)] + g[V]
    BY <1>1, <1>4, FoldStep
  <2> QED
    BY <1>2, <1>4, <2>4, <2>5
<1> QED
  BY <1>3, <1>4

LEMMA SumType ==
  ASSUME NEW S, IsFiniteSet(S), NEW f, \A x \in S : f[x] \in Int
  PROVE  SumOf(f, S) \in Int
<1> DEFINE Good == {T \in SUBSET S : SumOf(f, T) \in Int}
<1>1. ASSUME NEW T \in SUBSET S, \A U \in SUBSET T : U # T => U \in Good
      PROVE  T \in Good
  <2>1. IsFiniteSet(T)
    BY FS_Subset
  <2>2. T # {} => f[AnyOf(T)] \in Int /\ T \ {AnyOf(T)} \in Good
    BY <1>1, AnyOfIn
  <2>3. SumOf(f, T) = IF T = {} THEN 0 ELSE f[AnyOf(T)] + SumOf(f, T \ {AnyOf(T)})
    BY <2>1, SumStep
  <2> QED
    BY <2>2, <2>3
<1> HIDE DEF Good
<1>2. S \in Good
  BY <1>1, SmallerSets
<1> QED
  BY <1>2 DEF Good

\* Any element may be taken out first.
LEMMA SumTake ==
  ASSUME NEW S, IsFiniteSet(S), NEW f, \A x \in S : f[x] \in Int, NEW x \in S
  PROVE  SumOf(f, S) = f[x] + SumOf(f, S \ {x})
<1> DEFINE Good == {T \in SUBSET S : \A y \in T : SumOf(f, T) = f[y] + SumOf(f, T \ {y})}
<1>1. ASSUME NEW T \in SUBSET S, \A U \in SUBSET T : U # T => U \in Good, NEW y \in T
      PROVE  SumOf(f, T) = f[y] + SumOf(f, T \ {y})
  <2> DEFINE a == AnyOf(T)
             V == (T \ {a}) \ {y}
  <2>1. a \in T
    BY AnyOfIn
  <2> HIDE DEF a
  <2>2. SumOf(f, T) = f[a] + SumOf(f, T \ {a})
    BY FS_Subset, SumStep DEF a
  <2>3. CASE a = y
    BY <2>2, <2>3
  <2>4. CASE a # y
    <3>1. T \ {a} \in Good /\ T \ {y} \in Good
      BY <1>1, <2>1
    <3>2. SumOf(f, T \ {a}) = f[y] + SumOf(f, V)
      BY <2>4, <3>1
    <3>3. SumOf(f, T \ {y}) = f[a] + SumOf(f, (T \ {y}) \ {a})
      BY <2>1, <2>4, <3>1
    <3>4. SumOf(f, (T \ {y}) \ {a}) = SumOf(f, V)
      <4>1. (T \ {y}) \ {a} = V
        OBVIOUS
      <4> QED
        BY <4>1, Zenon
    <3>5. SumOf(f, V) \in Int /\ f[a] \in Int /\ f[y] \in Int
      <4>1. V \in SUBSET S /\ IsFiniteSet(V)
        BY FS_Subset
      <4> QED
        BY <2>1, <4>1, SumType
    <3> HIDE DEF V
    <3> QED
      BY <2>2, <3>2, <3>3, <3>4, <3>5
  <2> QED
    BY <2>3, <2>4
<1>2. \A T \in SUBSET S : (\A U \in SUBSET T : U # T => U \in Good) => T \in Good
  BY <1>1
<1> HIDE DEF Good
<1>3. S \in Good
  BY <1>2, SmallerSets
<1> QED
  BY <1>3 DEF Good

\* A sum over an image under an injection is the sum over the elements.
LEMMA SumImage ==
  ASSUME NEW S, IsFiniteSet(S), NEW f, \A x \in S : f[x] \in Int,
         NEW to, NEW h, \A x \in S : h[to[x]] = f[x],
         \A x, y \in S : to[x] = to[y] => x = y
  PROVE  /\ IsFiniteSet({to[x] : x \in S})
         /\ SumOf(h, {to[x] : x \in S}) = SumOf(f, S)
<1> DEFINE Im(T) == {to[x] : x \in T}
           Good == {T \in SUBSET S : IsFiniteSet(Im(T)) /\ SumOf(h, Im(T)) = SumOf(f, T)}
<1>1. ASSUME NEW T \in SUBSET S, \A U \in SUBSET T : U # T => U \in Good
      PROVE  T \in Good
  <2>0. IsFiniteSet(T)
    BY FS_Subset
  <2>1. CASE T = {}
    <3>1. Im(T) = {} /\ IsFiniteSet({})
      BY <2>1, FS_EmptySet
    <3>2. SumOf(h, {}) = 0 /\ SumOf(f, {}) = 0
      BY <3>1, SumStep
    <3> QED
      BY <2>1, <3>1, <3>2
  <2>2. CASE T # {}
    <3>1. PICK x \in T : TRUE
      BY <2>2
    <3> DEFINE U == T \ {x}
    <3>2. U \in Good
      BY <1>1
    <3>3. Im(T) = Im(U) \cup {to[x]} /\ to[x] \notin Im(U)
      OBVIOUS
    <3>4. IsFiniteSet(Im(T))
      <4>1. IsFiniteSet(Im(U))
        BY <3>2
      <4> HIDE DEF Im
      <4>2. IsFiniteSet(Im(U) \cup {to[x]})
        BY <4>1, FS_AddElement
      <4> QED
        BY <3>3, <4>2, Zenon
    <3>5. \A z \in Im(T) : h[z] \in Int
      OBVIOUS
    <3>6. SumOf(h, Im(T)) = h[to[x]] + SumOf(h, Im(T) \ {to[x]})
      BY <3>3, <3>4, <3>5, SumTake
    <3>7. SumOf(f, T) = f[x] + SumOf(f, U)
      BY <2>0, SumTake
    <3>8. Im(T) \ {to[x]} = Im(U)
      BY <3>3
    <3> QED
      BY <3>2, <3>4, <3>6, <3>7, <3>8
  <2> QED
    BY <2>1, <2>2
<1> HIDE DEF Good
<1>2. S \in Good
  BY <1>1, SmallerSets
<1> QED
  BY <1>2 DEF Good

LEMMA SumSame ==
  ASSUME NEW S, IsFiniteSet(S), NEW f, NEW h, \A x \in S : f[x] = h[x] /\ f[x] \in Int
  PROVE  SumOf(f, S) = SumOf(h, S)
<1> DEFINE to == [x \in S |-> x]
<1>1. {to[x] : x \in S} = S
  OBVIOUS
<1>2. (\A x \in S : h[to[x]] = f[x]) /\ (\A x, y \in S : to[x] = to[y] => x = y)
  OBVIOUS
<1> HIDE DEF to
<1>3. SumOf(h, {to[x] : x \in S}) = SumOf(f, S)
  BY <1>2, SumImage
<1> QED
  BY <1>1, <1>3

\* A sum over a disjoint union.
LEMMA SumUnion ==
  ASSUME NEW S, IsFiniteSet(S), NEW T, IsFiniteSet(T), S \cap T = {},
         NEW f, \A x \in S \cup T : f[x] \in Int
  PROVE  SumOf(f, S \cup T) = SumOf(f, S) + SumOf(f, T)
<1> DEFINE Good == {U \in SUBSET S : SumOf(f, U \cup T) = SumOf(f, U) + SumOf(f, T)}
<1>1. ASSUME NEW U \in SUBSET S, \A V \in SUBSET U : V # U => V \in Good
      PROVE  U \in Good
  <2>0. IsFiniteSet(U) /\ IsFiniteSet(U \cup T) /\ SumOf(f, T) \in Int
    BY FS_Subset, FS_Union, SumType
  <2>1. CASE U = {}
    <3>1. U \cup T = T
      BY <2>1
    <3>2. SumOf(f, U) = 0
      BY <2>0, <2>1, SumStep
    <3>3. SumOf(f, U \cup T) = SumOf(f, T)
      BY <3>1, Zenon
    <3> QED
      BY <2>0, <3>2, <3>3
  <2>2. CASE U # {}
    <3>1. PICK x \in U : TRUE
      BY <2>2
    <3> DEFINE V == U \ {x}
    <3>2. SumOf(f, V \cup T) = SumOf(f, V) + SumOf(f, T)
      BY <1>1
    <3>3. (U \cup T) \ {x} = V \cup T
      OBVIOUS
    <3>4. SumOf(f, U \cup T) = f[x] + SumOf(f, V \cup T)
      BY <2>0, <3>3, SumTake
    <3>5. SumOf(f, U) = f[x] + SumOf(f, V)
      BY <2>0, SumTake
    <3>6. SumOf(f, V) \in Int /\ f[x] \in Int
      BY <2>0, FS_Subset, SumType
    <3> QED
      BY <2>0, <3>2, <3>4, <3>5, <3>6
  <2> QED
    BY <2>1, <2>2
<1> HIDE DEF Good
<1>2. S \in Good
  BY <1>1, SmallerSets
<1> QED
  BY <1>2 DEF Good

\* The elements of S with the key k.
PartOf(S, key, k) == {x \in S : key[x] = k}

LEMMA PartIn ==
  ASSUME NEW S, IsFiniteSet(S), NEW key, NEW k
  PROVE  PartOf(S, key, k) \in SUBSET S /\ IsFiniteSet(PartOf(S, key, k))
<1>1. PartOf(S, key, k) \in SUBSET S
  BY DEF PartOf
<1> QED
  BY <1>1, FS_Subset

\* A sum over sums of parts.
LEMMA SumOfParts ==
  ASSUME NEW S, IsFiniteSet(S), NEW f, \A x \in S : f[x] \in Int,
         NEW K, IsFiniteSet(K), NEW key, \A x \in S : key[x] \in K,
         NEW h, \A k \in K : h[k] = SumOf(f, PartOf(S, key, k))
  PROVE  SumOf(h, K) = SumOf(f, S)
<1> DEFINE Part(L) == {x \in S : key[x] \in L}
           Good == {L \in SUBSET K : SumOf(h, L) = SumOf(f, Part(L))}
<1>1. ASSUME NEW L \in SUBSET K, \A M \in SUBSET L : M # L => M \in Good
      PROVE  L \in Good
  <2>0. IsFiniteSet(L) /\ IsFiniteSet(Part(L))
    BY FS_Subset
  <2>1. CASE L = {}
    <3>1. Part(L) = {}
      BY <2>1
    <3> QED
      BY <2>0, <2>1, <3>1, SumStep
  <2>2. CASE L # {}
    <3>1. PICK k \in L : TRUE
      BY <2>2
    <3> DEFINE M == L \ {k}
               one == PartOf(S, key, k)
    <3>2. SumOf(h, M) = SumOf(f, Part(M))
      BY <1>1
    <3>3. Part(L) = one \cup Part(M) /\ one \cap Part(M) = {}
      BY DEF PartOf
    <3>4. IsFiniteSet(one) /\ IsFiniteSet(Part(M)) /\ one \in SUBSET S
      BY FS_Subset, PartIn
    <3>5. SumOf(f, Part(L)) = SumOf(f, one) + SumOf(f, Part(M))
      BY <3>3, <3>4, SumUnion
    <3>6. \A x \in L : h[x] \in Int
      <4>1. ASSUME NEW x \in L PROVE h[x] \in Int
        <5>1. PartOf(S, key, x) \in SUBSET S /\ IsFiniteSet(PartOf(S, key, x))
          BY PartIn
        <5> QED
          BY <5>1, SumType
      <4> QED
        BY <4>1
    <3>7. SumOf(h, L) = h[k] + SumOf(h, M)
      BY <2>0, <3>6, SumTake
    <3> QED
      BY <3>2, <3>5, <3>7
  <2> QED
    BY <2>1, <2>2
<1> HIDE DEF Good
<1>2. K \in Good
  BY <1>1, SmallerSets
<1>3. Part(K) = S
  OBVIOUS
<1> QED
  BY <1>2, <1>3 DEF Good

\* A count is a sum of ones.
LEMMA SumOfOnes ==
  ASSUME NEW S, IsFiniteSet(S), NEW f, \A x \in S : f[x] = 1
  PROVE  SumOf(f, S) = Cardinality(S)
<1> DEFINE Good == {T \in SUBSET S : SumOf(f, T) = Cardinality(T)}
<1>1. ASSUME NEW T \in SUBSET S, \A U \in SUBSET T : U # T => U \in Good
      PROVE  T \in Good
  <2>0. IsFiniteSet(T)
    BY FS_Subset
  <2>1. CASE T = {}
    BY <2>0, <2>1, SumStep, FS_EmptySet
  <2>2. CASE T # {}
    <3>1. PICK x \in T : TRUE
      BY <2>2
    <3>2. SumOf(f, T \ {x}) = Cardinality(T \ {x})
      BY <1>1
    <3>3. SumOf(f, T) = 1 + SumOf(f, T \ {x})
      BY <2>0, SumTake
    <3>4. Cardinality(T \ {x}) = Cardinality(T) - 1 /\ Cardinality(T) \in Nat
      BY <2>0, FS_RemoveElement, FS_CardinalityType
    <3> QED
      BY <3>2, <3>3, <3>4
  <2> QED
    BY <2>1, <2>2
<1> HIDE DEF Good
<1>2. S \in Good
  BY <1>1, SmallerSets
<1> QED
  BY <1>2 DEF Good

-----------------------------------------------------------------------------
(* The first ones of an order.                                              *)

\* R orders S: of two elements one comes first.
Orders(R, S) ==
  /\ \A x, y \in S : x = y \/ <<x, y>> \in R \/ <<y, x>> \in R
  /\ \A x, y \in S : <<x, y>> \in R => <<y, x>> \notin R
  /\ \A x, y, z \in S : <<x, y>> \in R /\ <<y, z>> \in R => <<x, z>> \in R

\* An ordered finite set has a first element, and a last one.
LEMMA FirstExists ==
  ASSUME NEW S, IsFiniteSet(S), S # {}, NEW R, Orders(R, S)
  PROVE  \E x \in S : \A y \in S \ {x} : <<x, y>> \in R
<1> DEFINE Good == {T \in SUBSET S : T # {} => \E x \in T : \A y \in T \ {x} : <<x, y>> \in R}
<1>1. ASSUME NEW T \in SUBSET S, \A U \in SUBSET T : U # T => U \in Good, T # {}
      PROVE  \E x \in T : \A y \in T \ {x} : <<x, y>> \in R
  <2>1. PICK z \in T : TRUE
    BY <1>1
  <2> DEFINE U == T \ {z}
  <2>2. CASE U = {}
    BY <2>2
  <2>3. CASE U # {}
    <3>0. U \in Good
      BY <1>1, <2>1
    <3>1. PICK x \in U : \A y \in U \ {x} : <<x, y>> \in R
      BY <2>3, <3>0
    <3>2. CASE <<x, z>> \in R
      BY <3>1, <3>2
    <3>3. CASE <<z, x>> \in R
      <4>1. \A y \in T \ {z} : <<z, y>> \in R
        BY <3>1, <3>3 DEF Orders
      <4> QED
        BY <4>1
    <3> QED
      BY <3>2, <3>3 DEF Orders
  <2> QED
    BY <2>2, <2>3
<1>2. \A T \in SUBSET S : (\A U \in SUBSET T : U # T => U \in Good) => T \in Good
  BY <1>1
<1> HIDE DEF Good
<1>3. S \in Good
  BY <1>2, SmallerSets
<1> QED
  BY <1>3 DEF Good

LEMMA LastExists ==
  ASSUME NEW S, IsFiniteSet(S), S # {}, NEW R, Orders(R, S)
  PROVE  \E x \in S : \A y \in S \ {x} : <<y, x>> \in R
<1> DEFINE Q == {p \in S \X S : <<p[2], p[1]>> \in R}
<1>1. \A x, y \in S : <<x, y>> \in Q <=> <<y, x>> \in R
  OBVIOUS
<1> HIDE DEF Q
<1>2. Orders(Q, S)
  BY <1>1 DEF Orders
<1>3. \E x \in S : \A y \in S \ {x} : <<x, y>> \in Q
  BY <1>2, FirstExists
<1> QED
  BY <1>1, <1>3

Ahead(x, S, R) == {y \in S \ {x} : <<y, x>> \in R}

\* LIMIT n: as many as there are, or n of them.
LEMMA FirstOnesCount ==
  ASSUME NEW S, IsFiniteSet(S), NEW R, Orders(R, S), NEW n \in Nat
  PROVE  LET first == {x \in S : Cardinality(Ahead(x, S, R)) < n}
         IN  /\ IsFiniteSet(first)
             /\ Cardinality(first) = IF Cardinality(S) <= n THEN Cardinality(S) ELSE n
<1> DEFINE First(T) == {x \in T : Cardinality(Ahead(x, T, R)) < n}
           Good == {T \in SUBSET S : Cardinality(First(T)) =
                      IF Cardinality(T) <= n THEN Cardinality(T) ELSE n}
<1>1. ASSUME NEW T \in SUBSET S, \A U \in SUBSET T : U # T => U \in Good
      PROVE  T \in Good
  <2>0. IsFiniteSet(T) /\ Cardinality(T) \in Nat
    BY FS_Subset, FS_CardinalityType
  <2>1. CASE T = {}
    <3>1. First(T) = {} /\ Cardinality(T) = 0
      BY <2>1, FS_EmptySet
    <3> QED
      BY <3>1, FS_EmptySet
  <2>2. CASE T # {}
    <3>0. Orders(R, T)
      BY DEF Orders
    <3>1. PICK z \in T : \A y \in T \ {z} : <<y, z>> \in R
      BY <2>0, <2>2, <3>0, LastExists
    <3> DEFINE U == T \ {z}
    <3>2. IsFiniteSet(U) /\ Cardinality(U) = Cardinality(T) - 1
      BY <2>0, FS_RemoveElement
    <3>3. Ahead(z, T, R) = U
      BY <3>1 DEF Ahead
    <3>4. \A x \in U : Ahead(x, T, R) = Ahead(x, U, R)
      BY <3>0, <3>1 DEF Ahead, Orders
    <3>5. Cardinality(First(U)) = IF Cardinality(U) <= n THEN Cardinality(U) ELSE n
      BY <1>1
    <3>6. First(U) = First(T) \ {z}
      <4>1. \A x \in U : Cardinality(Ahead(x, T, R)) = Cardinality(Ahead(x, U, R))
        BY <3>4, Zenon
      <4> QED
        BY <4>1
    <3>7. z \in First(T) <=> Cardinality(T) - 1 < n
      <4>1. Cardinality(Ahead(z, T, R)) = Cardinality(T) - 1
        BY <3>2, <3>3, Zenon
      <4> QED
        BY <4>1
    <3>8. IsFiniteSet(First(T)) /\ IsFiniteSet(First(U))
      BY <2>0, <3>2, FS_Subset
    <3>9. CASE z \in First(T)
      <4>1. First(T) = First(U) \cup {z} /\ z \notin First(U)
        BY <3>6, <3>9
      <4>2. Cardinality(First(U) \cup {z}) = Cardinality(First(U)) + 1
        BY <3>8, <4>1, FS_AddElement
      <4>3. Cardinality(First(T)) = Cardinality(First(U)) + 1
        BY <4>1, <4>2, Zenon
      <4> QED
        BY <2>0, <3>2, <3>5, <3>7, <3>9, <4>3
    <3>10. CASE z \notin First(T)
      <4>1. First(T) = First(U)
        BY <3>6, <3>10
      <4>2. Cardinality(First(T)) = Cardinality(First(U))
        BY <4>1, Zenon
      <4> QED
        BY <2>0, <3>2, <3>5, <3>7, <3>10, <4>2
    <3> QED
      BY <3>9, <3>10
  <2> QED
    BY <2>1, <2>2
<1> HIDE DEF Good
<1>2. S \in Good
  BY <1>1, SmallerSets
<1>3. IsFiniteSet(First(S))
  BY FS_Subset
<1> QED
  BY <1>2, <1>3 DEF Good

-----------------------------------------------------------------------------
(* Figures.                                                                 *)

Recorded == OnRecord(now, settlements, evidences, comments, results)

Recognized == {e \in Evidences : evidences[e] # NULL}

SignedOf == [e \in Evidences |-> Signed(e)]

LEMMA SignedInt ==
  ASSUME Recorded, NEW e \in Recognized
  PROVE  SignedOf[e] \in Int
<1>1. e \in Evidences /\ evidences[e] \in EvidenceRow
  BY DEF Recognized, Recorded, OnRecord
<1>2. evidences[e].amount \in Int \cup {NULL}
  BY <1>1 DEF EvidenceRow
<1> QED
  BY <1>1, <1>2 DEF SignedOf, Signed, Abs

\* The library's sum of signed amounts is a sum of a function.
LEMMA SignedSum ==
  ASSUME NEW E \in SUBSET Evidences
  PROVE  MapThenSumSet(Signed, E) = SumOf(SignedOf, E)
<1> DEFINE Step(g) == [s \in SUBSET E |-> IF s = {} THEN 0
                        ELSE LET x == CHOOSE x \in s : TRUE IN Signed(x) + g[s \ {x}]]
           it == CHOOSE g : g = Step(g)
<1>1. MapThenSumSet(Signed, E) = it[E]
  BY DEF MapThenSumSet, MapThenFoldSet
<1>2. ASSUME NEW g PROVE g = Step(g) <=> IsFold(g, E, SignedOf)
  <2>1. \A s \in SUBSET E : s # {} => SignedOf[AnyOf(s)] = Signed(AnyOf(s))
    BY AnyOfIn DEF SignedOf
  <2>2. [s \in SUBSET E |-> IF s = {} THEN 0 ELSE SignedOf[AnyOf(s)] + g[s \ {AnyOf(s)}]]
      = [s \in SUBSET E |-> IF s = {} THEN 0 ELSE Signed(AnyOf(s)) + g[s \ {AnyOf(s)}]]
    BY <2>1
  <2> QED
    BY <2>2 DEF IsFold, AnyOf
<1> HIDE DEF Step
<1>3. IsFiniteSet(E)
  BY RecordsAssumption, FS_Subset
<1>4. it = Step(it)
  BY <1>2, <1>3, FoldExists
<1>5. SumOf(SignedOf, E) = it[E]
  BY <1>2, <1>3, <1>4, FoldSum
<1> QED
  BY <1>1, <1>5

LEMMA AggregateIs ==
  ASSUME Recorded, NEW E \in SUBSET Recognized
  PROVE  /\ IsFiniteSet(E)
         /\ Aggregate(E).total = SumOf(SignedOf, E) /\ Aggregate(E).total \in Int
         /\ Aggregate(E).count = Cardinality(E) /\ Aggregate(E).count \in Nat
<1>1. IsFiniteSet(E) /\ E \in SUBSET Evidences
  BY RecordsAssumption, FS_Subset DEF Recognized
<1>2. Aggregate(E).total = MapThenSumSet(Signed, E) /\ Aggregate(E).count = Cardinality(E)
  BY DEF Aggregate
<1>3. Aggregate(E).total = SumOf(SignedOf, E)
  BY <1>1, <1>2, SignedSum
<1>4. SumOf(SignedOf, E) \in Int
  BY <1>1, SignedInt, SumType
<1> QED
  BY <1>1, <1>2, <1>3, <1>4, FS_CardinalityType

\* The figures of two sets of evidences add up.
LEMMA AggregateUnion ==
  ASSUME Recorded, NEW E \in SUBSET Recognized, NEW F \in SUBSET Recognized, E \cap F = {}
  PROVE  /\ Aggregate(E \cup F).total = Aggregate(E).total + Aggregate(F).total
         /\ Aggregate(E \cup F).count = Aggregate(E).count + Aggregate(F).count
<1>1. IsFiniteSet(E) /\ IsFiniteSet(F) /\ E \cup F \in SUBSET Recognized
  BY AggregateIs
<1>2. \A x \in E \cup F : SignedOf[x] \in Int
  BY SignedInt
<1>3. SumOf(SignedOf, E \cup F) = SumOf(SignedOf, E) + SumOf(SignedOf, F)
  BY <1>1, <1>2, SumUnion
<1>4. Cardinality(E \cup F) = Cardinality(E) + Cardinality(F)
  <2>1. Cardinality(E \cap F) = 0
    BY FS_EmptySet, Zenon
  <2> QED
    BY <1>1, <2>1, FS_Union, FS_CardinalityType
<1> QED
  BY <1>1, <1>3, <1>4, AggregateIs

\* A count over the parts of a set.
LEMMA CountOfParts ==
  ASSUME NEW S, IsFiniteSet(S), NEW K, IsFiniteSet(K), NEW key, \A x \in S : key[x] \in K,
         NEW h, \A k \in K : h[k] = Cardinality(PartOf(S, key, k))
  PROVE  SumOf(h, K) = Cardinality(S)
<1> DEFINE one == [x \in S |-> 1]
<1>1. SumOf(one, S) = Cardinality(S)
  BY SumOfOnes
<1>2. ASSUME NEW k \in K PROVE h[k] = SumOf(one, PartOf(S, key, k))
  <2>1. PartOf(S, key, k) \in SUBSET S /\ IsFiniteSet(PartOf(S, key, k))
    BY PartIn
  <2>2. SumOf(one, PartOf(S, key, k)) = Cardinality(PartOf(S, key, k))
    BY <2>1, SumOfOnes
  <2> QED
    BY <2>2
<1>3. \A x \in S : one[x] \in Int
  OBVIOUS
<1> HIDE DEF one
<1>4. \A k \in K : h[k] = SumOf(one, PartOf(S, key, k))
  BY <1>2
<1>5. SumOf(h, K) = SumOf(one, S)
  BY <1>3, <1>4, SumOfParts
<1> QED
  BY <1>1, <1>5

\* The sum of counts by status.
LEMMA CountOfIs ==
  ASSUME NEW K, IsFiniteSet(K), NEW counts
  PROVE  CountOf(counts, K) = SumOf(counts, K)
<1> DEFINE Step(g) == [s \in SUBSET K |-> IF s = {} THEN 0
                        ELSE LET x == CHOOSE x \in s : TRUE IN counts[x] + g[s \ {x}]]
           it == CHOOSE g : g = Step(g)
<1>1. CountOf(counts, K) = it[K]
  BY DEF CountOf, MapThenSumSet, MapThenFoldSet
<1>2. ASSUME NEW g PROVE g = Step(g) <=> IsFold(g, K, counts)
  BY DEF IsFold, AnyOf
<1> HIDE DEF Step
<1>3. it = Step(it)
  BY <1>2, FoldExists
<1>4. SumOf(counts, K) = it[K]
  BY <1>2, <1>3, FoldSum
<1> QED
  BY <1>1, <1>4

LEMMA GroupOf ==
  ASSUME NEW s
  PROVE  /\ IsFiniteSet(EvidencesOf(s)) /\ EvidencesOf(s) \in SUBSET Recognized
         /\ IsFiniteSet({evidences[e].group : e \in EvidencesOf(s)})
<1>1. IsFiniteSet(EvidencesOf(s)) /\ EvidencesOf(s) \in SUBSET Recognized
  BY RecordsAssumption, FS_Subset DEF EvidencesOf, Recognized
<1> DEFINE G == {evidences[e].group : e \in EvidencesOf(s)}
           f == [e \in EvidencesOf(s) |-> evidences[e].group]
<1>2. f \in Surjection(EvidencesOf(s), G)
  BY DEF Surjection
<1>3. IsFiniteSet(G)
  BY <1>1, <1>2, FS_Surjection
<1> QED
  BY <1>1, <1>3

LEMMA AmountSum ==
  ASSUME NEW B, IsFiniteSet(B)
  PROVE  MapThenSumSet(LAMBDA b : b.amount, B) = SumOf([b \in B |-> b.amount], B)
<1> DEFINE f == [b \in B |-> b.amount]
           Step(g) == [s \in SUBSET B |-> IF s = {} THEN 0
                        ELSE LET x == CHOOSE x \in s : TRUE IN x.amount + g[s \ {x}]]
           it == CHOOSE g : g = Step(g)
<1>1. MapThenSumSet(LAMBDA b : b.amount, B) = it[B]
  BY DEF MapThenSumSet, MapThenFoldSet
<1>2. \A x \in B : f[x] = x.amount
  OBVIOUS
<1> HIDE DEF f
<1>3. ASSUME NEW g PROVE g = Step(g) <=> IsFold(g, B, f)
  <2>1. \A s \in SUBSET B : s # {} => f[AnyOf(s)] = AnyOf(s).amount
    BY <1>2, AnyOfIn
  <2>2. [s \in SUBSET B |-> IF s = {} THEN 0 ELSE f[AnyOf(s)] + g[s \ {AnyOf(s)}]]
      = [s \in SUBSET B |-> IF s = {} THEN 0 ELSE AnyOf(s).amount + g[s \ {AnyOf(s)}]]
    BY <2>1
  <2> QED
    BY <2>2 DEF IsFold, AnyOf
<1> HIDE DEF Step
<1>4. it = Step(it)
  BY <1>3, FoldExists
<1>5. SumOf(f, B) = it[B]
  BY <1>3, <1>4, FoldSum
<1> QED
  BY <1>1, <1>5 DEF f

LEMMA CountSum ==
  ASSUME NEW B, IsFiniteSet(B)
  PROVE  MapThenSumSet(LAMBDA b : b.count, B) = SumOf([b \in B |-> b.count], B)
<1> DEFINE f == [b \in B |-> b.count]
           Step(g) == [s \in SUBSET B |-> IF s = {} THEN 0
                        ELSE LET x == CHOOSE x \in s : TRUE IN x.count + g[s \ {x}]]
           it == CHOOSE g : g = Step(g)
<1>1. MapThenSumSet(LAMBDA b : b.count, B) = it[B]
  BY DEF MapThenSumSet, MapThenFoldSet
<1>2. \A x \in B : f[x] = x.count
  OBVIOUS
<1> HIDE DEF f
<1>3. ASSUME NEW g PROVE g = Step(g) <=> IsFold(g, B, f)
  <2>1. \A s \in SUBSET B : s # {} => f[AnyOf(s)] = AnyOf(s).count
    BY <1>2, AnyOfIn
  <2>2. [s \in SUBSET B |-> IF s = {} THEN 0 ELSE f[AnyOf(s)] + g[s \ {AnyOf(s)}]]
      = [s \in SUBSET B |-> IF s = {} THEN 0 ELSE AnyOf(s).count + g[s \ {AnyOf(s)}]]
    BY <2>1
  <2> QED
    BY <2>2 DEF IsFold, AnyOf
<1> HIDE DEF Step
<1>4. it = Step(it)
  BY <1>3, FoldExists
<1>5. SumOf(f, B) = it[B]
  BY <1>3, <1>4, FoldSum
<1> QED
  BY <1>1, <1>5 DEF f

\* The groups of a settlement make up its evidences.
LEMMA ExpenseTotals ==
  ASSUME Recorded, NEW s
  PROVE  /\ ExpenseSummary(s).total = Aggregate(EvidencesOf(s)).total
         /\ ExpenseSummary(s).count = Aggregate(EvidencesOf(s)).count
<1> DEFINE E == EvidencesOf(s)
           key == [e \in E |-> evidences[e].group]
           G == {evidences[e].group : e \in E}
           Bucket(g) == {e \in E : evidences[e].group = g}
           Row(g) == [group |-> g, count |-> Aggregate(Bucket(g)).count,
                      amount |-> Aggregate(Bucket(g)).total]
           row == [g \in G |-> Row(g)]
           B == {Row(g) : g \in G}
           amount == [b \in B |-> b.amount]
           count == [b \in B |-> b.count]
<1>1. /\ IsFiniteSet(E) /\ E \in SUBSET Recognized /\ IsFiniteSet(G)
      /\ \A e \in E : key[e] \in G
  BY GroupOf
<1>2. B = {row[g] : g \in G}
  OBVIOUS
<1>3. \A g \in G : row[g] \in B /\ row[g].group = g /\ row[g].count = Aggregate(Bucket(g)).count
                     /\ row[g].amount = Aggregate(Bucket(g)).total
  OBVIOUS
<1>4. ASSUME NEW g \in G
      PROVE  /\ PartOf(E, key, g) = Bucket(g)
             /\ Aggregate(Bucket(g)).total = SumOf(SignedOf, PartOf(E, key, g))
             /\ Aggregate(Bucket(g)).count = Cardinality(PartOf(E, key, g))
             /\ Aggregate(Bucket(g)).total \in Int /\ Aggregate(Bucket(g)).count \in Nat
  <2>1. PartOf(E, key, g) = Bucket(g) /\ Bucket(g) \in SUBSET Recognized
    BY <1>1 DEF PartOf
  <2>2. /\ Aggregate(Bucket(g)).total = SumOf(SignedOf, Bucket(g))
        /\ Aggregate(Bucket(g)).count = Cardinality(Bucket(g))
        /\ Aggregate(Bucket(g)).total \in Int /\ Aggregate(Bucket(g)).count \in Nat
    BY <2>1, AggregateIs
  <2> QED
    BY <2>1, <2>2, Zenon
<1>5. /\ ExpenseSummary(s).total = MapThenSumSet(LAMBDA b : b.amount, B)
      /\ ExpenseSummary(s).count = MapThenSumSet(LAMBDA b : b.count, B)
  BY DEF ExpenseSummary
<1> DEFINE amounts == [g \in G |-> row[g].amount]
           counts == [g \in G |-> row[g].count]
<1> HIDE DEF row, key, B
<1>6. \A g \in G : /\ amount[row[g]] = amounts[g] /\ count[row[g]] = counts[g]
                   /\ amounts[g] = SumOf(SignedOf, PartOf(E, key, g)) /\ amounts[g] \in Int
                   /\ counts[g] = Cardinality(PartOf(E, key, g)) /\ counts[g] \in Int
  <2>1. \A g \in G : amount[row[g]] = row[g].amount /\ count[row[g]] = row[g].count
    BY <1>3
  <2>2. \A g \in G : amounts[g] = row[g].amount /\ counts[g] = row[g].count
    OBVIOUS
  <2> HIDE DEF amount, count, amounts, counts
  <2>3. ASSUME NEW g \in G
        PROVE  /\ row[g].amount = SumOf(SignedOf, PartOf(E, key, g)) /\ row[g].amount \in Int
               /\ row[g].count = Cardinality(PartOf(E, key, g)) /\ row[g].count \in Int
    <3>1. row[g].amount = Aggregate(Bucket(g)).total /\ row[g].count = Aggregate(Bucket(g)).count
      BY <1>3
    <3> HIDE DEF Bucket
    <3> QED
      BY <1>4, <3>1
  <2> QED
    BY <2>1, <2>2, <2>3
<1>7. \A g, h \in G : row[g] = row[h] => g = h
  BY <1>3
<1> HIDE DEF amount, count, amounts, counts, G
<1>8. /\ IsFiniteSet(B) /\ SumOf(amount, B) = SumOf(amounts, G)
      /\ SumOf(count, B) = SumOf(counts, G)
  <2>1. /\ IsFiniteSet({row[g] : g \in G})
        /\ SumOf(amount, {row[g] : g \in G}) = SumOf(amounts, G)
    BY <1>1, <1>6, <1>7, SumImage
  <2>2. SumOf(count, {row[g] : g \in G}) = SumOf(counts, G)
    BY <1>1, <1>6, <1>7, SumImage
  <2> QED
    BY <1>2, <2>1, <2>2, Zenon
<1>9. SumOf(amounts, G) = SumOf(SignedOf, E)
  BY <1>1, <1>6, SignedInt, SumOfParts
<1>10. SumOf(counts, G) = Cardinality(E)
  BY <1>1, <1>6, CountOfParts
<1>11. /\ ExpenseSummary(s).total = SumOf(amount, B)
       /\ ExpenseSummary(s).count = SumOf(count, B)
  BY <1>5, <1>8, AmountSum, CountSum DEF amount, count
<1> QED
  BY <1>1, <1>8, <1>9, <1>10, <1>11, AggregateIs

LEMMA StoredRow ==
  ASSUME Recorded, NEW s \in Stored
  PROVE  s \in Settlements /\ settlements[s] \in SettlementRow /\ settlements[s] # NULL
BY DEF Stored, Recorded, OnRecord

LEMMA RecognizedRow ==
  ASSUME Recorded, NEW e \in Recognized
  PROVE  /\ e \in Evidences /\ evidences[e] \in EvidenceRow
         /\ evidences[e].created_at \in Nat /\ evidences[e].settlement \in Stored
<1>1. e \in Evidences /\ evidences[e] \in EvidenceRow /\ evidences[e] # NULL
  BY DEF Recognized, Recorded, OnRecord
<1>2. evidences[e].settlement \in Settlements /\ evidences[e].created_at \in Nat
  BY <1>1 DEF EvidenceRow
<1> QED
  BY <1>1, <1>2 DEF Stored, Recorded, OnRecord

\* The figures of a settlement.
LEMMA FiguresSame ==
  ASSUME Recorded, NEW s \in Stored
  PROVE  FiguresAgree(s, ExpenseSummary(s), Rollup(s), StudentAggregate(s))
<1> DEFINE late == {e \in EvidencesOf(s) :
                      /\ settlements[s].published_at # NULL
                      /\ evidences[e].created_at > settlements[s].published_at}
<1>1. /\ Rollup(s).total = Aggregate(EvidencesOf(s)).total
      /\ Rollup(s).evidence_count = Aggregate(EvidencesOf(s)).count
  BY DEF Rollup
<1>2. EvidencesOf(s) \in SUBSET Recognized
  BY GroupOf
<1>3. Shown(s) \in SUBSET Recognized /\ late \in SUBSET Recognized
  BY <1>2 DEF Shown
<1>4. Shown(s) \cup late = EvidencesOf(s) /\ Shown(s) \cap late = {}
  <2>1. settlements[s].published_at \in Nat \cup {NULL}
    BY StoredRow DEF SettlementRow, Time
  <2>2. \A e \in EvidencesOf(s) : evidences[e].created_at \in Nat
    BY <1>2, RecognizedRow
  <2> QED
    BY <2>1, <2>2 DEF Shown
<1> HIDE DEF late
<1>5. /\ Aggregate(Shown(s) \cup late).total = Aggregate(Shown(s)).total + Aggregate(late).total
      /\ Aggregate(Shown(s) \cup late).count = Aggregate(Shown(s)).count + Aggregate(late).count
  BY <1>3, <1>4, AggregateUnion
<1>6. /\ Aggregate(EvidencesOf(s)).total = Aggregate(Shown(s)).total + Aggregate(late).total
      /\ Aggregate(EvidencesOf(s)).count = Aggregate(Shown(s)).count + Aggregate(late).count
  BY <1>4, <1>5, Zenon
<1> QED
  BY <1>1, <1>6, ExpenseTotals DEF FiguresAgree, StudentAggregate, late

-----------------------------------------------------------------------------
(* The public pages.                                                        *)

\* The list, the detail, the items, each evidence and each download of a
\* settlement tell the same.
LEMMA PagesSame ==
  ASSUME Recorded, NEW u, NEW s \in Settlements
  PROVE  PagesAgree(u, s, {x \in PublicList(u) : x.settlement = s},
                    PublicDetail(u, s), PublicItems(u, s))
<1> DEFINE listed == {x \in PublicList(u) : x.settlement = s}
           detail == PublicDetail(u, s)
           items == PublicItems(u, s)
           open == detail.code = 200
<1>1. open <=> s \in PublicSettlements(u)
  BY DEF PublicDetail, DetailOf, MayRead, PublicSettlements, Stored, Found, Refused
<1>2. (items.code = 200) <=> s \in PublicSettlements(u)
  BY DEF PublicItems, ItemsOf, MayRead, PublicSettlements, Stored, Found, Refused
<1>3. listed = IF s \in PublicSettlements(u)
               THEN {[settlement |-> s, org |-> settlements[s].org,
                      total |-> PublicAggregate(s).total, count |-> PublicAggregate(s).count]}
               ELSE {}
  BY DEF PublicList
<1>4. ASSUME s \in PublicSettlements(u)
      PROVE  /\ detail.body.total = PublicAggregate(s).total
             /\ detail.body.count = PublicAggregate(s).count
             /\ detail.body.artifacts = {a \in artifacts : a.settlement = s /\ a.status = "completed"}
             /\ items.body = Snapshot(s)
  BY <1>4 DEF PublicDetail, DetailOf, PublicItems, ItemsOf, MayRead, PublicSettlements, Stored,
              Found, Refused, Snapshot, IsPublic
<1>5. ASSUME NEW e \in EvidencesOf(s)
      PROVE  /\ (PublicEvidence(u, e).code = 200) = (open /\ e \in items.body)
             /\ (PublicEvidenceFile(u, e).code # 404) = (open /\ e \in items.body)
  <2>1. evidences[e] # NULL /\ evidences[e].settlement = s /\ e \in Evidences
    BY DEF EvidencesOf
  <2>2. EvidenceIsPublic(u, e) <=> s \in PublicSettlements(u) /\ e \in Snapshot(s)
    <3>1. s \in Stored => settlements[s].published_at \in Nat \cup {NULL}
      BY StoredRow DEF SettlementRow, Time
    <3>2. evidences[e].created_at \in Nat
      BY <2>1, RecognizedRow DEF Recognized
    <3> QED
      BY <2>1, <3>1, <3>2 DEF EvidenceIsPublic, PublicSettlements, Snapshot, IsPublic
  <2>3. (open /\ e \in items.body) <=> EvidenceIsPublic(u, e)
    BY <1>1, <1>4, <2>2
  <2>4. /\ (PublicEvidence(u, e).code = 200) <=> EvidenceIsPublic(u, e)
        /\ (PublicEvidenceFile(u, e).code # 404) <=> EvidenceIsPublic(u, e)
    BY <2>1 DEF PublicEvidence, PublicEvidenceFile, Found, Refused
  <2> HIDE DEF detail, items
  <2> QED
    BY <2>3, <2>4
<1>6. ASSUME NEW a \in artifacts, a.settlement = s
      PROVE  (PublicDownload(u, s, a).code # 404) = (open /\ a \in detail.body.artifacts)
  <2>1. (PublicDownload(u, s, a).code # 404) <=> ArtifactIsPublic(u, a)
    BY <1>6 DEF PublicDownload, Found, Refused
  <2>2. ArtifactIsPublic(u, a) <=> s \in PublicSettlements(u) /\ a.status = "completed"
    BY <1>6 DEF ArtifactIsPublic, PublicSettlements
  <2>3. (open /\ a \in detail.body.artifacts) <=> s \in PublicSettlements(u) /\ a.status = "completed"
    BY <1>1, <1>4, <1>6
  <2> HIDE DEF detail
  <2> QED
    BY <2>1, <2>2, <2>3
<1>7. open => /\ \A x \in listed : x.total = detail.body.total /\ x.count = detail.body.count
              /\ Aggregate(items.body) = [total |-> detail.body.total, count |-> detail.body.count]
  <2>1. PublicAggregate(s) = Aggregate(Snapshot(s))
    BY DEF PublicAggregate
  <2>2. Aggregate(Snapshot(s)) = [total |-> Aggregate(Snapshot(s)).total,
                                  count |-> Aggregate(Snapshot(s)).count]
    BY DEF Aggregate
  <2> QED
    BY <1>1, <1>3, <1>4, <2>1, <2>2
<1>8. (listed # {}) <=> s \in PublicSettlements(u)
  BY <1>3
<1> HIDE DEF listed, detail, items
<1>9. open = (listed # {}) /\ open = (items.code = 200)
  BY <1>1, <1>2, <1>8
<1> QED
  BY <1>5, <1>6, <1>7, <1>9 DEF PagesAgree, listed, detail, items

-----------------------------------------------------------------------------
(* The periods and their cards.                                             *)

\* What a row of the public list says.
ListSays(x, s) ==
  /\ x.settlement = s /\ x.org = settlements[s].org
  /\ x.total = PublicAggregate(s).total /\ x.count = PublicAggregate(s).count

LEMMA ListIs ==
  ASSUME NEW u
  PROVE  /\ \A x \in PublicList(u) : /\ x.settlement \in PublicSettlements(u)
                                      /\ ListSays(x, x.settlement)
         /\ \A s \in PublicSettlements(u) : \E x \in PublicList(u) : ListSays(x, s)
<1> DEFINE Row(s) == [settlement |-> s, org |-> settlements[s].org,
                      total |-> PublicAggregate(s).total, count |-> PublicAggregate(s).count]
<1>1. PublicList(u) = {Row(s) : s \in PublicSettlements(u)}
  BY DEF PublicList
<1>2. ASSUME NEW s PROVE ListSays(Row(s), s) /\ Row(s).settlement = s
  BY DEF ListSays
<1> HIDE DEF Row
<1> QED
  BY <1>1, <1>2

LEMMA CountImage ==
  ASSUME NEW S, IsFiniteSet(S), NEW to, \A x, y \in S : to[x] = to[y] => x = y
  PROVE  /\ IsFiniteSet({to[x] : x \in S})
         /\ Cardinality({to[x] : x \in S}) = Cardinality(S)
<1> DEFINE T == {to[x] : x \in S}
           f == [x \in S |-> 1]
           h == [y \in T |-> 1]
<1>1. (\A x \in S : f[x] = 1 /\ h[to[x]] = f[x]) /\ (\A y \in T : h[y] = 1)
  OBVIOUS
<1> HIDE DEF f, h
<1>2. IsFiniteSet({to[x] : x \in S}) /\ SumOf(h, {to[x] : x \in S}) = SumOf(f, S)
  BY <1>1, SumImage
<1>3. SumOf(f, S) = Cardinality(S)
  BY <1>1, SumOfOnes
<1> HIDE DEF T
<1>4. IsFiniteSet(T) /\ SumOf(h, T) = SumOf(f, S)
  BY <1>2, Zenon DEF T
<1>5. SumOf(h, T) = Cardinality(T)
  BY <1>1, <1>4, SumOfOnes
<1>6. IsFiniteSet(T) /\ Cardinality(T) = Cardinality(S)
  BY <1>3, <1>4, <1>5
<1> QED
  BY <1>6, Zenon DEF T

LEMMA StoredFinite ==
  ASSUME NEW S \in SUBSET Stored
  PROVE  IsFiniteSet(S) /\ Cardinality(S) \in Nat
BY RecordsAssumption, FS_Subset, FS_CardinalityType DEF Stored

\* A period counts what the list has of it.
ListedIn(u, p) == {x \in PublicList(u) : PeriodOf(x.settlement) = p}

CountsIn(u, p) == {o.settlement_count : o \in {q \in PublicPeriods(u) : q.period = p}}

LEMMA PeriodsSame ==
  ASSUME NEW u, NEW p
  PROVE  CountsIn(u, p) = (IF ListedIn(u, p) = {} THEN {} ELSE {Cardinality(ListedIn(u, p))})
<1> DEFINE listed == {x \in PublicList(u) : PeriodOf(x.settlement) = p}
           S == {s \in PublicSettlements(u) : PeriodOf(s) = p}
           to == [s \in S |-> [settlement |-> s, org |-> settlements[s].org,
                    total |-> PublicAggregate(s).total, count |-> PublicAggregate(s).count]]
           told == {o.settlement_count : o \in {q \in PublicPeriods(u) : q.period = p}}
<1>1. listed = {to[s] : s \in S}
  BY DEF PublicList
<1>2. \A s, t \in S : to[s] = to[t] => s = t
  <2>1. \A s \in S : to[s].settlement = s
    OBVIOUS
  <2> HIDE DEF to
  <2> QED
    BY <2>1
<1>3. IsFiniteSet(S)
  <2>1. S \in SUBSET Stored
    BY DEF PublicSettlements
  <2> QED
    BY <2>1, StoredFinite
<1>4. told = IF S = {} THEN {} ELSE {Cardinality(S)}
  <2> DEFINE P == {PeriodOf(s) : s \in PublicSettlements(u)}
             N(q) == Cardinality({s \in PublicSettlements(u) : PeriodOf(s) = q})
  <2>1. PublicPeriods(u) = {[period |-> q, settlement_count |-> N(q)] : q \in P}
    BY DEF PublicPeriods
  <2>2. p \in P <=> S # {}
    OBVIOUS
  <2>3. N(p) = Cardinality(S)
    OBVIOUS
  <2> HIDE DEF P, N, S
  <2> DEFINE row == [q \in P |-> [period |-> q, settlement_count |-> N(q)]]
  <2>4. PublicPeriods(u) = {row[q] : q \in P}
    BY <2>1
  <2>5. \A q \in P : row[q].period = q /\ row[q].settlement_count = N(q)
    OBVIOUS
  <2> HIDE DEF row
  <2>6. told = IF p \in P THEN {N(p)} ELSE {}
    BY <2>4, <2>5
  <2> QED
    BY <2>2, <2>3, <2>6
<1> HIDE DEF to, S
<1>5. Cardinality({to[s] : s \in S}) = Cardinality(S)
  BY <1>2, <1>3, CountImage
<1>6. Cardinality(listed) = Cardinality(S)
  BY <1>1, <1>5, Zenon
<1>7. listed = {} <=> S = {}
  BY <1>1
<1> HIDE DEF listed, told
<1>8. told = IF listed = {} THEN {} ELSE {Cardinality(listed)}
  BY <1>4, <1>6, <1>7
<1> QED
  BY <1>8, Zenon DEF listed, told, ListedIn, CountsIn

\* What a card of a period says.
CardSays(c, o, s, primary) ==
  /\ c.org = o /\ c.settlement = s
  /\ c.is_my_organization = (primary # NULL /\ o = primary)
  /\ c.status_label = StatusLabel(s)
  /\ c.is_published = (s # NULL /\ IsPublic(settlements[s]))
  /\ c.total = (IF s = NULL THEN NULL ELSE StudentAggregate(s).total)
  /\ c.count = (IF s = NULL THEN NULL ELSE StudentAggregate(s).count)

LEMMA CardsAre ==
  ASSUME NEW u, NEW p, NEW pick, NEW primary
  PROVE  LET cards == Cards(PeriodRows(u, p, pick), p, primary)
         IN  /\ \A c \in cards : \E o \in CardOrgs(u) : CardSays(c, o, pick[o], primary)
             /\ \A o \in CardOrgs(u) : \E c \in cards : CardSays(c, o, pick[o], primary)
<1> DEFINE rows == PeriodRows(u, p, pick)
           Card(row) ==
             LET s == row.settlement
                 public == s # NULL /\ IsPublic(settlements[s])
             IN  [settlement |-> s, org |-> row.org, period |-> p,
                  is_my_organization |-> primary # NULL /\ row.org = primary,
                  status_label |-> StatusLabel(s), is_published |-> public,
                  audited_at |-> IF s = NULL THEN NULL ELSE settlements[s].audited_at,
                  published_at |-> IF s = NULL THEN NULL ELSE settlements[s].published_at,
                  total |-> row.total, count |-> row.count,
                  view_count |-> IF public THEN settlements[s].view_count ELSE NULL]
           Row(o) == [org |-> o, settlement |-> pick[o],
                      total |-> IF pick[o] = NULL THEN NULL ELSE StudentAggregate(pick[o]).total,
                      count |-> IF pick[o] = NULL THEN NULL ELSE StudentAggregate(pick[o]).count]
<1>1. Cards(rows, p, primary) = {Card(row) : row \in rows}
  BY DEF Cards
<1>2. rows = {Row(o) : o \in CardOrgs(u)}
  BY DEF PeriodRows
<1>3. ASSUME NEW o PROVE CardSays(Card(Row(o)), o, pick[o], primary)
  BY DEF CardSays
<1> HIDE DEF Card, Row, rows
<1>4. (\A c \in Cards(rows, p, primary) : \E o \in CardOrgs(u) : CardSays(c, o, pick[o], primary))
      /\ \A o \in CardOrgs(u) : \E c \in Cards(rows, p, primary) : CardSays(c, o, pick[o], primary)
  BY <1>1, <1>2, <1>3
<1> QED
  BY <1>4 DEF rows

\* The settlement on the card of an organization is one of the period.
LEMMA PickIs ==
  ASSUME NEW u, NEW p, NEW pick \in Picks(u, p), NEW o \in CardOrgs(u)
  PROVE  IF InPeriod(o, p) = {} THEN pick[o] = NULL ELSE pick[o] \in InPeriod(o, p)
<1> DEFINE of == [q \in CardOrgs(u) |-> IF InPeriod(q, p) = {} THEN {NULL} ELSE InPeriod(q, p)]
<1>1. pick[o] \in of[o]
  BY DEF Picks
<1> QED
  BY <1>1

LEMMA SemesterNames ==
  /\ DOMAIN Semesters = 1 .. 4
  /\ Semesters[1] = "1" /\ Semesters[2] = "2"
  /\ Semesters[3] = "summer" /\ Semesters[4] = "winter"
  /\ ToSet(Semesters) = {"1", "2", "summer", "winter"}
<1>1. /\ DOMAIN Semesters = 1 .. 4
      /\ Semesters[1] = "1" /\ Semesters[2] = "2"
      /\ Semesters[3] = "summer" /\ Semesters[4] = "winter"
  BY DEF Semesters
<1>2. ToSet(Semesters) = {Semesters[i] : i \in 1 .. 4}
  BY <1>1 DEF ToSet
<1> QED
  BY <1>1, <1>2

LEMMA PublicRow ==
  ASSUME Recorded, NEW u, NEW s \in PublicSettlements(u)
  PROVE  /\ s \in Stored /\ s # NULL /\ IsPublic(settlements[s])
         /\ settlements[s].org \in CardOrgs(u)
         /\ StudentAggregate(s) = PublicAggregate(s)
<1>1. s \in Stored /\ IsPublic(settlements[s]) /\ Covers(u, s)
  BY DEF PublicSettlements
<1>2. settlements[s].org \in Orgs /\ s # NULL
  BY <1>1, StoredRow, RecordsAssumption DEF SettlementRow
<1>3. Shown(s) = Snapshot(s)
  BY <1>1 DEF IsPublic, Shown, Snapshot
<1>4. StudentAggregate(s) = PublicAggregate(s)
  BY <1>3, Zenon DEF StudentAggregate, PublicAggregate
<1> QED
  BY <1>1, <1>2, <1>4 DEF Covers, CardOrgs

\* A published settlement is on the card of its organization, or there is
\* another one of the period.
LEMMA CardsSame ==
  ASSUME Recorded, NEW u, NEW p \in {PeriodOf(s) : s \in Stored}, NEW pick \in Picks(u, p)
  PROVE  CardsAgree(PeriodCards(u, p, pick).body, p,
                    {x \in PublicList(u) : PeriodOf(x.settlement) = p})
<1> DEFINE cards == Cards(PeriodRows(u, p, pick), p, PrimaryOrg(u))
           listed == {x \in PublicList(u) : PeriodOf(x.settlement) = p}
<1>1. PeriodCards(u, p, pick).body = cards
  <2>1. PICK s \in Stored : p = PeriodOf(s)
    OBVIOUS
  <2>2. settlements[s].semester \in ToSet(Semesters)
    BY StoredRow DEF SettlementRow
  <2>3. \E i \in DOMAIN Semesters : Semesters[i] = p.semester
    BY <2>1, <2>2, SemesterNames DEF PeriodOf
  <2> QED
    BY <2>3 DEF PeriodCards, Found
<1>2. ASSUME NEW x \in listed
      PROVE  /\ x.settlement \in PublicSettlements(u) /\ PeriodOf(x.settlement) = p
             /\ x.org = settlements[x.settlement].org
             /\ x.total = PublicAggregate(x.settlement).total
             /\ x.count = PublicAggregate(x.settlement).count
  BY ListIs DEF ListSays
<1>3. ASSUME NEW s \in PublicSettlements(u), PeriodOf(s) = p
      PROVE  \E x \in listed : x.settlement = s
  BY <1>3, ListIs DEF ListSays
<1> HIDE DEF listed
<1>4. ASSUME NEW c \in cards, c.is_published
      PROVE  \E x \in listed : /\ x.settlement = c.settlement /\ x.org = c.org
                               /\ x.total = c.total /\ x.count = c.count
  <2>1. PICK o \in CardOrgs(u) : CardSays(c, o, pick[o], PrimaryOrg(u))
    BY CardsAre
  <2> DEFINE s == pick[o]
  <2>2. s # NULL /\ IsPublic(settlements[s])
    BY <1>4, <2>1 DEF CardSays
  <2>3. s \in InPeriod(o, p)
    BY <2>2, PickIs
  <2>4. s \in PublicSettlements(u) /\ PeriodOf(s) = p /\ settlements[s].org = o
    BY <2>2, <2>3 DEF InPeriod, PublicSettlements, Covers, CardOrgs
  <2>5. PICK x \in listed : x.settlement = s
    BY <1>3, <2>4
  <2>6. x.org = o /\ x.total = StudentAggregate(s).total /\ x.count = StudentAggregate(s).count
    BY <1>2, <2>4, <2>5, PublicRow
  <2> QED
    BY <2>1, <2>2, <2>5, <2>6 DEF CardSays
<1>5. ASSUME NEW x \in listed
      PROVE  \E c \in cards :
               /\ c.org = x.org
               /\ \/ c.settlement = x.settlement /\ c.is_published
                  \/ Cardinality(InPeriod(x.org, p)) > 1
  <2> DEFINE s == x.settlement
             o == x.org
  <2>1. /\ s \in Stored /\ s # NULL /\ IsPublic(settlements[s]) /\ o \in CardOrgs(u)
        /\ o = settlements[s].org /\ PeriodOf(s) = p
    BY <1>2, PublicRow
  <2>2. PICK c \in cards : CardSays(c, o, pick[o], PrimaryOrg(u))
    BY <2>1, CardsAre
  <2>3. s \in InPeriod(o, p)
    BY <2>1 DEF InPeriod
  <2>4. pick[o] \in InPeriod(o, p)
    BY <2>1, <2>3, PickIs
  <2>5. CASE pick[o] = s
    BY <2>1, <2>2, <2>5 DEF CardSays
  <2>6. CASE pick[o] # s
    <3>1. InPeriod(o, p) \in SUBSET Stored
      BY DEF InPeriod
    <3>2. IsFiniteSet(InPeriod(o, p)) /\ Cardinality(InPeriod(o, p)) \in Nat
      BY <3>1, StoredFinite
    <3>3. Cardinality(InPeriod(o, p)) # 0
      BY <2>3, <3>2, FS_EmptySet
    <3>4. Cardinality(InPeriod(o, p)) # 1
      BY <2>3, <2>4, <2>6, <3>2, FS_Singleton
    <3> QED
      BY <2>2, <3>2, <3>3, <3>4 DEF CardSays
  <2> QED
    BY <2>5, <2>6
<1> HIDE DEF cards
<1>6. CardsAgree(cards, p, listed)
  BY <1>4, <1>5 DEF CardsAgree
<1> QED
  BY <1>1, <1>6, Zenon DEF listed

-----------------------------------------------------------------------------
(* The student dashboard.                                                   *)

\* There is a main seat among seats of a user.
LEMMA MainSeatIs ==
  ASSUME NEW u, NEW S \in SUBSET SeatsOf(u), S # {}
  PROVE  FirstOf(S, MainSeat) \in S
<1> DEFINE R == {p \in S \X S : MainSeat(p[1], p[2])}
<1>1. \A m \in S : m \in seats /\ m.user = u /\ m.primary \in BOOLEAN /\ m.created_at \in Nat
  BY RecordsAssumption DEF SeatsOf
<1>2. \A m, n \in S : m = n \/ m.created_at # n.created_at
  BY <1>1, RecordsAssumption
<1>3. \A m, n \in S : <<m, n>> \in R <=> MainSeat(m, n)
  OBVIOUS
<1> HIDE DEF R
<1>4. Orders(R, S)
  BY <1>1, <1>2, <1>3 DEF Orders, MainSeat
<1>5. IsFiniteSet(S)
  BY RecordsAssumption, FS_Subset DEF SeatsOf
<1>6. \E m \in S : \A n \in S \ {m} : MainSeat(m, n)
  BY <1>3, <1>4, <1>5, FirstExists
<1> QED
  BY <1>6 DEF FirstOf

\* The organization of a student without a seat is of a college he sees.
LEMMA IdentityOrgIs ==
  ASSUME NEW u
  PROVE  IdentityOrg(u) = NULL \/ IdentityOrg(u) \in CardOrgs(u)
<1> DEFINE S == {o \in Orgs : /\ account[u].college # NULL
                              /\ account[u].department # NULL
                              /\ organization[o].college = account[u].college
                              /\ organization[o].department = account[u].department}
           R == {p \in S \X S : organization[p[1]].created_at < organization[p[2]].created_at}
<1>1. \A o \in S : o \in CardOrgs(u) /\ organization[o].created_at \in Nat
  BY RecordsAssumption DEF CardOrgs, VisibleColleges
<1>2. \A o, p \in S : o = p \/ organization[o].created_at # organization[p].created_at
  BY RecordsAssumption
<1>3. \A o, p \in S : <<o, p>> \in R <=> organization[o].created_at < organization[p].created_at
  OBVIOUS
<1>4. IdentityOrg(u) = IF S = {} THEN NULL
        ELSE CHOOSE o \in S : \A p \in S \ {o} : organization[o].created_at < organization[p].created_at
  BY DEF IdentityOrg, FirstOf
<1>5. IsFiniteSet(S)
  BY RecordsAssumption, FS_Subset
<1> HIDE DEF R, S
<1>6. Orders(R, S)
  BY <1>1, <1>2, <1>3 DEF Orders
<1>7. S # {} => \E o \in S : \A p \in S \ {o} : organization[o].created_at < organization[p].created_at
  BY <1>3, <1>5, <1>6, FirstExists
<1> QED
  BY <1>1, <1>4, <1>7

LEMMA SeatOrg ==
  ASSUME NEW u, NEW m \in SeatsOf(u)
  PROVE  m.org \in CardOrgs(u) /\ m.org # NULL
BY RecordsAssumption DEF SeatsOf, CardOrgs, VisibleColleges

LEMMA DashboardOrgIs ==
  ASSUME NEW u, NEW asked, DashboardOrg(u, asked).code = 200
  PROVE  DashboardOrg(u, asked).body \in CardOrgs(u) \cup {"own"}
<1>1. PrimaryOrg(u) = NULL \/ PrimaryOrg(u) \in CardOrgs(u)
  BY MainSeatIs, SeatOrg, IdentityOrgIs DEF PrimaryOrg
<1> QED
  BY <1>1, SeatOrg DEF DashboardOrg, Found, Refused

\* The dashboard shows what the list does.
LEMMA DashboardSame ==
  ASSUME Recorded, NEW u, NEW o \in CardOrgs(u) \cup {"own"},
         NEW pick \in Picks(u, CurrentPeriod(o).period)
  PROVE  DashboardAgrees(DashboardOf(u, o, pick), CurrentPeriod(o), PublicList(u))
<1> DEFINE page == DashboardOf(u, o, pick)
           current == CurrentPeriod(o)
           listed == {x \in PublicList(u) : x.org = page.org}
           published == {s \in OrgSettlements(o) : IsPublic(settlements[s])}
           primary == IF o \in Orgs THEN o ELSE NULL
           recent == FirstOnes(5, published, LAMBDA s, t :
                       settlements[s].published_at > settlements[t].published_at)
           period == current.period
<1>1. /\ page.org = o /\ page.published_count = Cardinality(published)
      /\ page.overview = Cards(PeriodRows(u, period, pick), period, primary)
      /\ page.recent = {[settlement |-> s, status_label |-> StatusLabel(s),
                         total |-> StudentAggregate(s).total, comment |-> LatestComment(s)] :
                          s \in recent}
      /\ recent \subseteq published
  BY DEF DashboardOf, FirstOnes
<1> HIDE DEF page, recent, period, primary
<1>2. published \in SUBSET PublicSettlements(u)
      /\ \A s \in PublicSettlements(u) : s \in published <=> settlements[s].org = o
  <2>1. ASSUME NEW s \in published PROVE s \in PublicSettlements(u)
    <3>1. s \in Stored /\ settlements[s].org = o /\ o \in Orgs /\ IsPublic(settlements[s])
      BY StoredRow DEF OrgSettlements, SettlementRow
    <3>2. o \in CardOrgs(u)
      BY <3>1, RecordsAssumption
    <3> QED
      BY <3>1, <3>2 DEF PublicSettlements, Covers, CardOrgs
  <2> QED
    BY <2>1 DEF PublicSettlements, OrgSettlements
<1>3. Cardinality(listed) = Cardinality(published)
  <2> DEFINE to == [s \in published |-> [settlement |-> s, org |-> settlements[s].org,
                      total |-> PublicAggregate(s).total, count |-> PublicAggregate(s).count]]
  <2>1. listed = {to[s] : s \in published}
    <3> DEFINE row(s) == [settlement |-> s, org |-> settlements[s].org,
                 total |-> PublicAggregate(s).total, count |-> PublicAggregate(s).count]
    <3>1. PublicList(u) = {row(s) : s \in PublicSettlements(u)}
      BY DEF PublicList
    <3>2. \A s \in published : to[s] = row(s)
      OBVIOUS
    <3>3. \A s \in PublicSettlements(u) : row(s).org = settlements[s].org
      OBVIOUS
    <3> HIDE DEF row, to, published
    <3> QED
      BY <1>1, <1>2, <3>1, <3>2, <3>3
  <2>2. \A s \in published : to[s].settlement = s
    OBVIOUS
  <2>3. IsFiniteSet(published)
    <3>1. published \in SUBSET Stored
      BY DEF OrgSettlements
    <3> QED
      BY <3>1, StoredFinite
  <2> HIDE DEF to, published
  <2>4. Cardinality({to[s] : s \in published}) = Cardinality(published)
    BY <2>2, <2>3, CountImage
  <2> QED
    BY <2>1, <2>4, Zenon
<1>4. ASSUME NEW x \in page.recent
      PROVE  \E y \in listed : y.settlement = x.settlement /\ y.total = x.total
  <2>1. PICK s \in published : x.settlement = s /\ x.total = StudentAggregate(s).total
    <3>1. PICK s \in recent : x = [settlement |-> s, status_label |-> StatusLabel(s),
            total |-> StudentAggregate(s).total, comment |-> LatestComment(s)]
      BY <1>1
    <3> HIDE DEF published
    <3> QED
      BY <1>1, <3>1
  <2>2. PICK y \in PublicList(u) : ListSays(y, s)
    BY <1>2, <2>1, ListIs
  <2>3. y.org = o
    BY <1>2, <2>2 DEF ListSays
  <2>4. StudentAggregate(s) = PublicAggregate(s)
    BY <1>2, PublicRow
  <2> QED
    BY <1>1, <2>1, <2>2, <2>3, <2>4 DEF ListSays
<1>5. ASSUME NEW c \in page.overview
      PROVE  /\ c.is_my_organization = (c.org = page.org)
             /\ c.org = page.org /\ c.settlement = current.settlement =>
                  /\ c.total = IF c.settlement = NULL THEN NULL ELSE current.total
                  /\ c.status_label = current.status_label
                  /\ c.is_published = current.is_published
  <2>1. PICK q \in CardOrgs(u) : CardSays(c, q, pick[q], primary)
    <3>1. c \in Cards(PeriodRows(u, period, pick), period, primary)
      BY <1>1
    <3> QED
      BY <3>1, CardsAre
  <2>2. c.is_my_organization = (c.org = page.org)
    <3>1. q \in Orgs /\ NULL \notin Orgs /\ "own" \notin Orgs
      BY RecordsAssumption DEF CardOrgs
    <3> QED
      BY <1>1, <2>1, <3>1 DEF CardSays, CardOrgs, primary
  <2>3. /\ current.status_label = StatusLabel(current.settlement)
        /\ current.is_published = (current.settlement # NULL
                                     /\ IsPublic(settlements[current.settlement]))
        /\ current.settlement # NULL =>
             current.total = StudentAggregate(current.settlement).total
    BY DEF CurrentPeriod
  <2> HIDE DEF current
  <2>4. ASSUME c.settlement = current.settlement
        PROVE  /\ c.total = IF c.settlement = NULL THEN NULL ELSE current.total
               /\ c.status_label = current.status_label
               /\ c.is_published = current.is_published
    BY <2>1, <2>3, <2>4 DEF CardSays
  <2> QED
    BY <2>2, <2>4
<1>6. page.published_count = Cardinality(listed)
  BY <1>1, <1>3
<1> HIDE DEF current, listed
<1>7. DashboardAgrees(page, current, PublicList(u))
  BY <1>4, <1>5, <1>6 DEF DashboardAgrees, listed
<1> QED
  BY <1>7 DEF page, current

-----------------------------------------------------------------------------
(* The treasurer's dashboard.                                               *)

LEMMA StatusesFinite ==
  IsFiniteSet(MatchStatus) /\ IsFiniteSet(SettlementStatus)
<1>1. \A S, x : IsFiniteSet(S) => IsFiniteSet(S \cup {x})
  BY FS_AddElement
<1>2. \A a, b, c, d, e, f, g : /\ IsFiniteSet({a, b, c, d, e, f})
                               /\ IsFiniteSet({a, b, c, d, e, f, g})
  <2> TAKE a, b, c, d, e, f, g
  <2>1. /\ IsFiniteSet((((({a} \cup {b}) \cup {c}) \cup {d}) \cup {e}) \cup {f})
        /\ IsFiniteSet(((((({a} \cup {b}) \cup {c}) \cup {d}) \cup {e}) \cup {f}) \cup {g})
    BY <1>1, FS_Singleton
  <2>2. /\ {a, b, c, d, e, f} = (((({a} \cup {b}) \cup {c}) \cup {d}) \cup {e}) \cup {f}
        /\ {a, b, c, d, e, f, g}
             = ((((({a} \cup {b}) \cup {c}) \cup {d}) \cup {e}) \cup {f}) \cup {g}
    OBVIOUS
  <2> QED
    BY <2>1, <2>2, Zenon
<1> QED
  BY <1>2 DEF MatchStatus, SettlementStatus

\* The results of a settlement, counted by status and counted at once.
LEMMA ResultsCounted ==
  ASSUME Recorded, NEW s, NEW K \in SUBSET MatchStatus
  PROVE  /\ CountOf(ResultCounts(s), K)
              = Cardinality({x \in results : x.settlement = s /\ x.status \in K})
         /\ IsFiniteSet({x \in results : x.settlement = s /\ x.status \in K})
<1> DEFINE S == {x \in results : x.settlement = s /\ x.status \in K}
           key == [x \in S |-> x.status]
<1>1. IsFiniteSet(S) /\ IsFiniteSet(K)
  BY StatusesFinite, FS_Subset DEF Recorded, OnRecord
<1>2. \A k \in K : ResultCounts(s)[k] = Cardinality(PartOf(S, key, k))
  <2>1. ASSUME NEW k \in K PROVE ResultCounts(s)[k] = Cardinality(PartOf(S, key, k))
    <3>1. ResultCounts(s)[k] = Cardinality({x \in results : x.settlement = s /\ x.status = k})
      BY DEF ResultCounts
    <3>2. PartOf(S, key, k) = {x \in results : x.settlement = s /\ x.status = k}
      BY DEF PartOf
    <3> QED
      BY <3>1, <3>2, Zenon
  <2> QED
    BY <2>1
<1>3. \A x \in S : key[x] \in K
  OBVIOUS
<1> HIDE DEF S, key
<1>4. SumOf(ResultCounts(s), K) = Cardinality(S)
  BY <1>1, <1>2, <1>3, CountOfParts
<1>5. CountOf(ResultCounts(s), K) = SumOf(ResultCounts(s), K)
  BY <1>1, CountOfIs
<1> QED
  BY <1>1, <1>4, <1>5 DEF S

\* Settlements, counted by status and counted at once.
LEMMA StatusCounted ==
  ASSUME NEW T \in SUBSET Stored, NEW K \in SUBSET SettlementStatus
  PROVE  /\ CountOf(CountsByStatus(T), K)
              = Cardinality({s \in T : settlements[s].status \in K})
         /\ IsFiniteSet({s \in T : settlements[s].status \in K})
<1> DEFINE S == {s \in T : settlements[s].status \in K}
           key == [s \in S |-> settlements[s].status]
<1>1. IsFiniteSet(S) /\ IsFiniteSet(K)
  BY StatusesFinite, StoredFinite, FS_Subset
<1>2. \A k \in K : CountsByStatus(T)[k] = Cardinality(PartOf(S, key, k))
  <2>1. ASSUME NEW k \in K PROVE CountsByStatus(T)[k] = Cardinality(PartOf(S, key, k))
    <3>1. CountsByStatus(T)[k] = Cardinality({s \in T : settlements[s].status = k})
      BY DEF CountsByStatus
    <3>2. PartOf(S, key, k) = {s \in T : settlements[s].status = k}
      BY DEF PartOf
    <3> QED
      BY <3>1, <3>2, Zenon
  <2> QED
    BY <2>1
<1>3. \A x \in S : key[x] \in K
  OBVIOUS
<1> HIDE DEF S, key
<1>4. SumOf(CountsByStatus(T), K) = Cardinality(S)
  BY <1>1, <1>2, <1>3, CountOfParts
<1>5. CountOf(CountsByStatus(T), K) = SumOf(CountsByStatus(T), K)
  BY <1>1, CountOfIs
<1> QED
  BY <1>1, <1>4, <1>5 DEF S

LEMMA RollupCounts ==
  ASSUME Recorded, NEW s
  PROVE  /\ Rollup(s).matched
              = Cardinality({x \in results : x.settlement = s /\ x.status \in MatchedLike})
         /\ Rollup(s).unmatched
              = Cardinality({x \in results : x.settlement = s /\ x.status \notin MatchedLike})
<1> DEFINE one == {x \in results : x.settlement = s /\ x.status \in MatchedLike}
           all == {x \in results : x.settlement = s /\ x.status \in MatchStatus}
           rest == {x \in results : x.settlement = s /\ x.status \notin MatchedLike}
<1>1. /\ Rollup(s).matched = CountOf(ResultCounts(s), MatchedLike)
      /\ Rollup(s).unmatched = CountOf(ResultCounts(s), MatchStatus)
                                 - CountOf(ResultCounts(s), MatchedLike)
  BY DEF Rollup
<1>2. MatchedLike \in SUBSET MatchStatus /\ MatchStatus \in SUBSET MatchStatus
  BY DEF MatchedLike, MatchStatus
<1>3. /\ CountOf(ResultCounts(s), MatchedLike) = Cardinality(one) /\ IsFiniteSet(one)
      /\ CountOf(ResultCounts(s), MatchStatus) = Cardinality(all) /\ IsFiniteSet(all)
  BY <1>2, ResultsCounted
<1>4. rest = all \ one /\ all \cap one = one
  BY <1>2 DEF Recorded, OnRecord
<1>5. Cardinality(all \ one) = Cardinality(all) - Cardinality(all \cap one)
  BY <1>3, FS_Difference
<1>6. Cardinality(rest) = Cardinality(all) - Cardinality(one)
  BY <1>4, <1>5, Zenon
<1> QED
  BY <1>1, <1>3, <1>6

LEMMA ExpenseSum ==
  ASSUME NEW T, IsFiniteSet(T)
  PROVE  MapThenSumSet(LAMBDA s : ExpenseSummary(s).total, T) = SumOf([s \in T |-> ExpenseSummary(s).total], T)
<1> DEFINE f == [s \in T |-> ExpenseSummary(s).total]
           Step(g) == [U \in SUBSET T |-> IF U = {} THEN 0
                        ELSE LET x == CHOOSE x \in U : TRUE IN ExpenseSummary(x).total + g[U \ {x}]]
           it == CHOOSE g : g = Step(g)
<1>1. MapThenSumSet(LAMBDA s : ExpenseSummary(s).total, T) = it[T]
  BY DEF MapThenSumSet, MapThenFoldSet
<1>2. \A x \in T : f[x] = ExpenseSummary(x).total
  OBVIOUS
<1> HIDE DEF f
<1>3. ASSUME NEW g PROVE g = Step(g) <=> IsFold(g, T, f)
  <2>1. \A U \in SUBSET T : U # {} => f[AnyOf(U)] = ExpenseSummary(AnyOf(U)).total
    BY <1>2, AnyOfIn
  <2>2. [U \in SUBSET T |-> IF U = {} THEN 0 ELSE f[AnyOf(U)] + g[U \ {AnyOf(U)}]]
      = [U \in SUBSET T |-> IF U = {} THEN 0 ELSE ExpenseSummary(AnyOf(U)).total + g[U \ {AnyOf(U)}]]
    BY <2>1
  <2> QED
    BY <2>2 DEF IsFold, AnyOf
<1> HIDE DEF Step
<1>4. it = Step(it)
  BY <1>3, FoldExists
<1>5. SumOf(f, T) = it[T]
  BY <1>3, <1>4, FoldSum
<1> QED
  BY <1>1, <1>5 DEF f

LEMMA MatchedSum ==
  ASSUME NEW T, IsFiniteSet(T)
  PROVE  MapThenSumSet(LAMBDA s : Rollup(s).matched, T) = SumOf([s \in T |-> Rollup(s).matched], T)
<1> DEFINE f == [s \in T |-> Rollup(s).matched]
           Step(g) == [U \in SUBSET T |-> IF U = {} THEN 0
                        ELSE LET x == CHOOSE x \in U : TRUE IN Rollup(x).matched + g[U \ {x}]]
           it == CHOOSE g : g = Step(g)
<1>1. MapThenSumSet(LAMBDA s : Rollup(s).matched, T) = it[T]
  BY DEF MapThenSumSet, MapThenFoldSet
<1>2. \A x \in T : f[x] = Rollup(x).matched
  OBVIOUS
<1> HIDE DEF f
<1>3. ASSUME NEW g PROVE g = Step(g) <=> IsFold(g, T, f)
  <2>1. \A U \in SUBSET T : U # {} => f[AnyOf(U)] = Rollup(AnyOf(U)).matched
    BY <1>2, AnyOfIn
  <2>2. [U \in SUBSET T |-> IF U = {} THEN 0 ELSE f[AnyOf(U)] + g[U \ {AnyOf(U)}]]
      = [U \in SUBSET T |-> IF U = {} THEN 0 ELSE Rollup(AnyOf(U)).matched + g[U \ {AnyOf(U)}]]
    BY <2>1
  <2> QED
    BY <2>2 DEF IsFold, AnyOf
<1> HIDE DEF Step
<1>4. it = Step(it)
  BY <1>3, FoldExists
<1>5. SumOf(f, T) = it[T]
  BY <1>3, <1>4, FoldSum
<1> QED
  BY <1>1, <1>5 DEF f

LEMMA UnmatchedSum ==
  ASSUME NEW T, IsFiniteSet(T)
  PROVE  MapThenSumSet(LAMBDA s : Rollup(s).unmatched, T) = SumOf([s \in T |-> Rollup(s).unmatched], T)
<1> DEFINE f == [s \in T |-> Rollup(s).unmatched]
           Step(g) == [U \in SUBSET T |-> IF U = {} THEN 0
                        ELSE LET x == CHOOSE x \in U : TRUE IN Rollup(x).unmatched + g[U \ {x}]]
           it == CHOOSE g : g = Step(g)
<1>1. MapThenSumSet(LAMBDA s : Rollup(s).unmatched, T) = it[T]
  BY DEF MapThenSumSet, MapThenFoldSet
<1>2. \A x \in T : f[x] = Rollup(x).unmatched
  OBVIOUS
<1> HIDE DEF f
<1>3. ASSUME NEW g PROVE g = Step(g) <=> IsFold(g, T, f)
  <2>1. \A U \in SUBSET T : U # {} => f[AnyOf(U)] = Rollup(AnyOf(U)).unmatched
    BY <1>2, AnyOfIn
  <2>2. [U \in SUBSET T |-> IF U = {} THEN 0 ELSE f[AnyOf(U)] + g[U \ {AnyOf(U)}]]
      = [U \in SUBSET T |-> IF U = {} THEN 0 ELSE Rollup(AnyOf(U)).unmatched + g[U \ {AnyOf(U)}]]
    BY <2>1
  <2> QED
    BY <2>2 DEF IsFold, AnyOf
<1> HIDE DEF Step
<1>4. it = Step(it)
  BY <1>3, FoldExists
<1>5. SumOf(f, T) = it[T]
  BY <1>3, <1>4, FoldSum
<1> QED
  BY <1>1, <1>5 DEF f

\* A count over settlements.
LEMMA CountOverSettlements ==
  ASSUME NEW X, IsFiniteSet(X), NEW T, IsFiniteSet(T), \A x \in X : x.settlement \in T,
         NEW f, \A s \in T : f[s] = Cardinality({x \in X : x.settlement = s})
  PROVE  SumOf(f, T) = Cardinality(X)
<1> DEFINE key == [x \in X |-> x.settlement]
<1>1. ASSUME NEW s \in T PROVE f[s] = Cardinality(PartOf(X, key, s))
  <2>1. PartOf(X, key, s) = {x \in X : x.settlement = s}
    BY DEF PartOf
  <2> QED
    BY <2>1, Zenon
<1>2. \A x \in X : key[x] \in T
  OBVIOUS
<1> HIDE DEF key
<1>3. \A s \in T : f[s] = Cardinality(PartOf(X, key, s))
  BY <1>1
<1> QED
  BY <1>2, <1>3, CountOfParts

\* The totals of the treasurer, one query each over all settlements, are those
\* of the settlements added up.
LEMMA TreasurerSame ==
  ASSUME Recorded, NEW u
  PROVE  TreasurerAgrees(TreasurerDashboard(u), SettlementsOf(TreasurerOrgs(u)))
<1> DEFINE all == SettlementsOf(TreasurerOrgs(u))
           page == TreasurerDashboard(u)
           E == {e \in Evidences : evidences[e] # NULL /\ evidences[e].settlement \in all}
           rows == {x \in results : x.settlement \in all}
           one == {x \in rows : x.status \in MatchedLike}
           rest == {x \in rows : x.status \notin MatchedLike}
           totals == [s \in all |-> ExpenseSummary(s).total]
           matched == [s \in all |-> Rollup(s).matched]
           unmatched == [s \in all |-> Rollup(s).unmatched]
<1>1. /\ page.total = Aggregate(E).total /\ page.matched = Cardinality(one)
      /\ page.unmatched = Cardinality(rows) - Cardinality(one)
  BY DEF TreasurerDashboard
<1>2. all \in SUBSET Stored /\ IsFiniteSet(all)
  <2>1. all \in SUBSET Stored
    BY DEF SettlementsOf
  <2> HIDE DEF all
  <2> QED
    BY <2>1, StoredFinite
<1> HIDE DEF page, all
<1>3. IsFiniteSet(rows) /\ IsFiniteSet(one) /\ IsFiniteSet(rest)
  BY FS_Subset DEF Recorded, OnRecord
<1>4. SumOf(totals, all) = Aggregate(E).total
  <2> DEFINE key == [e \in E |-> evidences[e].settlement]
  <2>1. E \in SUBSET Recognized /\ \A e \in E : key[e] \in all
    BY DEF Recognized
  <2>2. ASSUME NEW s \in all
        PROVE  totals[s] = SumOf(SignedOf, PartOf(E, key, s))
    <3>1. PartOf(E, key, s) = EvidencesOf(s)
      BY DEF PartOf, EvidencesOf
    <3>2. totals[s] = Aggregate(EvidencesOf(s)).total
      BY ExpenseTotals
    <3>3. Aggregate(EvidencesOf(s)).total = SumOf(SignedOf, EvidencesOf(s))
      BY GroupOf, AggregateIs
    <3> QED
      BY <3>1, <3>2, <3>3, Zenon
  <2>3. /\ Aggregate(E).total = SumOf(SignedOf, E) /\ IsFiniteSet(E)
        /\ \A e \in E : SignedOf[e] \in Int
    BY <2>1, AggregateIs, SignedInt
  <2>4. \A s \in all : totals[s] = SumOf(SignedOf, PartOf(E, key, s))
    BY <2>2
  <2> HIDE DEF E, key, totals
  <2>5. SumOf(totals, all) = SumOf(SignedOf, E)
    BY <1>2, <2>1, <2>3, <2>4, SumOfParts
  <2> QED
    BY <2>3, <2>5
<1>5. SumOf(matched, all) = Cardinality(one)
  <2>1. ASSUME NEW s \in all PROVE matched[s] = Cardinality({x \in one : x.settlement = s})
    <3>1. matched[s] = Cardinality({x \in results : x.settlement = s /\ x.status \in MatchedLike})
      BY RollupCounts
    <3>2. {x \in results : x.settlement = s /\ x.status \in MatchedLike}
            = {x \in one : x.settlement = s}
      OBVIOUS
    <3> QED
      BY <3>1, <3>2, Zenon
  <2>2. \A x \in one : x.settlement \in all
    OBVIOUS
  <2>3. \A s \in all : matched[s] = Cardinality({x \in one : x.settlement = s})
    BY <2>1
  <2> HIDE DEF one, matched
  <2> QED
    BY <1>2, <1>3, <2>2, <2>3, CountOverSettlements
<1>6. SumOf(unmatched, all) = Cardinality(rest)
  <2>1. ASSUME NEW s \in all PROVE unmatched[s] = Cardinality({x \in rest : x.settlement = s})
    <3>1. unmatched[s] = Cardinality({x \in results : x.settlement = s /\ x.status \notin MatchedLike})
      BY RollupCounts
    <3>2. {x \in results : x.settlement = s /\ x.status \notin MatchedLike}
            = {x \in rest : x.settlement = s}
      OBVIOUS
    <3> QED
      BY <3>1, <3>2, Zenon
  <2>2. \A x \in rest : x.settlement \in all
    OBVIOUS
  <2>3. \A s \in all : unmatched[s] = Cardinality({x \in rest : x.settlement = s})
    BY <2>1
  <2> HIDE DEF rest, unmatched
  <2> QED
    BY <1>2, <1>3, <2>2, <2>3, CountOverSettlements
<1>7. Cardinality(rest) = Cardinality(rows) - Cardinality(one)
  <2>1. rest = rows \ one /\ rows \cap one = one
    OBVIOUS
  <2> HIDE DEF rows, one, rest
  <2>2. Cardinality(rows \ one) = Cardinality(rows) - Cardinality(rows \cap one)
    BY <1>3, FS_Difference
  <2> QED
    BY <2>1, <2>2, Zenon
<1>8. /\ MapThenSumSet(LAMBDA s : ExpenseSummary(s).total, all) = SumOf(totals, all)
      /\ MapThenSumSet(LAMBDA s : Rollup(s).matched, all) = SumOf(matched, all)
      /\ MapThenSumSet(LAMBDA s : Rollup(s).unmatched, all) = SumOf(unmatched, all)
  BY <1>2, ExpenseSum, MatchedSum, UnmatchedSum
<1> HIDE DEF E, rows, one, rest, totals, matched, unmatched
<1>9. TreasurerAgrees(page, all)
  BY <1>1, <1>4, <1>5, <1>6, <1>7, <1>8 DEF TreasurerAgrees
<1> QED
  BY <1>9 DEF page, all

-----------------------------------------------------------------------------
(* The auditor's dashboard.                                                 *)

\* (submitted_at, NULLs last, created_at) puts no two settlements together.
LEMMA LatelyOrders ==
  ASSUME Recorded, NEW T \in SUBSET Stored
  PROVE  Orders({p \in T \X T : LatelySubmitted(p[1], p[2])}, T)
<1> DEFINE R == {p \in T \X T : LatelySubmitted(p[1], p[2])}
<1>1. \A s \in T : /\ s \in Settlements /\ settlements[s] # NULL
                   /\ settlements[s].submitted_at \in Nat \cup {NULL}
                   /\ settlements[s].created_at \in Nat
  BY StoredRow DEF SettlementRow, Time
<1>2. \A s, t \in T : s = t \/ settlements[s].created_at # settlements[t].created_at
  BY <1>1 DEF Recorded, OnRecord
<1>3. \A s, t \in T : <<s, t>> \in R <=> LatelySubmitted(s, t)
  OBVIOUS
<1>4. NULL \notin Nat
  BY RecordsAssumption
<1> HIDE DEF R
<1>5. Orders(R, T)
  <2>1. \A s, t \in T : s = t \/ LatelySubmitted(s, t) \/ LatelySubmitted(t, s)
    BY <1>1, <1>2, <1>4 DEF LatelySubmitted
  <2>2. \A s, t \in T : LatelySubmitted(s, t) => ~LatelySubmitted(t, s)
    BY <1>1, <1>4 DEF LatelySubmitted
  <2>3. \A s, t, w \in T : LatelySubmitted(s, t) /\ LatelySubmitted(t, w) => LatelySubmitted(s, w)
    BY <1>1, <1>4 DEF LatelySubmitted
  <2> QED
    BY <1>3, <2>1, <2>2, <2>3 DEF Orders
<1> QED
  BY <1>5 DEF R

\* As many of the latest as are asked for.
LEMMA LatelyCount ==
  ASSUME Recorded, NEW T \in SUBSET Stored, NEW n \in Nat
  PROVE  /\ FirstOnes(n, T, LatelySubmitted) \in SUBSET T
         /\ Cardinality(FirstOnes(n, T, LatelySubmitted))
              = IF Cardinality(T) <= n THEN Cardinality(T) ELSE n
<1> DEFINE R == {p \in T \X T : LatelySubmitted(p[1], p[2])}
           first == {x \in T : Cardinality(Ahead(x, T, R)) < n}
<1>1. Orders(R, T)
  BY LatelyOrders
<1>2. FirstOnes(n, T, LatelySubmitted)
        = {x \in T : Cardinality({y \in T \ {x} : LatelySubmitted(y, x)}) < n}
  BY DEF FirstOnes
<1>3. ASSUME NEW x \in T
      PROVE  Cardinality(Ahead(x, T, R)) = Cardinality({y \in T \ {x} : LatelySubmitted(y, x)})
  <2>1. Ahead(x, T, R) = {y \in T \ {x} : LatelySubmitted(y, x)}
    BY DEF Ahead
  <2> QED
    BY <2>1, Zenon
<1>4. FirstOnes(n, T, LatelySubmitted) = first
  BY <1>2, <1>3
<1>5. IsFiniteSet(T)
  BY StoredFinite
<1> HIDE DEF R
<1>6. Cardinality(first) = IF Cardinality(T) <= n THEN Cardinality(T) ELSE n
  BY <1>1, <1>5, FirstOnesCount
<1>7. first \in SUBSET T
  OBVIOUS
<1> QED
  BY <1>4, <1>6, <1>7, Zenon

\* A row of the worklist, and the settlements it has one of.
WorkRow(s) ==
  [settlement |-> s, org |-> settlements[s].org,
   evidence_count |-> Aggregate(EvidencesOf(s)).count,
   transaction_count |-> TransactionCount(s), comment_count |-> CommentCount(s),
   total |-> Aggregate(EvidencesOf(s)).total, counts |-> ResultCounts(s)]

Wanted(u, statuses) ==
  {s \in Stored : settlements[s].org \in AuditorOrgs(u) /\ settlements[s].status \in statuses}

LEMMA WorklistIs ==
  ASSUME NEW u
  PROVE  /\ Worklist(u, {}) = {WorkRow(s) : s \in Wanted(u, AuditorVisibleStatuses)}
         /\ Worklist(u, PendingStatuses) = {WorkRow(s) : s \in Wanted(u, PendingStatuses)}
<1>1. AuditorSeats(u) = {} => \A K : Wanted(u, K) = {}
  BY DEF Wanted, AuditorOrgs, AuditorColleges
<1>2. /\ WorklistOf(u, {}) = {WorkRow(s) : s \in Wanted(u, AuditorVisibleStatuses)}
      /\ WorklistOf(u, PendingStatuses) = {WorkRow(s) : s \in Wanted(u, PendingStatuses)}
  BY DEF WorklistOf, WorkRow, Wanted, PendingStatuses
<1> QED
  BY <1>1, <1>2 DEF Worklist

LEMMA WorkRows ==
  ASSUME NEW S \in SUBSET Stored
  PROVE  Cardinality({WorkRow(s) : s \in S}) = Cardinality(S)
<1> DEFINE to == [s \in S |-> WorkRow(s)]
<1>1. {WorkRow(s) : s \in S} = {to[s] : s \in S}
  OBVIOUS
<1>2. \A s \in S : to[s].settlement = s
  BY DEF WorkRow
<1> HIDE DEF to
<1>3. Cardinality({to[s] : s \in S}) = Cardinality(S)
  BY <1>2, StoredFinite, CountImage
<1> QED
  BY <1>1, <1>3, Zenon

\* The counts of the auditor's dashboard come from one query by status, the
\* worklists from another: both have the same settlements.
LEMMA AuditorSame ==
  ASSUME Recorded, NEW u
  PROVE  AuditorAgrees(AuditorDashboard(u), Worklist(u, {}), Worklist(u, PendingStatuses))
<1> DEFINE all == SettlementsOf(AuditorOrgs(u))
           page == AuditorDashboard(u)
           pending == {s \in all : settlements[s].status \in PendingStatuses}
           recent == FirstOnes(RecentLimit, pending, LatelySubmitted)
           reviewed == {s \in all : settlements[s].status \in {"under_audit"}}
           closed == {s \in all : settlements[s].status \in {"approved", "rejected"}}
           visible == Wanted(u, AuditorVisibleStatuses)
           counts == CountsByStatus(all)
<1>1. /\ page.pending_count = CountOf(counts, PendingStatuses)
      /\ page.in_progress_count = CountOf(counts, {"under_audit"})
      /\ page.completed_count = CountOf(counts, {"approved", "rejected"})
      /\ page.pending = {Rollup(s) : s \in recent}
  BY DEF AuditorDashboard
<1>2. all \in SUBSET Stored
  BY DEF SettlementsOf
<1>3. /\ pending = Wanted(u, PendingStatuses)
      /\ visible = (pending \cup reviewed) \cup closed
      /\ pending \cap reviewed = {} /\ (pending \cup reviewed) \cap closed = {}
  BY DEF Wanted, SettlementsOf, PendingStatuses, AuditorVisibleStatuses
<1> HIDE DEF all, page, visible
<1>4. /\ page.pending_count = Cardinality(pending) /\ IsFiniteSet(pending)
      /\ page.in_progress_count = Cardinality(reviewed) /\ IsFiniteSet(reviewed)
      /\ page.completed_count = Cardinality(closed) /\ IsFiniteSet(closed)
  <2>1. /\ PendingStatuses \in SUBSET SettlementStatus
        /\ {"under_audit"} \in SUBSET SettlementStatus
        /\ {"approved", "rejected"} \in SUBSET SettlementStatus
    BY DEF PendingStatuses, SettlementStatus
  <2>2. /\ CountOf(counts, PendingStatuses) = Cardinality(pending) /\ IsFiniteSet(pending)
        /\ CountOf(counts, {"under_audit"}) = Cardinality(reviewed) /\ IsFiniteSet(reviewed)
        /\ CountOf(counts, {"approved", "rejected"}) = Cardinality(closed) /\ IsFiniteSet(closed)
    BY <1>2, <2>1, StatusCounted
  <2> QED
    BY <1>1, <2>2
<1>5. pending \in SUBSET Stored /\ visible \in SUBSET Stored
  BY <1>2, <1>3
<1> HIDE DEF pending, reviewed, closed, counts, recent
<1>6. Cardinality(visible) = Cardinality(pending) + Cardinality(reviewed) + Cardinality(closed)
  <2>1. Cardinality(pending \cap reviewed) = 0 /\ Cardinality((pending \cup reviewed) \cap closed) = 0
    BY <1>3, FS_EmptySet, Zenon
  <2>2. /\ IsFiniteSet(pending \cup reviewed)
        /\ Cardinality(pending \cup reviewed) = Cardinality(pending) + Cardinality(reviewed) - 0
    BY <1>4, <2>1, FS_Union
  <2>3. Cardinality((pending \cup reviewed) \cup closed)
          = Cardinality(pending \cup reviewed) + Cardinality(closed) - 0
    BY <1>4, <2>1, <2>2, FS_Union
  <2>4. Cardinality(visible) = Cardinality((pending \cup reviewed) \cup closed)
    BY <1>3, Zenon
  <2>5. /\ Cardinality(pending) \in Nat /\ Cardinality(reviewed) \in Nat
        /\ Cardinality(closed) \in Nat
    BY <1>4, FS_CardinalityType
  <2> QED
    BY <2>2, <2>3, <2>4, <2>5
<1>7. Worklist(u, {}) = {WorkRow(s) : s \in visible}
      /\ Worklist(u, PendingStatuses) = {WorkRow(s) : s \in pending}
  BY <1>3, WorklistIs, Zenon DEF visible
<1>8. /\ Cardinality(Worklist(u, {})) = Cardinality(visible)
      /\ Cardinality(Worklist(u, PendingStatuses)) = Cardinality(pending)
  <2>1. /\ Cardinality({WorkRow(s) : s \in visible}) = Cardinality(visible)
        /\ Cardinality({WorkRow(s) : s \in pending}) = Cardinality(pending)
    BY <1>5, WorkRows
  <2> QED
    BY <1>7, <2>1, Zenon
<1>9. /\ recent \in SUBSET pending
      /\ Cardinality(recent) =
           IF Cardinality(pending) <= RecentLimit THEN Cardinality(pending) ELSE RecentLimit
  <2>1. RecentLimit \in Nat
    BY DocumentsAssumption
  <2> QED
    BY <1>5, <2>1, LatelyCount DEF recent
<1>10. Cardinality(page.pending) = Cardinality(recent)
  <2> DEFINE to == [s \in recent |-> Rollup(s)]
  <2>1. {Rollup(s) : s \in recent} = {to[s] : s \in recent}
    OBVIOUS
  <2>2. \A s \in recent : to[s].settlement = s
    BY DEF Rollup
  <2>3. IsFiniteSet(recent)
    BY <1>4, <1>9, FS_Subset
  <2> HIDE DEF to
  <2>4. Cardinality({to[s] : s \in recent}) = Cardinality(recent)
    BY <2>2, <2>3, CountImage
  <2> QED
    BY <1>1, <2>1, <2>4, Zenon
<1>11. ASSUME NEW x \in page.pending
       PROVE  \E y \in Worklist(u, PendingStatuses) : \A f \in DOMAIN y : y[f] = x[f]
  <2>1. PICK s \in recent : x = Rollup(s)
    BY <1>1
  <2>2. WorkRow(s) \in Worklist(u, PendingStatuses)
    BY <1>7, <1>9
  <2>3. \A f \in DOMAIN WorkRow(s) : WorkRow(s)[f] = Rollup(s)[f]
    BY DEF WorkRow, Rollup
  <2> QED
    BY <2>1, <2>2, <2>3
<1>12. Min({Cardinality(pending), RecentLimit}) = Cardinality(recent)
  <2>1. Cardinality(pending) \in Nat /\ RecentLimit \in Nat
    BY <1>4, FS_CardinalityType, DocumentsAssumption
  <2> QED
    BY <1>9, <2>1 DEF Min
<1>13. AuditorAgrees(page, Worklist(u, {}), Worklist(u, PendingStatuses))
  <2>1. Min({Cardinality(Worklist(u, PendingStatuses)), RecentLimit}) = Cardinality(recent)
    BY <1>8, <1>12, Zenon
  <2>2. page.pending_count + page.in_progress_count + page.completed_count
          = Cardinality(Worklist(u, {}))
    BY <1>4, <1>6, <1>8
  <2> QED
    BY <1>4, <1>8, <1>10, <1>11, <2>1, <2>2 DEF AuditorAgrees
<1> QED
  BY <1>13 DEF page

\* The auditor of a college has a seat to act under.
LEMMA AuditorSeatIs ==
  ASSUME NEW u, NEW s, settlements[s].org \in Orgs
  PROVE  (AuditorSeatFor(u, s) # NULL) = (settlements[s].org \in AuditorOrgs(u))
<1> DEFINE college == organization[settlements[s].org].college
           S == {m \in AuditorSeats(u) : organization[m.org].college = college}
           R == {p \in S \X S : p[1].created_at < p[2].created_at}
<1>1. AuditorSeatFor(u, s) = IF college \notin AuditorColleges(u) THEN NULL
        ELSE IF S = {} THEN NULL
        ELSE CHOOSE m \in S : \A n \in S \ {m} : m.created_at < n.created_at
  BY DEF AuditorSeatFor, FirstOf
<1>2. (settlements[s].org \in AuditorOrgs(u)) = (college \in AuditorColleges(u))
  BY DEF AuditorOrgs
<1>3. college \in AuditorColleges(u) => S # {}
  BY DEF AuditorColleges
<1>4. \A m \in S : m \in seats /\ m # NULL /\ m.user = u /\ m.created_at \in Nat
  BY RecordsAssumption DEF AuditorSeats, SeatsOf
<1>5. \A m, n \in S : m = n \/ m.created_at # n.created_at
  BY <1>4, RecordsAssumption
<1>6. \A m, n \in S : <<m, n>> \in R <=> m.created_at < n.created_at
  OBVIOUS
<1>7. IsFiniteSet(S)
  BY RecordsAssumption, FS_Subset DEF AuditorSeats, SeatsOf
<1> HIDE DEF S, R, college
<1>8. Orders(R, S)
  BY <1>4, <1>5, <1>6 DEF Orders
<1>9. S # {} => \E m \in S : \A n \in S \ {m} : m.created_at < n.created_at
  BY <1>6, <1>7, <1>8, FirstExists
<1> QED
  BY <1>1, <1>2, <1>3, <1>4, <1>9

\* An auditor may open what is on his worklist, and nothing else that can be.
ListedForReview(u, s) ==
  (\E x \in Worklist(u, {}) : x.settlement = s)
    = (Review(u, s).code = 200 /\ settlements[s].status \in AuditorVisibleStatuses)

LEMMA ReviewSame ==
  ASSUME Recorded, NEW u, NEW s \in Stored
  PROVE  ListedForReview(u, s)
<1>1. settlements[s] # NULL /\ settlements[s].org \in Orgs
  BY StoredRow DEF SettlementRow
<1>2. (Review(u, s).code = 200) = (settlements[s].org \in AuditorOrgs(u))
  BY <1>1, AuditorSeatIs DEF Review, Found, Refused
<1>3. (\E x \in Worklist(u, {}) : x.settlement = s) <=> (s \in Wanted(u, AuditorVisibleStatuses))
  <2>1. \A t : WorkRow(t).settlement = t
    BY DEF WorkRow
  <2>2. Worklist(u, {}) = {WorkRow(t) : t \in Wanted(u, AuditorVisibleStatuses)}
    BY WorklistIs
  <2> QED
    BY <2>1, <2>2
<1> QED
  BY <1>2, <1>3 DEF Wanted, ListedForReview

LEMMA OfficialSame ==
  ASSUME Recorded, NEW u
  PROVE  OfficialAgrees(u)
<1>1. TreasurerAgrees(TreasurerDashboard(u), SettlementsOf(TreasurerOrgs(u)))
  BY TreasurerSame
<1>2. AuditorAgrees(AuditorDashboard(u), Worklist(u, {}), Worklist(u, PendingStatuses))
  BY AuditorSame
<1>3. \A s \in Stored : ListedForReview(u, s)
  BY ReviewSame
<1> QED
  BY <1>1, <1>2, <1>3, Zenon DEF OfficialAgrees, ListedForReview

-----------------------------------------------------------------------------
(* The president's page.                                                    *)

\* The two orders of the semesters are one, and put no two of them together.
LEMMA SemesterRank ==
  ASSUME NEW a \in ToSet(Semesters)
  PROVE  /\ SemesterOrder(a) \in 1 .. 4 /\ Semesters[SemesterOrder(a)] = a
         /\ TextOrder(a) = SemesterOrder(a)
<1>1. \E i \in DOMAIN Semesters : Semesters[i] = a
  BY SemesterNames
<1>2. Texts = Semesters
  BY DEF Texts, Semesters
<1>3. SemesterOrder(a) \in DOMAIN Semesters /\ Semesters[SemesterOrder(a)] = a
  BY <1>1 DEF SemesterOrder
<1>4. TextOrder(a) = SemesterOrder(a)
  BY <1>2, Zenon DEF TextOrder, SemesterOrder
<1> QED
  BY <1>3, <1>4, SemesterNames

\* The period of a settlement as a year and a rank.
LEMMA PeriodRow ==
  ASSUME Recorded, NEW s \in Stored
  PROVE  LET p == PeriodOf(s)
         IN  /\ p = [year |-> p.year, semester |-> p.semester] /\ p.year \in Int
             /\ SemesterOrder(p.semester) \in Int
             /\ Semesters[SemesterOrder(p.semester)] = p.semester
             /\ TextOrder(p.semester) = SemesterOrder(p.semester)
<1>1. settlements[s].academic_year \in Int /\ settlements[s].semester \in ToSet(Semesters)
  BY StoredRow DEF SettlementRow
<1>2. /\ SemesterOrder(settlements[s].semester) \in 1 .. 4
      /\ Semesters[SemesterOrder(settlements[s].semester)] = settlements[s].semester
      /\ TextOrder(settlements[s].semester) = SemesterOrder(settlements[s].semester)
  BY <1>1, SemesterRank
<1> QED
  BY <1>1, <1>2 DEF PeriodOf

\* s is of a later period than t, or of the same one and before it in Tie.
ByPeriod(s, t, Tie) ==
  \/ LaterPeriod(PeriodOf(s), PeriodOf(t))
  \/ PeriodOf(s) = PeriodOf(t) /\ <<s, t>> \in Tie

\* An order of the settlements of a period orders all of them by period.
LEMMA PeriodOrders ==
  ASSUME Recorded, NEW T \in SUBSET Stored, NEW Tie, Orders(Tie, T)
  PROVE  Orders({p \in T \X T : ByPeriod(p[1], p[2], Tie)}, T)
<1> DEFINE R == {p \in T \X T : ByPeriod(p[1], p[2], Tie)}
           year == [s \in T |-> PeriodOf(s).year]
           rank == [s \in T |-> SemesterOrder(PeriodOf(s).semester)]
<1>1. \A s \in T : year[s] \in Int /\ rank[s] \in Int
  BY PeriodRow
<1>2. \A s, t \in T : PeriodOf(s) = PeriodOf(t) <=> year[s] = year[t] /\ rank[s] = rank[t]
  <2>1. ASSUME NEW s \in T, NEW t \in T, year[s] = year[t], rank[s] = rank[t]
        PROVE  PeriodOf(s) = PeriodOf(t)
    <3>1. PeriodOf(s).year = PeriodOf(t).year /\ PeriodOf(s).semester = PeriodOf(t).semester
      BY <2>1, PeriodRow
    <3> QED
      BY <3>1 DEF PeriodOf
  <2> QED
    BY <2>1
<1>3. \A s, t \in T : <<s, t>> \in R <=>
        \/ year[s] > year[t]
        \/ year[s] = year[t] /\ rank[s] > rank[t]
        \/ year[s] = year[t] /\ rank[s] = rank[t] /\ <<s, t>> \in Tie
  BY <1>2 DEF ByPeriod, LaterPeriod
<1> HIDE DEF R, year, rank
<1>4. ASSUME NEW s \in T, NEW t \in T
      PROVE  s = t \/ <<s, t>> \in R \/ <<t, s>> \in R
  <2>1. s = t \/ <<s, t>> \in Tie \/ <<t, s>> \in Tie
    BY DEF Orders
  <2>2. year[s] \in Int /\ rank[s] \in Int /\ year[t] \in Int /\ rank[t] \in Int
    BY <1>1
  <2>3. year[s] > year[t] \/ year[t] > year[s] \/ year[s] = year[t]
    BY <2>2
  <2>4. rank[s] > rank[t] \/ rank[t] > rank[s] \/ rank[s] = rank[t]
    BY <2>2
  <2> QED
    BY <1>3, <2>1, <2>3, <2>4
<1>5. \A s, t \in T : <<s, t>> \in R => <<t, s>> \notin R
  BY <1>1, <1>3 DEF Orders
<1>6. \A s, t, v \in T : <<s, t>> \in R /\ <<t, v>> \in R => <<s, v>> \in R
  BY <1>1, <1>3 DEF Orders
<1>7. Orders(R, T)
  BY <1>4, <1>5, <1>6 DEF Orders
<1> QED
  BY <1>7 DEF R

\* What an order of settlements by their periods takes first is of the last
\* period, however it breaks the ties.
LEMMA LastPeriod ==
  ASSUME Recorded, NEW T \in SUBSET Stored, NEW s \in T, NEW t \in T, NEW A, NEW B,
         \A v \in T \ {s} : ByPeriod(s, v, A), \A v \in T \ {t} : ByPeriod(t, v, B)
  PROVE  PeriodOf(s) = PeriodOf(t)
<1>1. /\ PeriodOf(s).year \in Int /\ SemesterOrder(PeriodOf(s).semester) \in Int
      /\ PeriodOf(t).year \in Int /\ SemesterOrder(PeriodOf(t).semester) \in Int
  BY PeriodRow
<1>2. CASE s = t
  BY <1>2
<1>3. CASE s # t
  <2>1. ByPeriod(s, t, A) /\ ByPeriod(t, s, B)
    BY <1>3
  <2> QED
    BY <1>1, <2>1 DEF ByPeriod, LaterPeriod
<1> QED
  BY <1>2, <1>3

\* The students' current period and the president's are of one settlement each.
LEMMA CurrentIs ==
  ASSUME Recorded, NEW o
  PROVE  LET T == OrgSettlements(o)
             s == CurrentSettlement(o)
             t == PresidentPeriod(o)
         IN  IF T = {} THEN s = NULL /\ t = NULL
             ELSE s \in T /\ t \in T /\ PeriodOf(s) = PeriodOf(t)
<1> DEFINE T == OrgSettlements(o)
           A == {p \in T \X T : settlements[p[1]].created_at > settlements[p[2]].created_at}
           B == {p \in T \X T : LatelySubmitted(p[1], p[2])}
<1>1. T \in SUBSET Stored
  BY DEF OrgSettlements
<1>2. IsFiniteSet(T)
  BY <1>1, StoredFinite
<1>3. Orders(A, T)
  <2>1. \A s \in T : settlements[s].created_at \in Nat
    BY <1>1, StoredRow DEF SettlementRow
  <2>2. \A s, t \in T : s = t \/ settlements[s].created_at # settlements[t].created_at
    BY <1>1 DEF Recorded, OnRecord, Stored
  <2>3. \A s, t \in T :
          <<s, t>> \in A <=> settlements[s].created_at > settlements[t].created_at
    OBVIOUS
  <2> HIDE DEF T, A
  <2> QED
    BY <2>1, <2>2, <2>3 DEF Orders
<1>4. Orders(B, T)
  BY <1>1, LatelyOrders
<1>5. CurrentSettlement(o) = IF T = {} THEN NULL
        ELSE CHOOSE s \in T : \A t \in T \ {s} :
               \/ LaterPeriod(PeriodOf(s), PeriodOf(t))
               \/ /\ PeriodOf(s) = PeriodOf(t)
                  /\ settlements[s].created_at > settlements[t].created_at
  BY DEF CurrentSettlement, FirstOf
<1>6. PresidentPeriod(o) = IF T = {} THEN NULL
        ELSE CHOOSE s \in T : \A t \in T \ {s} :
               \/ PeriodOf(s).year > PeriodOf(t).year
               \/ /\ PeriodOf(s).year = PeriodOf(t).year
                  /\ TextOrder(PeriodOf(s).semester) > TextOrder(PeriodOf(t).semester)
               \/ PeriodOf(s) = PeriodOf(t) /\ LatelySubmitted(s, t)
  BY DEF PresidentPeriod, FirstOf
<1>7. \A s, t \in T : ByPeriod(s, t, A) <=>
        \/ LaterPeriod(PeriodOf(s), PeriodOf(t))
        \/ /\ PeriodOf(s) = PeriodOf(t)
           /\ settlements[s].created_at > settlements[t].created_at
  BY DEF ByPeriod
<1>8. \A s, t \in T : ByPeriod(s, t, B) <=>
        \/ PeriodOf(s).year > PeriodOf(t).year
        \/ /\ PeriodOf(s).year = PeriodOf(t).year
           /\ TextOrder(PeriodOf(s).semester) > TextOrder(PeriodOf(t).semester)
        \/ PeriodOf(s) = PeriodOf(t) /\ LatelySubmitted(s, t)
  <2>1. \A s, t \in T : <<s, t>> \in B <=> LatelySubmitted(s, t)
    OBVIOUS
  <2>2. \A s \in T : TextOrder(PeriodOf(s).semester) = SemesterOrder(PeriodOf(s).semester)
    BY <1>1, PeriodRow
  <2> HIDE DEF T, B
  <2> QED
    BY <2>1, <2>2 DEF ByPeriod, LaterPeriod
<1> HIDE DEF T, A, B
<1>9. ASSUME T # {}, NEW Tie, Orders(Tie, T)
      PROVE  \E s \in T : \A t \in T \ {s} : ByPeriod(s, t, Tie)
  <2> DEFINE R == {p \in T \X T : ByPeriod(p[1], p[2], Tie)}
  <2>1. Orders(R, T)
    BY <1>1, <1>9, PeriodOrders
  <2>2. \A s, t \in T : <<s, t>> \in R <=> ByPeriod(s, t, Tie)
    OBVIOUS
  <2> HIDE DEF R
  <2>3. \E s \in T : \A t \in T \ {s} : <<s, t>> \in R
    BY <1>2, <1>9, <2>1, FirstExists
  <2> QED
    BY <2>2, <2>3
<1>10. ASSUME T # {}
       PROVE  /\ CurrentSettlement(o) \in T
              /\ \A v \in T \ {CurrentSettlement(o)} : ByPeriod(CurrentSettlement(o), v, A)
  <2>1. \E s \in T : \A t \in T \ {s} : ByPeriod(s, t, A)
    BY <1>3, <1>9, <1>10
  <2> QED
    BY <1>5, <1>7, <1>10, <2>1
<1>11. ASSUME T # {}
       PROVE  /\ PresidentPeriod(o) \in T
              /\ \A v \in T \ {PresidentPeriod(o)} : ByPeriod(PresidentPeriod(o), v, B)
  <2>1. \E s \in T : \A t \in T \ {s} : ByPeriod(s, t, B)
    BY <1>4, <1>9, <1>11
  <2> QED
    BY <1>6, <1>8, <1>11, <2>1
<1>12. T # {} => PeriodOf(CurrentSettlement(o)) = PeriodOf(PresidentPeriod(o))
  BY <1>1, <1>10, <1>11, LastPeriod
<1> QED
  BY <1>5, <1>6, <1>10, <1>11, <1>12 DEF T

\* What an auditor reviewed was submitted.
LEMMA ReviewedCount ==
  ASSUME Recorded, NEW o, NEW u, NEW K \in SUBSET SettlementStatus
  PROVE  LET S == {s \in {c.settlement : c \in Reviewed(o, u)} : settlements[s].status \in K}
             n == CountOf(CountsByStatus(OrgSettlements(o)), K)
         IN  Cardinality(S) \in Nat /\ n \in Nat /\ Cardinality(S) <= n
<1> DEFINE S == {s \in {c.settlement : c \in Reviewed(o, u)} : settlements[s].status \in K}
           T == {s \in OrgSettlements(o) : settlements[s].status \in K}
<1>1. S \in SUBSET T
  BY DEF Reviewed, OrgSettlements, Stored, Recorded, OnRecord
<1>2. OrgSettlements(o) \in SUBSET Stored
  BY DEF OrgSettlements
<1>3. CountOf(CountsByStatus(OrgSettlements(o)), K) = Cardinality(T) /\ IsFiniteSet(T)
  BY <1>2, StatusCounted
<1> HIDE DEF S, T
<1>4. IsFiniteSet(S) /\ Cardinality(S) <= Cardinality(T)
  BY <1>1, <1>3, FS_Subset
<1>5. Cardinality(S) \in Nat /\ Cardinality(T) \in Nat
  BY <1>3, <1>4, FS_CardinalityType
<1> QED
  BY <1>3, <1>4, <1>5 DEF S

\* The president's counts, current period and auditors' work tally.
LEMMA PresidentPage ==
  ASSUME Recorded, NEW o \in Orgs
  PROVE  PresidentAgrees(PresidentDashboardOf(o), CurrentPeriod(o))
<1> DEFINE page == PresidentDashboardOf(o)
           all == OrgSettlements(o)
           counts == CountsByStatus(all)
           done == {s \in all : settlements[s].status \in AuditCompletedStatuses}
           open == {s \in all : settlements[s].status \in ReviewPendingStatuses}
           sent == {s \in all : settlements[s].status \in SubmittedStatuses}
<1>1. /\ page.current = PresidentPeriod(o)
      /\ page.submitted_count = CountOf(counts, SubmittedStatuses)
      /\ page.audit_completed_count = CountOf(counts, AuditCompletedStatuses)
      /\ page.review_pending_count = CountOf(counts, ReviewPendingStatuses)
      /\ page.auditor_activity = AuditorActivity(o)
  BY DEF PresidentDashboardOf
<1>2. /\ AuditCompletedStatuses \in SUBSET SettlementStatus
      /\ ReviewPendingStatuses \in SUBSET SettlementStatus
      /\ SubmittedStatuses \in SUBSET SettlementStatus
  BY DEF AuditCompletedStatuses, ReviewPendingStatuses, SubmittedStatuses, SettlementStatus
<1>3. all \in SUBSET Stored
  BY DEF OrgSettlements
<1>4. /\ CountOf(counts, SubmittedStatuses) = Cardinality(sent)
      /\ CountOf(counts, AuditCompletedStatuses) = Cardinality(done) /\ IsFiniteSet(done)
      /\ CountOf(counts, ReviewPendingStatuses) = Cardinality(open) /\ IsFiniteSet(open)
  BY <1>2, <1>3, StatusCounted
<1>5. sent = done \cup open /\ done \cap open = {}
  BY DEF AuditCompletedStatuses, ReviewPendingStatuses, SubmittedStatuses
<1>6. ASSUME NEW c \in AuditorActivity(o)
      PROVE  c.assigned <= page.audit_completed_count + page.review_pending_count
  <2> DEFINE Of(u, statuses) ==
        Cardinality({s \in {x.settlement : x \in Reviewed(o, u)} :
                       settlements[s].status \in statuses})
             Row(m) ==
        [user |-> m.user,
         completed |-> Of(m.user, AuditCompletedStatuses),
         pending |-> Of(m.user, ReviewPendingStatuses),
         assigned |-> Of(m.user, AuditCompletedStatuses) + Of(m.user, ReviewPendingStatuses),
         last_activity |-> IF Reviewed(o, m.user) = {} THEN m.created_at
                           ELSE Max({x.created_at : x \in Reviewed(o, m.user)})]
  <2>1. PICK m \in seats :
          c.assigned = Of(m.user, AuditCompletedStatuses) + Of(m.user, ReviewPendingStatuses)
    <3>1. AuditorActivity(o) = {Row(m) : m \in {n \in seats : n.org = o /\ n.role = "auditor"}}
      BY DEF AuditorActivity
    <3>2. \A m : Row(m).assigned
                   = Of(m.user, AuditCompletedStatuses) + Of(m.user, ReviewPendingStatuses)
      OBVIOUS
    <3> HIDE DEF Row, Of
    <3> QED
      BY <3>1, <3>2
  <2>2. /\ Of(m.user, AuditCompletedStatuses) \in Nat
        /\ CountOf(counts, AuditCompletedStatuses) \in Nat
        /\ Of(m.user, AuditCompletedStatuses) <= CountOf(counts, AuditCompletedStatuses)
    BY <1>2, ReviewedCount
  <2>3. /\ Of(m.user, ReviewPendingStatuses) \in Nat
        /\ CountOf(counts, ReviewPendingStatuses) \in Nat
        /\ Of(m.user, ReviewPendingStatuses) <= CountOf(counts, ReviewPendingStatuses)
    BY <1>2, ReviewedCount
  <2> HIDE DEF Of, Row, counts, page
  <2> QED
    BY <1>1, <2>1, <2>2, <2>3
<1> HIDE DEF page, all, counts, done, open, sent
<1>7. page.submitted_count = page.audit_completed_count + page.review_pending_count
  <2>1. Cardinality(done \cap open) = 0
    BY <1>5, FS_EmptySet, Zenon
  <2>2. Cardinality(done \cup open) = Cardinality(done) + Cardinality(open) - 0
    BY <1>4, <2>1, FS_Union
  <2>3. Cardinality(done) \in Nat /\ Cardinality(open) \in Nat
    BY <1>4, FS_CardinalityType
  <2>4. Cardinality(sent) = Cardinality(done \cup open)
    BY <1>5, Zenon
  <2> QED
    BY <1>1, <1>4, <2>2, <2>3, <2>4
<1>8. /\ CurrentPeriod(o).settlement = CurrentSettlement(o)
      /\ CurrentSettlement(o) # NULL => CurrentPeriod(o).period = PeriodOf(CurrentSettlement(o))
  BY DEF CurrentPeriod
<1>9. /\ page.current # NULL => PeriodOf(page.current) = CurrentPeriod(o).period
      /\ (page.current = NULL) <=> (CurrentPeriod(o).settlement = NULL)
  <2>1. NULL \notin OrgSettlements(o)
    BY RecordsAssumption DEF OrgSettlements, Stored
  <2> QED
    BY <1>1, <1>8, <2>1, CurrentIs
<1>10. PresidentAgrees(page, CurrentPeriod(o))
  BY <1>1, <1>6, <1>7, <1>9 DEF PresidentAgrees
<1> QED
  BY <1>10 DEF page

LEMMA PresidentSame ==
  ASSUME Recorded, NEW u, PresidentDashboard(u, NULL).code = 200
  PROVE  PresidentAgrees(PresidentDashboard(u, NULL).body,
                         CurrentPeriod(PresidentDashboard(u, NULL).body.org))
<1>1. AdminOrg(u, NULL).code = 200
  BY DEF PresidentDashboard
<1>2. PresidentSeats(u) # {} /\ AdminOrg(u, NULL).body = FirstOf(PresidentSeats(u), MainSeat).org
  BY <1>1 DEF AdminOrg, Found, Refused
<1>3. FirstOf(PresidentSeats(u), MainSeat) \in PresidentSeats(u)
  <2>1. PresidentSeats(u) \in SUBSET SeatsOf(u)
    BY DEF PresidentSeats
  <2> QED
    BY <1>2, <2>1, MainSeatIs
<1> DEFINE o == AdminOrg(u, NULL).body
<1>4. o \in Orgs
  BY <1>2, <1>3, RecordsAssumption DEF PresidentSeats, SeatsOf
<1>5. PresidentDashboard(u, NULL).body = PresidentDashboardOf(o)
  BY <1>1 DEF PresidentDashboard, Found
<1>6. PresidentDashboardOf(o).org = o
  BY DEF PresidentDashboardOf
<1> HIDE DEF o
<1>7. PresidentAgrees(PresidentDashboardOf(o), CurrentPeriod(o))
  BY <1>4, PresidentPage
<1> QED
  BY <1>5, <1>6, <1>7, Zenon

-----------------------------------------------------------------------------
(* All of them.                                                             *)

\* What a student is shown agrees, page by page.
LEMMA StudentSame ==
  ASSUME Recorded, NEW u
  PROVE  StudentAgrees(u, PublicList(u))
<1>1. ASSUME NEW s \in Settlements
      PROVE  PagesAgree(u, s, {x \in PublicList(u) : x.settlement = s},
                        PublicDetail(u, s), PublicItems(u, s))
  BY PagesSame
<1>2. ASSUME NEW p \in {PeriodOf(s) : s \in Stored}
      PROVE  LET listed == {x \in PublicList(u) : PeriodOf(x.settlement) = p}
             IN  /\ {o.settlement_count : o \in {q \in PublicPeriods(u) : q.period = p}}
                      = (IF listed = {} THEN {} ELSE {Cardinality(listed)})
                 /\ \A pick \in Picks(u, p) : CardsAgree(PeriodCards(u, p, pick).body, p, listed)
  <2> DEFINE listed == {x \in PublicList(u) : PeriodOf(x.settlement) = p}
  <2>1. CountsIn(u, p) = (IF ListedIn(u, p) = {} THEN {} ELSE {Cardinality(ListedIn(u, p))})
    BY PeriodsSame
  <2>2. ASSUME NEW pick \in Picks(u, p)
        PROVE  CardsAgree(PeriodCards(u, p, pick).body, p, listed)
    BY CardsSame
  <2> QED
    BY <2>1, <2>2, Zenon DEF CountsIn, ListedIn
<1>3. ASSUME NEW asked, DashboardOrg(u, asked).code = 200,
             NEW pick \in Picks(u, CurrentPeriod(DashboardOrg(u, asked).body).period)
      PROVE  DashboardAgrees(StudentDashboard(u, asked, pick).body,
                             CurrentPeriod(DashboardOrg(u, asked).body), PublicList(u))
  <2> DEFINE o == DashboardOrg(u, asked).body
  <2>1. StudentDashboard(u, asked, pick).body = DashboardOf(u, o, pick)
    BY <1>3 DEF StudentDashboard, Found
  <2>2. o \in CardOrgs(u) \cup {"own"}
    BY <1>3, DashboardOrgIs
  <2> HIDE DEF o
  <2>3. DashboardAgrees(DashboardOf(u, o, pick), CurrentPeriod(o), PublicList(u))
    BY <2>2, DashboardSame DEF o
  <2> QED
    BY <2>1, <2>3, Zenon DEF o
<1>4. ASSUME NEW asked \in {NULL} \cup ({m.org : m \in SeatsOf(u)} \ {PrimaryOrg(u)}),
             NEW org \in {DashboardOrg(u, asked)}, org.code = 200,
             NEW current \in {CurrentPeriod(org.body)}, NEW pick \in Picks(u, current.period)
      PROVE  DashboardAgrees(StudentDashboard(u, asked, pick).body, current, PublicList(u))
  <2>1. org = DashboardOrg(u, asked)
    OBVIOUS
  <2>2. current = CurrentPeriod(org.body)
    OBVIOUS
  <2>3. pick \in Picks(u, CurrentPeriod(DashboardOrg(u, asked).body).period)
    BY <2>1, <2>2, Zenon
  <2>4. DashboardOrg(u, asked).code = 200
    BY <1>4, <2>1
  <2> QED
    BY <1>3, <2>1, <2>2, <2>3, <2>4, Zenon
<1> QED
  BY <1>1, <1>2, <1>4, Zenon DEF StudentAgrees

\* Whatever is on record, each reader is told the same about a settlement by
\* the public pages, the cards and the dashboards, though each has its own
\* queries: the agreement is a fact about well-formed tables, not about their
\* history.
THEOREM ReadersSame ==
  ASSUME Recorded
  PROVE  ReadersAgree
<1>1. ASSUME NEW u \in Users, NEW page \in {PresidentDashboard(u, NULL)}, page.code = 200
      PROVE  PresidentAgrees(page.body, CurrentPeriod(page.body.org))
  <2>1. page = PresidentDashboard(u, NULL)
    OBVIOUS
  <2>2. PresidentAgrees(PresidentDashboard(u, NULL).body,
                        CurrentPeriod(PresidentDashboard(u, NULL).body.org))
    BY <1>1, <2>1, PresidentSame
  <2> QED
    BY <2>1, <2>2, Zenon
<1>2. ASSUME NEW u \in Users
      PROVE  StudentAgrees(u, PublicList(u)) /\ OfficialAgrees(u)
  BY StudentSame, OfficialSame
<1>3. ASSUME NEW s \in Stored
      PROVE  FiguresAgree(s, ExpenseSummary(s), Rollup(s), StudentAggregate(s))
  BY FiguresSame
<1> QED
  BY <1>1, <1>2, <1>3, Zenon DEF ReadersAgree

-----------------------------------------------------------------------------
(* Lists.                                                                   *)

\* p lists S by R.
Lists(p, n, S, R) ==
  /\ n \in Nat /\ p \in [1 .. n -> S]
  /\ \A x \in S : \E i \in 1 .. n : p[i] = x
  /\ \A i, j \in 1 .. n : i < j => <<p[i], p[j]>> \in R

\* A finite set that is ordered can be listed.
LEMMA ListExists ==
  ASSUME NEW S, IsFiniteSet(S), NEW R, Orders(R, S)
  PROVE  \E n, p : Lists(p, n, S, R)
<1> DEFINE Good == {T \in SUBSET S : \E n, p : Lists(p, n, T, R)}
<1>1. ASSUME NEW T \in SUBSET S, \A U \in SUBSET T : U # T => U \in Good
      PROVE  T \in Good
  <2>1. CASE T = {}
    <3>1. Lists([i \in 1 .. 0 |-> i], 0, {}, R)
      BY DEF Lists
    <3> QED
      BY <2>1, <3>1
  <2>2. CASE T # {}
    <3>1. IsFiniteSet(T) /\ Orders(R, T)
      BY FS_Subset DEF Orders
    <3>2. PICK z \in T : \A y \in T \ {z} : <<y, z>> \in R
      BY <2>2, <3>1, LastExists
    <3> DEFINE U == T \ {z}
    <3>3. U \in Good
      BY <1>1
    <3>4. PICK n, p : Lists(p, n, U, R)
      BY <3>3
    <3> DEFINE q == [i \in 1 .. n + 1 |-> IF i = n + 1 THEN z ELSE p[i]]
    <3>5. Lists(q, n + 1, T, R)
      <4>1. n \in Nat /\ p \in [1 .. n -> U]
        BY <3>4 DEF Lists
      <4>2. q \in [1 .. n + 1 -> T]
        BY <4>1
      <4>3. ASSUME NEW x \in T PROVE \E i \in 1 .. n + 1 : q[i] = x
        <5>1. CASE x = z
          BY <4>1, <5>1
        <5>2. CASE x # z
          <6>1. PICK i \in 1 .. n : p[i] = x
            BY <3>4, <5>2 DEF Lists
          <6> QED
            BY <4>1, <6>1
        <5> QED
          BY <5>1, <5>2
      <4>4. ASSUME NEW i \in 1 .. n + 1, NEW j \in 1 .. n + 1, i < j
            PROVE  <<q[i], q[j]>> \in R
        <5>1. i \in 1 .. n /\ q[i] = p[i]
          BY <4>1, <4>4
        <5>2. CASE j = n + 1
          BY <3>2, <4>1, <5>1, <5>2
        <5>3. CASE j \in 1 .. n
          <6>1. <<p[i], p[j]>> \in R
            BY <3>4, <4>4, <5>1, <5>3 DEF Lists
          <6> QED
            BY <4>1, <5>1, <5>3, <6>1
        <5> QED
          BY <4>1, <4>4, <5>2, <5>3
      <4> HIDE DEF q
      <4> QED
        BY <4>1, <4>2, <4>3, <4>4 DEF Lists
    <3> HIDE DEF q
    <3> QED
      BY <3>5
  <2> QED
    BY <2>1, <2>2
<1> HIDE DEF Good
<1>2. S \in Good
  BY <1>1, SmallerSets
<1> QED
  BY <1>2 DEF Good

\* Those before an element are those at lower places.
Preceding(S, R, x) == {y \in S : <<y, x>> \in R}

\* A list holds each element once, at a place that its order gives.
LEMMA ListsOnce ==
  ASSUME NEW S, NEW R, Orders(R, S), NEW n, NEW p, Lists(p, n, S, R)
  PROVE  /\ \A i, j \in 1 .. n : p[i] = p[j] => i = j
         /\ \A i, j \in 1 .. n : <<p[j], p[i]>> \in R <=> j < i
<1>0. n \in Nat /\ p \in [1 .. n -> S]
  BY DEF Lists
<1>1. ASSUME NEW i \in 1 .. n, NEW j \in 1 .. n, p[i] = p[j] PROVE i = j
  <2>1. ~(i < j) /\ ~(j < i)
    BY <1>0, <1>1 DEF Lists, Orders
  <2> QED
    BY <1>0, <2>1
<1>2. ASSUME NEW i \in 1 .. n, NEW j \in 1 .. n PROVE <<p[j], p[i]>> \in R <=> j < i
  <2>1. p[j] \in S /\ p[i] \in S
    BY <1>0
  <2>2. j < i => <<p[j], p[i]>> \in R
    BY DEF Lists
  <2>3. i < j => <<p[i], p[j]>> \in R
    BY DEF Lists
  <2>4. i = j => <<p[j], p[i]>> \notin R
    BY <2>1 DEF Orders
  <2>5. <<p[i], p[j]>> \in R => <<p[j], p[i]>> \notin R
    BY <2>1 DEF Orders
  <2> QED
    BY <1>0, <2>1, <2>2, <2>3, <2>4, <2>5
<1> QED
  BY <1>1, <1>2

\* What comes before the element at a place is what the list has before it.
LEMMA ListsBefore ==
  ASSUME NEW S, NEW R, Orders(R, S), NEW n, NEW p, Lists(p, n, S, R), NEW i \in 1 .. n
  PROVE  /\ Preceding(S, R, p[i]) = {p[j] : j \in 1 .. i - 1}
         /\ IsFiniteSet(Preceding(S, R, p[i]))
         /\ Cardinality(Preceding(S, R, p[i])) = i - 1
<1> DEFINE before == Preceding(S, R, p[i])
           q == [j \in 1 .. i - 1 |-> p[j]]
<1>0. n \in Nat /\ p \in [1 .. n -> S]
  BY DEF Lists
<1>1. \A j \in 1 .. n : p[j] \in before <=> j < i
  BY <1>0, ListsOnce DEF Preceding
<1>2. q \in [1 .. i - 1 -> before]
  BY <1>0, <1>1
<1>3. \A x \in before : \E j \in 1 .. i - 1 : q[j] = x
  <2> TAKE x \in before
  <2>1. PICK j \in 1 .. n : p[j] = x
    BY DEF Lists, Preceding
  <2> QED
    BY <1>0, <1>1, <2>1
<1>4. \A j, k \in 1 .. i - 1 : q[j] = q[k] => j = k
  BY <1>0, ListsOnce
<1>5. before = {p[j] : j \in 1 .. i - 1}
  <2>1. \A j \in 1 .. i - 1 : q[j] = p[j]
    OBVIOUS
  <2> HIDE DEF before, q
  <2> QED
    BY <1>2, <1>3, <2>1
<1>6. IsFiniteSet(1 .. i - 1) /\ Cardinality(1 .. i - 1) = i - 1
  BY <1>0, FS_Interval
<1> HIDE DEF q, before
<1>7. q \in Bijection(1 .. i - 1, before)
  BY <1>2, <1>3, <1>4 DEF Bijection, Injection, Surjection, IsInjective
<1>8. IsFiniteSet(before) /\ Cardinality(before) = i - 1
  BY <1>6, <1>7, FS_Bijection DEF ExistsBijection
<1> QED
  BY <1>5, <1>8 DEF before

\* There is one such list, and Ordered is it.
LEMMA OrderedIs ==
  ASSUME NEW S, NEW R, Orders(R, S), NEW n, NEW p, Lists(p, n, S, R)
  PROVE  /\ Cardinality(S) = n /\ IsFiniteSet(S)
         /\ Ordered(S, R) = p
<1> DEFINE before(x) == Preceding(S, R, x)
<1>0. n \in Nat /\ p \in [1 .. n -> S]
  BY DEF Lists
<1>1. \A i, j \in 1 .. n : p[i] = p[j] => i = j
  BY ListsOnce
<1>2. Cardinality(S) = n /\ IsFiniteSet(S)
  <2>1. p \in Bijection(1 .. n, S)
    BY <1>0, <1>1 DEF Lists, Bijection, Injection, Surjection, IsInjective
  <2>2. IsFiniteSet(1 .. n) /\ Cardinality(1 .. n) = n
    BY <1>0, FS_Interval
  <2> QED
    BY <2>1, <2>2, FS_Bijection DEF ExistsBijection
<1>3. ASSUME NEW i \in 1 .. n PROVE Cardinality(before(p[i])) = i - 1
  BY ListsBefore
<1>4. ASSUME NEW i \in 1 .. n
      PROVE  (CHOOSE x \in S : Cardinality(before(x)) = i - 1) = p[i]
  <2>1. \A x \in S : Cardinality(before(x)) = i - 1 => x = p[i]
    <3> TAKE x \in S
    <3>1. PICK j \in 1 .. n : p[j] = x
      BY DEF Lists
    <3>2. Cardinality(before(x)) = j - 1
      BY <1>3, <3>1
    <3> HIDE DEF before
    <3> QED
      BY <1>0, <3>1, <3>2
  <2>2. p[i] \in S /\ Cardinality(before(p[i])) = i - 1
    BY <1>0, <1>3
  <2> HIDE DEF before
  <2> QED
    BY <2>1, <2>2
<1>5. Ordered(S, R) = [i \in 1 .. n |-> CHOOSE x \in S : Cardinality(before(x)) = i - 1]
  BY <1>2 DEF Ordered, Preceding
<1> HIDE DEF before
<1>6. [i \in 1 .. n |-> CHOOSE x \in S : Cardinality(before(x)) = i - 1] = [i \in 1 .. n |-> p[i]]
  BY <1>4
<1> QED
  BY <1>0, <1>2, <1>5, <1>6

\* Ordered lists a finite set.
LEMMA OrderedLists ==
  ASSUME NEW S, IsFiniteSet(S), NEW R, Orders(R, S)
  PROVE  Lists(Ordered(S, R), Cardinality(S), S, R)
<1>1. PICK n, p : Lists(p, n, S, R)
  BY ListExists
<1> QED
  BY <1>1, OrderedIs

\* Numbers, from the lowest up.
Rising(p, n, S) ==
  /\ n \in Nat /\ p \in [1 .. n -> S]
  /\ \A x \in S : \E i \in 1 .. n : p[i] = x
  /\ \A i, j \in 1 .. n : i < j => p[i] < p[j]

\* There is one rising list of a set of numbers, and Upward is it.
LEMMA UpwardIs ==
  ASSUME NEW S, S \subseteq Int, NEW n, NEW p, Rising(p, n, S)
  PROVE  Cardinality(S) = n /\ IsFiniteSet(S) /\ Upward(S) = p
<1> DEFINE R == {q \in S \X S : q[1] < q[2]}
<1>1. \A x, y \in S : <<x, y>> \in R <=> x < y
  OBVIOUS
<1>2. Upward(S) = Ordered(S, R)
  BY DEF Upward
<1> HIDE DEF R
<1>3. Orders(R, S)
  BY <1>1 DEF Orders
<1>4. Lists(p, n, S, R)
  BY <1>1 DEF Lists, Rising
<1> QED
  BY <1>2, <1>3, <1>4, OrderedIs

\* Upward lists a finite set of numbers.
LEMMA UpwardRises ==
  ASSUME NEW S, S \subseteq Int, IsFiniteSet(S)
  PROVE  Rising(Upward(S), Cardinality(S), S)
<1> DEFINE R == {q \in S \X S : q[1] < q[2]}
<1>1. \A x, y \in S : <<x, y>> \in R <=> x < y
  OBVIOUS
<1>2. Upward(S) = Ordered(S, R)
  BY DEF Upward
<1> HIDE DEF R
<1>3. Orders(R, S)
  BY <1>1 DEF Orders
<1>4. Lists(Upward(S), Cardinality(S), S, R)
  BY <1>2, <1>3, OrderedLists
<1> QED
  BY <1>1, <1>4 DEF Lists, Rising

\* The instances have the operators of Ordering as Documents has them.
LEMMA SameUpward == \A S : Bank!Upward(S) = Upward(S)
BY DEF Bank!Upward, Bank!Ordered, Bank!Cardinality, Upward, Ordered, Cardinality

LEMMA SamePicked == \A s, S : Bank!Picked(s, S) = Picked(s, S)
BY SameUpward DEF Bank!Picked, Picked

LEMMA SameOrdered == \A S, R : Book!Ordered(S, R) = Ordered(S, R)
BY DEF Book!Ordered, Book!Cardinality, Ordered, Cardinality

\* Finite sets of numbers have a lowest and a highest one.
LEMMA LowestExists ==
  ASSUME NEW S, S \subseteq Int, IsFiniteSet(S), S # {}
  PROVE  \E m \in S : \A x \in S : m <= x
<1> DEFINE R == {q \in S \X S : q[1] < q[2]}
<1>1. \A x, y \in S : <<x, y>> \in R <=> x < y
  OBVIOUS
<1> HIDE DEF R
<1>2. Orders(R, S)
  BY <1>1 DEF Orders
<1>3. PICK m \in S : \A x \in S \ {m} : <<m, x>> \in R
  BY <1>2, FirstExists
<1>4. ASSUME NEW x \in S PROVE m <= x
  <2>1. m \in Int /\ x \in Int
    OBVIOUS
  <2>2. x # m => m < x
    BY <1>1, <1>3
  <2> QED
    BY <2>1, <2>2
<1> QED
  BY <1>4

LEMMA HighestExists ==
  ASSUME NEW S, S \subseteq Int, IsFiniteSet(S), S # {}
  PROVE  \E m \in S : \A x \in S : x <= m
<1> DEFINE R == {q \in S \X S : q[1] < q[2]}
<1>1. \A x, y \in S : <<x, y>> \in R <=> x < y
  OBVIOUS
<1> HIDE DEF R
<1>2. Orders(R, S)
  BY <1>1 DEF Orders
<1>3. PICK m \in S : \A x \in S \ {m} : <<x, m>> \in R
  BY <1>2, LastExists
<1>4. ASSUME NEW x \in S PROVE x <= m
  <2>1. m \in Int /\ x \in Int
    OBVIOUS
  <2>2. x # m => x < m
    BY <1>1, <1>3
  <2> QED
    BY <2>1, <2>2
<1> QED
  BY <1>4

\* Induction up to n.
LEMMA UpTo ==
  ASSUME NEW n \in Nat, NEW Good, 0 \in Good,
         \A i \in 0 .. n - 1 : i \in Good => i + 1 \in Good
  PROVE  \A i \in 0 .. n : i \in Good
<1> DEFINE Bad == {i \in 0 .. n : i \notin Good}
<1> SUFFICES ASSUME Bad # {} PROVE FALSE
  OBVIOUS
<1>1. IsFiniteSet(Bad) /\ Bad \subseteq Int
  <2>1. IsFiniteSet(0 .. n)
    BY FS_Interval
  <2>2. Bad \subseteq 0 .. n /\ 0 .. n \subseteq Int
    OBVIOUS
  <2> HIDE DEF Bad
  <2> QED
    BY <2>1, <2>2, FS_Subset
<1>2. PICK m \in Bad : \A x \in Bad : m <= x
  BY <1>1, LowestExists
<1>3. m # 0 /\ m \in 1 .. n
  BY <1>2
<1>4. m - 1 \in 0 .. n - 1 /\ m - 1 \notin Bad
  BY <1>2, <1>3
<1>5. m - 1 \in Good
  BY <1>4
<1> QED
  BY <1>2, <1>3, <1>4, <1>5

\* The image of a finite set is one.
LEMMA ImageFinite ==
  ASSUME NEW S, IsFiniteSet(S), NEW f
  PROVE  IsFiniteSet({f[x] : x \in S})
<1> DEFINE T == {f[x] : x \in S}
           g == [x \in S |-> f[x]]
<1>1. g \in Surjection(S, T)
  BY DEF Surjection
<1> HIDE DEF g, T
<1>2. IsFiniteSet(T)
  BY <1>1, FS_Surjection
<1> QED
  BY <1>2 DEF T

\* A rising list is never behind.
LEMMA RisingAhead ==
  ASSUME NEW n, NEW S, S \subseteq Nat \ {0}, NEW p, Rising(p, n, S)
  PROVE  \A i \in 1 .. n : i <= p[i]
<1> DEFINE Good == {i \in 0 .. n : i = 0 \/ i <= p[i]}
<1>0. n \in Nat /\ \A i \in 1 .. n : p[i] \in Nat \ {0}
  BY DEF Rising
<1>1. ASSUME NEW i \in 0 .. n - 1, i \in Good PROVE i + 1 \in Good
  <2>1. i + 1 \in 1 .. n /\ i + 1 \in 0 .. n
    BY <1>0
  <2>2. CASE i = 0
    BY <1>0, <2>1, <2>2
  <2>3. CASE i # 0
    <3>1. i \in 1 .. n /\ i <= p[i]
      BY <1>0, <1>1, <2>3
    <3>2. p[i] < p[i + 1]
      BY <2>1, <3>1 DEF Rising
    <3> QED
      BY <1>0, <2>1, <3>1, <3>2
  <2> QED
    BY <2>2, <2>3
<1>2. 0 \in Good
  BY <1>0
<1> HIDE DEF Good
<1>3. \A i \in 0 .. n : i \in Good
  BY <1>0, <1>1, <1>2, UpTo
<1> QED
  BY <1>0, <1>3 DEF Good

-----------------------------------------------------------------------------
(* Statements.                                                              *)

\* The filled cells of a sheet.
Sheet(cells) ==
  IsFiniteSet(DOMAIN cells) /\ DOMAIN cells \subseteq (Nat \ {0}) \X (Nat \ {0})

\* Every filled cell is within the last row and the last column.
LEMMA LastsAre ==
  ASSUME NEW cells, Sheet(cells)
  PROVE  /\ Bank!LastRow(cells) \in Nat /\ Bank!LastColumn(cells) \in Nat
         /\ \A at \in DOMAIN cells :
              at[1] \in 1 .. Bank!LastRow(cells) /\ at[2] \in 1 .. Bank!LastColumn(cells)
<1> DEFINE row == [at \in DOMAIN cells |-> at[1]]
           column == [at \in DOMAIN cells |-> at[2]]
<1>1. ASSUME NEW f, NEW N, \A at \in DOMAIN cells : f[at] \in Nat \ {0},
             N = Bank!Max({0} \cup {f[at] : at \in DOMAIN cells})
      PROVE  N \in Nat /\ \A at \in DOMAIN cells : f[at] \in 1 .. N
  <2> DEFINE T == {f[at] : at \in DOMAIN cells}
             S == T \cup {0}
  <2>1. IsFiniteSet(T)
    BY ImageFinite DEF Sheet
  <2>2. IsFiniteSet(S) /\ S \subseteq Nat /\ S # {}
    <3>1. T \subseteq Nat
      BY <1>1
    <3> HIDE DEF T
    <3> QED
      BY <2>1, <3>1, FS_AddElement
  <2>3. PICK m \in S : \A x \in S : x <= m
    <3>1. S \subseteq Int
      BY <2>2
    <3> HIDE DEF S
    <3> QED
      BY <2>2, <3>1, HighestExists
  <2>4. N = CHOOSE x \in S : \A y \in S : x >= y
    <3>1. S = {0} \cup T
      OBVIOUS
    <3> HIDE DEF S
    <3> QED
      BY <1>1, <3>1 DEF Bank!Max
  <2>5. \A x \in S : f # f \/ m >= x
    BY <2>2, <2>3
  <2> HIDE DEF S
  <2>6. N \in S /\ \A y \in S : N >= y
    BY <2>2, <2>3, <2>4, <2>5
  <2>7. \A at \in DOMAIN cells : f[at] \in S
    BY DEF S
  <2> QED
    BY <1>1, <2>2, <2>6, <2>7
<1>2. /\ \A at \in DOMAIN cells : row[at] \in Nat \ {0} /\ column[at] \in Nat \ {0}
      /\ \A at \in DOMAIN cells : row[at] = at[1] /\ column[at] = at[2]
  BY DEF Sheet
<1>3. /\ {at[1] : at \in DOMAIN cells} = {row[at] : at \in DOMAIN cells}
      /\ {at[2] : at \in DOMAIN cells} = {column[at] : at \in DOMAIN cells}
  OBVIOUS
<1> HIDE DEF row, column
<1>4. /\ Bank!LastRow(cells) = Bank!Max({0} \cup {row[at] : at \in DOMAIN cells})
      /\ Bank!LastColumn(cells) = Bank!Max({0} \cup {column[at] : at \in DOMAIN cells})
  BY <1>3, Zenon DEF Bank!LastRow, Bank!LastColumn
<1>5. Bank!LastRow(cells) \in Nat /\ \A at \in DOMAIN cells : row[at] \in 1 .. Bank!LastRow(cells)
  BY <1>1, <1>2, <1>4
<1>6. /\ Bank!LastColumn(cells) \in Nat
      /\ \A at \in DOMAIN cells : column[at] \in 1 .. Bank!LastColumn(cells)
  BY <1>1, <1>2, <1>4
<1> QED
  BY <1>2, <1>5, <1>6

\* Whatever the reader, the rows are those of the sheet in their order, and
\* none that holds a cell is missing.
RowsTell(rows, n, R, cells) ==
  /\ n \in Nat /\ R \in [1 .. n -> 1 .. Bank!LastRow(cells)]
  /\ \A i, j \in 1 .. n : i < j => R[i] < R[j]
  /\ \A at \in DOMAIN cells : \E i \in 1 .. n : R[i] = at[1]
  /\ rows = [i \in 1 .. n |->
               [c \in 1 .. Bank!LastColumn(cells) |-> Bank!CellAt(cells, R[i], c)]]

\* Either reader has the rows of the sheet.
LEMMA RowsAre ==
  ASSUME NEW file, Sheet(file.cells)
  PROVE  \E n, R : RowsTell(Bank!Rows(file), n, R, file.cells)
<1> DEFINE cells == file.cells
           last == Bank!LastRow(cells)
           Row(r) == [c \in 1 .. Bank!LastColumn(cells) |-> Bank!CellAt(cells, r, c)]
<1>1. last \in Nat /\ \A at \in DOMAIN cells : at[1] \in 1 .. last
  BY LastsAre
<1>2. CASE file.format = "strict"
  <2> DEFINE row == [at \in DOMAIN cells |-> at[1]]
             S == {row[at] : at \in DOMAIN cells}
             R == Upward(S)
             n == Cardinality(S)
  <2>0. S = {at[1] : at \in DOMAIN cells}
    OBVIOUS
  <2>1. IsFiniteSet(S)
    <3>1. IsFiniteSet(DOMAIN cells)
      BY DEF Sheet
    <3> QED
      BY <3>1, ImageFinite
  <2>2. S \subseteq Int /\ S \subseteq 1 .. last /\ \A at \in DOMAIN cells : at[1] \in S
    <3>1. S \subseteq 1 .. last /\ \A at \in DOMAIN cells : at[1] \in S
      BY <1>1, <2>0
    <3> HIDE DEF S
    <3> QED
      BY <1>1, <3>1
  <2>3. Bank!Rows(file) = [i \in DOMAIN R |-> Row(R[i])]
    <3>1. Bank!Rows(file) = Bank!SparseRows(cells)
      BY <1>2 DEF Bank!Rows
    <3>2. Bank!Upward({at[1] : at \in DOMAIN cells}) = R
      BY <2>0, SameUpward
    <3> HIDE DEF R, S
    <3> QED
      BY <3>1, <3>2 DEF Bank!SparseRows
  <2> HIDE DEF S
  <2>4. Rising(R, n, S)
    BY <2>1, <2>2, UpwardRises
  <2> HIDE DEF R, n
  <2>5. RowsTell(Bank!Rows(file), n, R, cells)
    BY <2>2, <2>3, <2>4 DEF Rising, RowsTell
  <2> QED
    BY <2>5
<1>3. CASE file.format # "strict"
  <2> DEFINE R == [i \in 1 .. last |-> i]
  <2>1. Bank!Rows(file) = [r \in 1 .. last |-> Row(r)]
    BY <1>3 DEF Bank!Rows, Bank!DenseRows
  <2>2. RowsTell(Bank!Rows(file), last, R, cells)
    BY <1>1, <2>1 DEF RowsTell
  <2> QED
    BY <2>2
<1> QED
  BY <1>2, <1>3

\* A cell that says anything is one of the sheet.
LEMMA CellSays ==
  ASSUME NEW cells, NEW r, NEW c,
         Bank!CellAt(cells, r, c).words # {} \/ Bank!CellAt(cells, r, c).date # NULL
  PROVE  <<r, c>> \in DOMAIN cells
BY DEF Bank!CellAt, Bank!Blank

\* The columns a row names a key at are those the sheet has it at.
LEMMA HeadingColumns ==
  ASSUME NEW rows, NEW n, NEW R, NEW cells, RowsTell(rows, n, R, cells), NEW i \in 1 .. n, NEW k
  PROVE  {c \in DOMAIN rows[i] : k \in Bank!Keys(rows[i][c])} = Bank!Headings(cells, R[i], k)
<1>1. rows[i] = [c \in 1 .. Bank!LastColumn(cells) |-> Bank!CellAt(cells, R[i], c)]
  BY DEF RowsTell
<1>2. \A cell : k \in Bank!Keys(cell) <=> Bank!Names(cell, k)
  BY DEF Bank!Keys, Bank!Names
<1> QED
  BY <1>1, <1>2 DEF Bank!Headings

\* A column map holds the keys that stand in the row, each at its first column.
LEMMA ColumnMapIs ==
  ASSUME NEW rows, NEW n, NEW R, NEW cells, RowsTell(rows, n, R, cells), NEW i \in 1 .. n
  PROVE  /\ \A k : k \in DOMAIN Bank!ColumnMap(rows[i])
                     <=> k \in Bank!ColumnKeys /\ Bank!Headings(cells, R[i], k) # {}
         /\ \A k \in DOMAIN Bank!ColumnMap(rows[i]) :
              Bank!ColumnMap(rows[i])[k] = Bank!Min(Bank!Headings(cells, R[i], k))
<1> DEFINE named(k) == {c \in DOMAIN rows[i] : k \in Bank!Keys(rows[i][c])}
<1>1. Bank!ColumnMap(rows[i]) =
        [k \in {x \in Bank!ColumnKeys : named(x) # {}} |-> Bank!Min(named(k))]
  BY DEF Bank!ColumnMap
<1>2. \A k : named(k) = Bank!Headings(cells, R[i], k)
  BY HeadingColumns
<1> HIDE DEF named
<1> QED
  BY <1>1, <1>2

\* A row is taken for the header if the sheet has a heading there.
LEMMA HeaderIs ==
  ASSUME NEW rows, NEW n, NEW R, NEW cells, RowsTell(rows, n, R, cells), NEW i \in 1 .. n
  PROVE  Bank!IsHeader(rows[i]) <=> Bank!IsHeading(cells, R[i])
<1>1. {"date", "amount", "withdrawal", "deposit"} \subseteq Bank!ColumnKeys
  BY DEF Bank!ColumnKeys
<1> DEFINE map == Bank!ColumnMap(rows[i])
<1>2. \A k \in {"date", "amount", "withdrawal", "deposit"} :
        k \in DOMAIN map <=> Bank!Headings(cells, R[i], k) # {}
  BY <1>1, ColumnMapIs
<1>3. Bank!IsHeader(rows[i]) <=>
        "date" \in DOMAIN map /\ \E k \in {"amount", "withdrawal", "deposit"} : k \in DOMAIN map
  BY DEF Bank!IsHeader
<1> HIDE DEF map
<1> QED
  BY <1>2, <1>3 DEF Bank!IsHeading

\* The heading of a sheet is found, wherever it stands.
LEMMA HeaderFound ==
  ASSUME NEW rows, NEW n, NEW R, NEW cells, RowsTell(rows, n, R, cells), Sheet(cells)
  PROVE  /\ (\A r \in 1 .. Bank!LastRow(cells) : ~Bank!IsHeading(cells, r)) =>
              Bank!HeaderRow(rows) = 0
         /\ \A h \in 1 .. Bank!LastRow(cells) :
              h <= HeaderScanRows /\ Bank!IsHeading(cells, h)
                /\ (\A r \in 1 .. h - 1 : ~Bank!IsHeading(cells, r)) =>
              Bank!HeaderRow(rows) \in 1 .. n /\ R[Bank!HeaderRow(rows)] = h
<1> DEFINE found == {r \in DOMAIN rows : r <= HeaderScanRows /\ Bank!IsHeader(rows[r])}
<1>0. /\ n \in Nat /\ DOMAIN rows = 1 .. n /\ Bank!LastRow(cells) \in Nat
      /\ \A i \in 1 .. n : R[i] \in 1 .. Bank!LastRow(cells)
  BY LastsAre DEF RowsTell
<1>1. Bank!HeaderRow(rows) = IF found = {} THEN 0 ELSE Bank!Min(found)
  BY DEF Bank!HeaderRow
<1>2. \A i \in 1 .. n : i \in found <=> i <= HeaderScanRows /\ Bank!IsHeading(cells, R[i])
  BY <1>0, HeaderIs
<1>3. found \subseteq 1 .. n
  BY <1>0
<1> HIDE DEF found
<1>4. ASSUME \A r \in 1 .. Bank!LastRow(cells) : ~Bank!IsHeading(cells, r)
      PROVE  Bank!HeaderRow(rows) = 0
  BY <1>0, <1>1, <1>2, <1>3, <1>4
<1>5. ASSUME NEW h \in 1 .. Bank!LastRow(cells), h <= HeaderScanRows, Bank!IsHeading(cells, h),
             \A r \in 1 .. h - 1 : ~Bank!IsHeading(cells, r)
      PROVE  Bank!HeaderRow(rows) \in 1 .. n /\ R[Bank!HeaderRow(rows)] = h
  <2>1. PICK i \in 1 .. n : R[i] = h
    <3>1. PICK c \in Bank!Headings(cells, h, "date") : TRUE
      BY <1>5 DEF Bank!IsHeading
    <3>2. <<h, c>> \in DOMAIN cells
      <4>1. Bank!CellAt(cells, h, c).words # {}
        BY <3>1 DEF Bank!Headings, Bank!Names
      <4> QED
        BY <4>1, CellSays
    <3>3. <<h, c>>[1] = h
      OBVIOUS
    <3> QED
      BY <3>2, <3>3 DEF RowsTell
  <2>2. i <= h
    <3> DEFINE S == {R[j] : j \in 1 .. n}
    <3>1. Rising(R, n, S)
      BY <1>0 DEF RowsTell, Rising
    <3>2. S \subseteq Nat \ {0}
      BY <1>0
    <3> HIDE DEF S
    <3>3. i <= R[i]
      BY <3>1, <3>2, RisingAhead
    <3> QED
      BY <2>1, <3>3
  <2>3. i \in found
    <3>1. HeaderScanRows \in Nat
      BY DocumentsAssumption
    <3> QED
      BY <1>0, <1>2, <1>5, <2>1, <2>2, <3>1
  <2>4. ASSUME NEW j \in found PROVE i <= j
    <3> SUFFICES ASSUME j < i PROVE FALSE
      BY <1>0, <1>3
    <3>1. j \in 1 .. n /\ Bank!IsHeading(cells, R[j])
      BY <1>2, <1>3
    <3>2. R[j] < R[i]
      BY <3>1 DEF RowsTell
    <3> QED
      BY <1>0, <1>5, <2>1, <3>1, <3>2
  <2>5. Bank!Min(found) = i
    <3>1. \A x \in found : (\A y \in found : x <= y) => x = i
      BY <1>0, <1>3, <2>3, <2>4
    <3> QED
      BY <2>3, <2>4, <3>1 DEF Bank!Min
  <2> QED
    BY <1>1, <2>1, <2>3, <2>5
<1> QED
  BY <1>4, <1>5

\* What is read under a heading is what stands there.
LEMMA GetIs ==
  ASSUME NEW rows, NEW n, NEW R, NEW cells, RowsTell(rows, n, R, cells), Sheet(cells),
         NEW header \in 1 .. n, NEW i \in 1 .. n, NEW k \in Bank!ColumnKeys,
         \A c, d \in Bank!Headings(cells, R[header], k) : c = d
  PROVE  /\ Bank!Get(rows[i], Bank!ColumnMap(rows[header]), k)
              = Bank!Under(cells, R[header], R[i], k)
         /\ k \in DOMAIN Bank!ColumnMap(rows[header])
              <=> Bank!Headings(cells, R[header], k) # {}
<1> DEFINE H == Bank!Headings(cells, R[header], k)
           map == Bank!ColumnMap(rows[header])
<1>1. k \in DOMAIN map <=> H # {}
  BY ColumnMapIs
<1>2. CASE H = {}
  BY <1>1, <1>2 DEF Bank!Get, Bank!Under
<1>3. CASE H # {}
  <2>1. PICK c \in H : TRUE
    BY <1>3
  <2>2. c \in 1 .. Bank!LastColumn(cells) /\ c \in Int
    BY LastsAre DEF Bank!Headings
  <2>3. H = {c}
    BY <2>1
  <2>4. Bank!Min(H) = c
    <3> HIDE DEF H
    <3> QED
      BY <2>2, <2>3 DEF Bank!Min
  <2>5. (CHOOSE d \in H : TRUE) = c
    <3> HIDE DEF H
    <3> QED
      BY <2>3
  <2>6. map[k] = c
    BY <1>1, <1>3, <2>4, ColumnMapIs
  <2>7. rows[i][c] = Bank!CellAt(cells, R[i], c)
    BY <2>2 DEF RowsTell
  <2>8. Bank!Get(rows[i], map, k) = Bank!CellAt(cells, R[i], c)
    BY <1>1, <1>3, <2>6, <2>7 DEF Bank!Get
  <2>9. Bank!Under(cells, R[header], R[i], k) = Bank!CellAt(cells, R[i], c)
    BY <1>3, <2>5 DEF Bank!Under
  <2> QED
    BY <1>1, <2>8, <2>9
<1> QED
  BY <1>1, <1>2, <1>3

\* An empty cell is no number.
LEMMA NullNoNumber == NULL \notin Int
BY RecordsAssumption

\* Transaction, of what stands under the headings.
ReadUnder(cells, h, r) ==
  LET told(k) == Bank!Under(cells, h, r, k)
      headed(k) == Bank!Headings(cells, h, k) # {}
      n == told("amount").num
      way == told("type").text
      out == told("withdrawal").num
      in == told("deposit").num
  IN  [date |-> told("date").date, description |-> told("description").text,
       memo |-> told("memo").text,
       amount |->
         IF headed("amount")
         THEN IF n = NULL \/ ~headed("type") THEN n
              ELSE IF way = "withdrawal" THEN -Bank!Magnitude(n)
              ELSE IF way = "deposit" THEN Bank!Magnitude(n)
              ELSE n
         ELSE IF out # NULL /\ out # 0 THEN -Bank!Magnitude(out)
              ELSE IF in # NULL /\ in # 0 THEN Bank!Magnitude(in)
              ELSE NULL]

\* A transaction is what stands under the headings, each of which stands once.
LEMMA TransactionIs ==
  ASSUME NEW rows, NEW n, NEW R, NEW cells, RowsTell(rows, n, R, cells), Sheet(cells),
         NEW header \in 1 .. n, NEW i \in 1 .. n,
         \A k \in Bank!ColumnKeys : \A c, d \in Bank!Headings(cells, R[header], k) : c = d
  PROVE  Bank!Transaction(rows[i], Bank!ColumnMap(rows[header]))
           = ReadUnder(cells, R[header], R[i])
<1> DEFINE map == Bank!ColumnMap(rows[header])
           get(k) == Bank!Get(rows[i], map, k)
           told(k) == Bank!Under(cells, R[header], R[i], k)
           headed(k) == Bank!Headings(cells, R[header], k) # {}
<1>1. \A k \in Bank!ColumnKeys : get(k) = told(k) /\ (k \in DOMAIN map <=> headed(k))
  BY GetIs
<1>2. /\ get("date") = told("date") /\ get("description") = told("description")
      /\ get("memo") = told("memo") /\ get("type") = told("type")
      /\ get("withdrawal") = told("withdrawal") /\ get("deposit") = told("deposit")
      /\ get("amount") = told("amount")
      /\ "amount" \in DOMAIN map <=> headed("amount")
      /\ "type" \in DOMAIN map <=> headed("type")
  BY <1>1 DEF Bank!ColumnKeys
<1> DEFINE n0 == told("amount").num
           way == told("type").text
           out == told("withdrawal").num
           in == told("deposit").num
           amount == Bank!AmountOf(rows[i], map)
<1>3. amount =
         IF "amount" \in DOMAIN map
         THEN IF get("amount").num = NULL \/ "type" \notin DOMAIN map THEN get("amount").num
              ELSE CASE get("type").text = "withdrawal" -> -Bank!Magnitude(get("amount").num)
                     [] get("type").text = "deposit" -> Bank!Magnitude(get("amount").num)
                     [] OTHER -> get("amount").num
         ELSE CASE get("withdrawal").num # NULL /\ get("withdrawal").num # 0 ->
                     -Bank!Magnitude(get("withdrawal").num)
                [] (get("withdrawal").num = NULL \/ get("withdrawal").num = 0)
                     /\ get("deposit").num # NULL /\ get("deposit").num # 0 ->
                     Bank!Magnitude(get("deposit").num)
                [] OTHER -> NULL
  BY DEF Bank!AmountOf
<1>4. Bank!Transaction(rows[i], map) =
        [date |-> get("date").date, description |-> get("description").text,
         memo |-> get("memo").text, amount |-> amount]
  BY DEF Bank!Transaction
<1> HIDE DEF get, map, amount
<1>5. amount =
         IF headed("amount")
         THEN IF n0 = NULL \/ ~headed("type") THEN n0
              ELSE IF way = "withdrawal" THEN -Bank!Magnitude(n0)
              ELSE IF way = "deposit" THEN Bank!Magnitude(n0)
              ELSE n0
         ELSE IF out # NULL /\ out # 0 THEN -Bank!Magnitude(out)
              ELSE IF in # NULL /\ in # 0 THEN Bank!Magnitude(in)
              ELSE NULL
  <2> DEFINE H == headed("amount")
             T == headed("type")
             A == "amount" \in DOMAIN map
             B == "type" \in DOMAIN map
  <2>1. (A <=> H) /\ (B <=> T)
    BY <1>2
  <2>2. /\ get("amount").num = n0 /\ get("type").text = way
        /\ get("withdrawal").num = out /\ get("deposit").num = in
    BY <1>2
  <2> HIDE DEF told, headed, H, T
  <2>3. CASE A
    BY <1>3, <2>1, <2>2, <2>3 DEF H, T
  <2>4. CASE ~A
    BY <1>3, <2>1, <2>2, <2>4 DEF H, T
  <2> QED
    BY <2>3, <2>4
<1>6. ReadUnder(cells, R[header], R[i]) =
        [date |-> told("date").date, description |-> told("description").text,
         memo |-> told("memo").text, amount |-> amount]
  BY <1>5 DEF ReadUnder
<1> QED
  BY <1>2, <1>4, <1>6 DEF map

\* A row that tells a movement is read as that.
LEMMA MovementRead ==
  ASSUME NEW cells, NEW h, NEW r, NEW m, Bank!Tells(cells, h, r, m)
  PROVE  /\ ReadUnder(cells, h, r) = m
         /\ m.date # NULL /\ m.amount # NULL
         /\ <<r, CHOOSE c \in Bank!Headings(cells, h, "date") : TRUE>> \in DOMAIN cells
<1> DEFINE told(k) == Bank!Under(cells, h, r, k)
           headed(k) == Bank!Headings(cells, h, k) # {}
           n == told("amount").num
           way == told("type").text
           out == told("withdrawal").num
           in == told("deposit").num
           a == m.amount
           read == IF headed("amount")
                   THEN IF n = NULL \/ ~headed("type") THEN n
                        ELSE IF way = "withdrawal" THEN -Bank!Magnitude(n)
                        ELSE IF way = "deposit" THEN Bank!Magnitude(n)
                        ELSE n
                   ELSE IF out # NULL /\ out # 0 THEN -Bank!Magnitude(out)
                        ELSE IF in # NULL /\ in # 0 THEN Bank!Magnitude(in)
                        ELSE NULL
           side == IF a < 0 THEN "withdrawal" ELSE "deposit"
<1>1. /\ m = [date |-> told("date").date, description |-> told("description").text,
              memo |-> told("memo").text, amount |-> a]
      /\ m.date # NULL /\ a \in Int
      /\ \/ headed("amount") /\ ~headed("type") /\ n = a
         \/ headed("amount") /\ headed("type") /\ n \in {a, -a} /\ way = side
         \/ /\ ~headed("amount") /\ a # 0 /\ told(side).num \in {a, -a}
            /\ side = "withdrawal" \/ out \in {NULL, 0}
  BY DEF Bank!Tells
<1>2. ReadUnder(cells, h, r) =
        [date |-> told("date").date, description |-> told("description").text,
         memo |-> told("memo").text, amount |-> read]
  BY DEF ReadUnder
<1>3. \A x \in {a, -a} :
        /\ x \in Int
        /\ a < 0 => -Bank!Magnitude(x) = a
        /\ ~(a < 0) => Bank!Magnitude(x) = a
  BY <1>1 DEF Bank!Magnitude
<1>4. a < 0 => told(side).num = out
  OBVIOUS
<1>5. ~(a < 0) => told(side).num = in
  OBVIOUS
<1>6. (a < 0 => side = "withdrawal") /\ (~(a < 0) => side = "deposit")
  OBVIOUS
<1>7. told("date").date # NULL
  BY <1>1
<1>8. <<r, CHOOSE c \in Bank!Headings(cells, h, "date") : TRUE>> \in DOMAIN cells
  <2>1. told("date") # Bank!Blank
    BY <1>7 DEF Bank!Blank
  <2>2. told("date") = Bank!CellAt(cells, r, CHOOSE c \in Bank!Headings(cells, h, "date") : TRUE)
    BY <2>1 DEF Bank!Under
  <2> HIDE DEF told
  <2> QED
    BY <1>7, <2>2, CellSays
<1> HIDE DEF told, headed, side
<1>9. read = a
  <2>1. CASE headed("amount") /\ ~headed("type") /\ n = a
    BY <2>1
  <2>2. CASE headed("amount") /\ headed("type") /\ n \in {a, -a} /\ way = side
    <3>1. n # NULL
      BY <1>3, <2>2, NullNoNumber
    <3>2. CASE a < 0
      BY <1>3, <1>6, <2>2, <3>1, <3>2
    <3>3. CASE ~(a < 0)
      BY <1>3, <1>6, <2>2, <3>1, <3>3
    <3> QED
      BY <3>2, <3>3
  <2>3. CASE ~headed("amount") /\ a # 0 /\ told(side).num \in {a, -a}
             /\ (side = "withdrawal" \/ out \in {NULL, 0})
    <3>1. told(side).num # NULL /\ told(side).num # 0
      <4>1. a # 0 /\ -a # 0
        BY <1>1, <2>3
      <4> QED
        BY <1>1, <1>3, <2>3, <4>1, NullNoNumber
    <3>2. CASE a < 0
      BY <1>3, <1>4, <2>3, <3>1, <3>2
    <3>3. CASE ~(a < 0)
      <4>1. out = NULL \/ out = 0
        BY <1>6, <2>3, <3>3
      <4> QED
        BY <1>3, <1>5, <2>3, <3>1, <3>3, <4>1
    <3> QED
      BY <3>2, <3>3
  <2> HIDE DEF read
  <2> QED
    BY <1>1, <2>1, <2>2, <2>3
<1> HIDE DEF read
<1> QED
  BY <1>1, <1>2, <1>8, <1>9, NullNoNumber

\* One without a date or a number is not read.
LEMMA OtherUnread ==
  ASSUME NEW cells, NEW h, NEW r,
         \/ Bank!Under(cells, h, r, "date").date = NULL
         \/ \A k \in {"amount", "withdrawal", "deposit"} : Bank!Under(cells, h, r, k).num = NULL
  PROVE  ReadUnder(cells, h, r).date = NULL \/ ReadUnder(cells, h, r).amount = NULL
BY DEF ReadUnder

\* The heading and the rows of a sheet that says something.
LaidOut(cells, movements, h, line) ==
  LET last == Bank!LastRow(cells)
  IN  /\ h \in 1 .. last /\ h <= HeaderScanRows /\ Bank!IsHeading(cells, h)
      /\ \A r \in 1 .. h - 1 : ~Bank!IsHeading(cells, r)
      /\ \A k \in Bank!ColumnKeys : \A c, d \in Bank!Headings(cells, h, k) : c = d
      /\ line \in [1 .. Len(movements) -> h + 1 .. last]
      /\ \A i, j \in DOMAIN line : i < j => line[i] < line[j]
      /\ \A i \in DOMAIN line : Bank!Tells(cells, h, line[i], movements[i])
      /\ \A r \in h + 1 .. last : (\A i \in DOMAIN line : line[i] # r) =>
           \/ Bank!Under(cells, h, r, "date").date = NULL
           \/ \A k \in {"amount", "withdrawal", "deposit"} :
                Bank!Under(cells, h, r, k).num = NULL

\* A documented sheet has no heading and says nothing, or is laid out.
LEMMA Layouts ==
  ASSUME NEW sheet, NEW movements, Bank!States(sheet, movements)
  PROVE  \/ /\ movements = <<>>
            /\ \A r \in 1 .. Bank!LastRow(sheet.cells) : ~Bank!IsHeading(sheet.cells, r)
         \/ \E h, line : LaidOut(sheet.cells, movements, h, line)
<1> DEFINE cells == sheet.cells
           last == Bank!LastRow(cells)
<1>1. CASE \E h \in 1 .. last :
           /\ h <= HeaderScanRows /\ Bank!IsHeading(cells, h)
           /\ \A r \in 1 .. h - 1 : ~Bank!IsHeading(cells, r)
           /\ \A k \in Bank!ColumnKeys : \A c, d \in Bank!Headings(cells, h, k) : c = d
           /\ \E line \in [1 .. Len(movements) -> h + 1 .. last] :
                /\ \A i, j \in DOMAIN line : i < j => line[i] < line[j]
                /\ \A i \in DOMAIN line : Bank!Tells(cells, h, line[i], movements[i])
                /\ \A r \in h + 1 .. last : (\A i \in DOMAIN line : line[i] # r) =>
                     \/ Bank!Under(cells, h, r, "date").date = NULL
                     \/ \A k \in {"amount", "withdrawal", "deposit"} :
                          Bank!Under(cells, h, r, k).num = NULL
  BY <1>1, Zenon DEF LaidOut
<1>2. CASE movements = <<>> /\ \A r \in 1 .. last : ~Bank!IsHeading(cells, r)
  BY <1>2
<1> QED
  BY <1>1, <1>2, Zenon DEF Bank!States

\* A statement is read as what it says.
LEMMA StatementRead ==
  ASSUME NEW f, Statement(f)
  PROVE  Bank!Parse(f.sheet).transactions = f.movements
<1> DEFINE cells == f.sheet.cells
           last == Bank!LastRow(cells)
           rows == Bank!Rows(f.sheet)
           header == Bank!HeaderRow(rows)
           columns == Bank!ColumnMap(rows[header])
           all == [r \in DOMAIN rows |-> Bank!Transaction(rows[r], columns)]
           kept == {r \in header + 1 .. Len(rows) : all[r].date # NULL /\ all[r].amount # NULL}
           movements == f.movements
<1>1. Sheet(cells) /\ Bank!States(f.sheet, movements)
  BY DEF Statement, Sheet
<1>2. PICK n, R : RowsTell(rows, n, R, cells)
  BY <1>1, RowsAre
<1>3. /\ n \in Nat /\ R \in [1 .. n -> 1 .. last] /\ last \in Nat
      /\ \A i, j \in 1 .. n : i < j => R[i] < R[j]
      /\ \A at \in DOMAIN cells : \E i \in 1 .. n : R[i] = at[1]
      /\ DOMAIN rows = 1 .. n /\ Len(rows) = n
  <2>1. last \in Nat
    BY <1>1, LastsAre
  <2>2. /\ n \in Nat /\ R \in [1 .. n -> 1 .. last]
        /\ \A i, j \in 1 .. n : i < j => R[i] < R[j]
        /\ \A at \in DOMAIN cells : \E i \in 1 .. n : R[i] = at[1]
        /\ rows = [i \in 1 .. n |->
                     [c \in 1 .. Bank!LastColumn(cells) |-> Bank!CellAt(cells, R[i], c)]]
    BY <1>2 DEF RowsTell
  <2> HIDE DEF rows, last
  <2>3. DOMAIN rows = 1 .. n /\ Len(rows) = n
    BY <2>2
  <2> QED
    BY <2>1, <2>2, <2>3
<1>4. Bank!Parse(f.sheet).transactions = IF header = 0 THEN <<>> ELSE Bank!Picked(all, kept)
  BY DEF Bank!Parse
<1>5. CASE movements = <<>> /\ \A r \in 1 .. last : ~Bank!IsHeading(cells, r)
  <2>1. header = 0
    BY <1>1, <1>2, <1>5, HeaderFound
  <2> QED
    BY <1>4, <1>5, <2>1
<1>6. ASSUME NEW h, NEW line, LaidOut(cells, movements, h, line)
      PROVE  Bank!Parse(f.sheet).transactions = movements
  <2>0. /\ h \in 1 .. last /\ h <= HeaderScanRows /\ Bank!IsHeading(cells, h)
        /\ \A r \in 1 .. h - 1 : ~Bank!IsHeading(cells, r)
        /\ \A k \in Bank!ColumnKeys : \A c, d \in Bank!Headings(cells, h, k) : c = d
        /\ line \in [1 .. Len(movements) -> h + 1 .. last]
        /\ \A i, j \in DOMAIN line : i < j => line[i] < line[j]
        /\ \A i \in DOMAIN line : Bank!Tells(cells, h, line[i], movements[i])
        /\ \A r \in h + 1 .. last : (\A i \in DOMAIN line : line[i] # r) =>
             \/ Bank!Under(cells, h, r, "date").date = NULL
             \/ \A k \in {"amount", "withdrawal", "deposit"} :
                  Bank!Under(cells, h, r, k).num = NULL
    BY <1>6 DEF LaidOut
  <2>1. header \in 1 .. n /\ R[header] = h
    BY <1>1, <1>2, <2>0, HeaderFound
  <2>2. ASSUME NEW i \in 1 .. n PROVE all[i] = ReadUnder(cells, h, R[i])
    <3>1. Bank!Transaction(rows[i], columns) = ReadUnder(cells, R[header], R[i])
      BY <1>1, <1>2, <2>0, <2>1, TransactionIs
    <3> HIDE DEF columns, header, rows
    <3> QED
      BY <1>3, <2>1, <3>1
  <2> DEFINE N == Len(movements)
  <2>3. movements \in [1 .. N -> ToSet(movements)] /\ N \in Nat /\ DOMAIN line = 1 .. N
    BY <2>0 DEF Statement
  <2> HIDE DEF header, rows, columns, all, last, cells
  <2>4. ASSUME NEW j \in 1 .. N
        PROVE  \E i \in 1 .. n : R[i] = line[j]
    <3>1. <<line[j], CHOOSE c \in Bank!Headings(cells, h, "date") : TRUE>> \in DOMAIN cells
      BY <2>0, <2>3, MovementRead
    <3> DEFINE at == <<line[j], CHOOSE c \in Bank!Headings(cells, h, "date") : TRUE>>
    <3>2. at[1] = line[j]
      OBVIOUS
    <3>3. at \in DOMAIN cells
      BY <3>1
    <3> HIDE DEF at
    <3> QED
      BY <1>3, <3>2, <3>3
  <2> DEFINE p == [j \in 1 .. N |-> CHOOSE i \in 1 .. n : R[i] = line[j]]
  <2>5. \A j \in 1 .. N : p[j] \in 1 .. n /\ R[p[j]] = line[j]
    BY <2>4
  <2> HIDE DEF p
  <2>6. ASSUME NEW i \in 1 .. n, NEW k \in 1 .. n, R[i] < R[k] PROVE i < k
    BY <1>3, <2>6
  <2>7. ASSUME NEW j \in 1 .. N
        PROVE  all[p[j]] = movements[j] /\ p[j] \in kept
    <3>1. Bank!Tells(cells, h, line[j], movements[j])
      BY <2>0, <2>3
    <3>2. /\ ReadUnder(cells, h, line[j]) = movements[j]
          /\ movements[j].date # NULL /\ movements[j].amount # NULL
      BY <3>1, MovementRead
    <3>3. all[p[j]] = movements[j]
      BY <2>2, <2>5, <3>2
    <3>4. line[j] \in h + 1 .. last
      BY <2>0, <2>3
    <3>5. header < p[j]
      <4>1. R[header] < R[p[j]]
        BY <1>3, <2>1, <2>5, <3>4
      <4> QED
        BY <2>1, <2>5, <2>6, <4>1
    <3>6. p[j] \in header + 1 .. Len(rows)
      BY <1>3, <2>1, <2>5, <3>5
    <3> QED
      BY <3>2, <3>3, <3>6
  <2>8. ASSUME NEW i \in kept PROVE \E j \in 1 .. N : p[j] = i
    <3>1. i \in 1 .. n /\ header < i /\ all[i].date # NULL /\ all[i].amount # NULL
      BY <1>3, <2>1
    <3>2. R[i] \in h + 1 .. last
      <4>1. R[header] < R[i]
        BY <1>3, <2>1, <3>1
      <4> QED
        BY <1>3, <2>1, <3>1, <4>1
    <3>3. PICK j \in 1 .. N : line[j] = R[i]
      <4> SUFFICES ASSUME \A j \in DOMAIN line : line[j] # R[i] PROVE FALSE
        BY <2>3
      <4>1. \/ Bank!Under(cells, h, R[i], "date").date = NULL
            \/ \A k \in {"amount", "withdrawal", "deposit"} :
                 Bank!Under(cells, h, R[i], k).num = NULL
        BY <2>0, <3>2
      <4>2. all[i].date = NULL \/ all[i].amount = NULL
        BY <2>2, <3>1, <4>1, OtherUnread
      <4> QED
        BY <3>1, <4>2
    <3>4. p[j] \in 1 .. n /\ R[p[j]] = R[i]
      BY <2>5, <3>3
    <3>5. ~(p[j] < i) /\ ~(i < p[j])
      BY <1>3, <3>1, <3>4
    <3>6. p[j] = i
      BY <1>3, <3>1, <3>4, <3>5
    <3> QED
      BY <3>6
  <2>9. Rising(p, N, kept)
    <3>1. ASSUME NEW i \in 1 .. N, NEW j \in 1 .. N, i < j PROVE p[i] < p[j]
      <4>1. line[i] < line[j]
        BY <2>0, <2>3, <3>1
      <4> QED
        BY <2>5, <2>6, <4>1
    <3>2. p = [j \in 1 .. N |-> p[j]]
      BY DEF p
    <3>3. p \in [1 .. N -> kept]
      BY <2>7, <3>2
    <3> HIDE DEF kept
    <3> QED
      BY <2>3, <2>8, <3>1, <3>3 DEF Rising
  <2>10. kept \subseteq Int
    BY <1>3, <2>1
  <2>11. header # 0
    BY <2>1
  <2> HIDE DEF kept
  <2>12. Upward(kept) = p
    BY <2>9, <2>10, UpwardIs
  <2>13. Bank!Picked(all, kept) = [j \in 1 .. N |-> all[p[j]]]
    <3>1. DOMAIN p = 1 .. N
      BY DEF p
    <3>2. Bank!Picked(all, kept) = [j \in DOMAIN p |-> all[p[j]]]
      BY <2>12, SamePicked DEF Picked
    <3> QED
      BY <3>1, <3>2
  <2>14. [j \in 1 .. N |-> all[p[j]]] = [j \in 1 .. N |-> movements[j]]
    BY <2>7
  <2>15. [j \in 1 .. N |-> movements[j]] = movements
    BY <2>3
  <2> QED
    BY <1>4, <2>11, <2>13, <2>14, <2>15
<1>7. \/ movements = <<>> /\ \A r \in 1 .. last : ~Bank!IsHeading(cells, r)
      \/ \E h, line : LaidOut(cells, movements, h, line)
  BY <1>1, Layouts
<1> QED
  BY <1>5, <1>6, <1>7

-----------------------------------------------------------------------------
(* Ledgers.                                                                 *)

\* The evidences of a ledger: records of these types, none of which was created
\* with another one.
Written(E) ==
  /\ IsFiniteSet(E)
  /\ \A e \in E : /\ e.id \in Evidences /\ e.date \in Int \cup {NULL} /\ e.created_at \in Nat
                  /\ e.amount \in Int \cup {NULL} /\ e.refund \in BOOLEAN
  /\ \A e, f \in E : e # f => e.id # f.id /\ e.created_at # f.created_at

\* Some of the evidences of a ledger are such, too.
LEMMA WrittenSome ==
  ASSUME NEW E, Written(E), NEW D \in SUBSET E
  PROVE  Written(D)
<1>1. IsFiniteSet(D)
  BY FS_Subset DEF Written
<1> QED
  BY <1>1 DEF Written

IncomeOf(E) == [e \in E |-> Book!Income(e)]
ExpenseOf(E) == [e \in E |-> Book!Expense(e)]

\* The income and the expense of an evidence are numbers.
LEMMA SumsInt ==
  ASSUME NEW E, Written(E), NEW e \in E
  PROVE  /\ IncomeOf(E)[e] = Book!Income(e) /\ ExpenseOf(E)[e] = Book!Expense(e)
         /\ Book!Income(e) \in Int /\ Book!Expense(e) \in Int
BY DEF Written, IncomeOf, ExpenseOf, Book!Income, Book!Expense

\* The sums of Ledger, and those of Documents.
LEMMA BookIncome ==
  ASSUME NEW E, IsFiniteSet(E)
  PROVE  Book!MapThenSumSet(Book!Income, E) = SumOf(IncomeOf(E), E)
<1> DEFINE Step(g) == [s \in SUBSET E |-> IF s = {} THEN 0
                        ELSE LET x == CHOOSE x \in s : TRUE IN Book!Income(x) + g[s \ {x}]]
           it == CHOOSE g : g = Step(g)
<1>1. Book!MapThenSumSet(Book!Income, E) = it[E]
  BY DEF Book!MapThenSumSet, Book!MapThenFoldSet
<1>2. ASSUME NEW g PROVE g = Step(g) <=> IsFold(g, E, IncomeOf(E))
  <2>1. \A s \in SUBSET E : s # {} => IncomeOf(E)[AnyOf(s)] = Book!Income(AnyOf(s))
    BY AnyOfIn DEF IncomeOf
  <2>2. [s \in SUBSET E |-> IF s = {} THEN 0 ELSE IncomeOf(E)[AnyOf(s)] + g[s \ {AnyOf(s)}]]
      = [s \in SUBSET E |-> IF s = {} THEN 0 ELSE Book!Income(AnyOf(s)) + g[s \ {AnyOf(s)}]]
    BY <2>1
  <2> QED
    BY <2>2 DEF IsFold, AnyOf
<1> HIDE DEF Step
<1>3. it = Step(it)
  BY <1>2, FoldExists
<1>4. SumOf(IncomeOf(E), E) = it[E]
  BY <1>2, <1>3, FoldSum
<1> QED
  BY <1>1, <1>4

LEMMA BookExpense ==
  ASSUME NEW E, IsFiniteSet(E)
  PROVE  Book!MapThenSumSet(Book!Expense, E) = SumOf(ExpenseOf(E), E)
<1> DEFINE Step(g) == [s \in SUBSET E |-> IF s = {} THEN 0
                        ELSE LET x == CHOOSE x \in s : TRUE IN Book!Expense(x) + g[s \ {x}]]
           it == CHOOSE g : g = Step(g)
<1>1. Book!MapThenSumSet(Book!Expense, E) = it[E]
  BY DEF Book!MapThenSumSet, Book!MapThenFoldSet
<1>2. ASSUME NEW g PROVE g = Step(g) <=> IsFold(g, E, ExpenseOf(E))
  <2>1. \A s \in SUBSET E : s # {} => ExpenseOf(E)[AnyOf(s)] = Book!Expense(AnyOf(s))
    BY AnyOfIn DEF ExpenseOf
  <2>2. [s \in SUBSET E |-> IF s = {} THEN 0 ELSE ExpenseOf(E)[AnyOf(s)] + g[s \ {AnyOf(s)}]]
      = [s \in SUBSET E |-> IF s = {} THEN 0 ELSE Book!Expense(AnyOf(s)) + g[s \ {AnyOf(s)}]]
    BY <2>1
  <2> QED
    BY <2>2 DEF IsFold, AnyOf
<1> HIDE DEF Step
<1>3. it = Step(it)
  BY <1>2, FoldExists
<1>4. SumOf(ExpenseOf(E), E) = it[E]
  BY <1>2, <1>3, FoldSum
<1> QED
  BY <1>1, <1>4

\* Ledger sums as Documents does.
LEMMA SameSums ==
  /\ \A E : MapThenSumSet(Book!Income, E) = Book!MapThenSumSet(Book!Income, E)
  /\ \A E : MapThenSumSet(Book!Expense, E) = Book!MapThenSumSet(Book!Expense, E)
BY DEF MapThenSumSet, MapThenFoldSet, Book!MapThenSumSet, Book!MapThenFoldSet

-----------------------------------------------------------------------------
(* The order of a month.                                                    *)

\* The evidences by date, as pairs.
Earlier(es) == {p \in es \X es : Book!ByDate(p[1], p[2])}

\* A pair of them is in the relation if ByDate holds.
LEMMA EarlierIs ==
  ASSUME NEW es
  PROVE  \A e, f \in es : <<e, f>> \in Earlier(es) <=> Book!ByDate(e, f)
BY DEF Earlier

\* (date, NULLs last, created_at) puts no two evidences together.
LEMMA EarlierOrders ==
  ASSUME NEW es, Written(es)
  PROVE  Orders(Earlier(es), es)
<1>0. NULL \notin Int
  BY NullNoNumber
<1>1. \A e, f \in es : e = f \/ Book!ByDate(e, f) \/ Book!ByDate(f, e)
  BY <1>0 DEF Written, Book!ByDate
<1>2. \A e, f \in es : Book!ByDate(e, f) => ~Book!ByDate(f, e)
  BY <1>0 DEF Written, Book!ByDate
<1>3. \A e, f, g \in es : Book!ByDate(e, f) /\ Book!ByDate(f, g) => Book!ByDate(e, g)
  BY <1>0 DEF Written, Book!ByDate
<1> QED
  BY <1>1, <1>2, <1>3, EarlierIs DEF Orders

\* The first one of each group.
LEMMA FirstIs ==
  ASSUME NEW es, Written(es), NEW e \in es
  PROVE  /\ Book!FirstOf(es, e) \in es
         /\ Book!FirstOf(es, e).group = e.group
         /\ \A g \in es : g.group = e.group =>
              g = Book!FirstOf(es, e) \/ Book!ByDate(Book!FirstOf(es, e), g)
<1> DEFINE G == Book!GroupOf(es, e)
           first(f) == \A g \in G \ {f} : Book!ByDate(f, g)
<1>0. \A g : g \in G <=> g \in es /\ g.group = e.group
  BY DEF Book!GroupOf
<1>1. IsFiniteSet(G) /\ G # {} /\ G \subseteq es
  <2>1. IsFiniteSet(es)
    BY DEF Written
  <2>2. G # {} /\ G \subseteq es
    BY <1>0
  <2> HIDE DEF G
  <2> QED
    BY <2>1, <2>2, FS_Subset
<1>2. Book!FirstOf(es, e) = CHOOSE f \in G : first(f)
  BY DEF Book!FirstOf
<1> HIDE DEF G
<1>3. Orders(Earlier(es), G)
  BY <1>1, EarlierOrders DEF Orders
<1>4. \E f \in G : \A g \in G \ {f} : <<f, g>> \in Earlier(es)
  BY <1>1, <1>3, FirstExists
<1>5. \E f \in G : first(f)
  BY <1>1, <1>4, EarlierIs
<1> HIDE DEF first
<1>6. Book!FirstOf(es, e) \in G /\ first(Book!FirstOf(es, e))
  BY <1>2, <1>5
<1> QED
  BY <1>0, <1>6 DEF first

\* Two evidences have the same first one if they are of the same group.
LEMMA FirstSame ==
  ASSUME NEW es, Written(es), NEW e \in es, NEW f \in es
  PROVE  Book!FirstOf(es, e) = Book!FirstOf(es, f) <=> e.group = f.group
<1>1. ASSUME e.group = f.group PROVE Book!FirstOf(es, e) = Book!FirstOf(es, f)
  <2>1. Book!GroupOf(es, e) = Book!GroupOf(es, f)
    BY <1>1 DEF Book!GroupOf
  <2> QED
    BY <2>1 DEF Book!FirstOf
<1> QED
  BY <1>1, FirstIs

\* The parts of a pair.
LEMMA PairIs ==
  ASSUME NEW S, NEW T, NEW x \in S \X T
  PROVE  x = <<x[1], x[2]>> /\ x[1] \in S /\ x[2] \in T
OBVIOUS

\* Truth values that imply each other are one.
LEMMA TruthIs ==
  ASSUME NEW a \in BOOLEAN, NEW b \in BOOLEAN, a <=> b
  PROVE  a = b
OBVIOUS

\* The lines of a month, from the top.
Down(es) == {p \in Book!Lines(es) \X Book!Lines(es) : Book!Above(es, p[1], p[2])}

\* A line is an evidence or the subtotal below the first one of a group.
LEMMA LineIs ==
  ASSUME NEW es, Written(es), NEW x \in Book!Lines(es)
  PROVE  /\ x = <<x[1], x[2]>> /\ x[1] \in es /\ x[2] \in BOOLEAN
         /\ x[2] => x[1] = Book!FirstOf(es, x[1]) /\ Book!Labelled(es)
<1>1. CASE x \in es \X {FALSE}
  <2>1. x = <<x[1], x[2]>> /\ x[1] \in es /\ x[2] \in {FALSE}
    BY <1>1, PairIs
  <2> QED
    BY <2>1
<1>2. CASE x \in {Book!FirstOf(es, e) : e \in es} \X {TRUE} /\ Book!Labelled(es)
  <2> DEFINE F == {Book!FirstOf(es, e) : e \in es}
             T == {TRUE}
  <2>0. x = <<x[1], x[2]>> /\ x[1] \in F /\ x[2] \in T
    <3>1. x \in F \X T
      BY <1>2
    <3> HIDE DEF F, T
    <3> QED
      BY <3>1, PairIs
  <2>1. PICK e \in es : x[1] = Book!FirstOf(es, e)
    BY <2>0
  <2>2. /\ Book!FirstOf(es, e) \in es
        /\ Book!FirstOf(es, Book!FirstOf(es, e)) = Book!FirstOf(es, e)
    BY FirstIs, FirstSame
  <2> QED
    BY <1>2, <2>0, <2>1, <2>2, Zenon
<1>3. \/ x \in es \X {FALSE}
      \/ Book!Labelled(es) /\ x \in {Book!FirstOf(es, e) : e \in es} \X {TRUE}
  BY DEF Book!Lines
<1> QED
  BY <1>1, <1>2, <1>3

\* A month has finitely many lines.
LEMMA LinesFinite ==
  ASSUME NEW es, Written(es)
  PROVE  IsFiniteSet(Book!Lines(es))
<1> DEFINE one == [e \in es |-> <<e, FALSE>>]
           two == [e \in es |-> <<Book!FirstOf(es, e), TRUE>>]
           S == {one[e] : e \in es}
           T == {two[e] : e \in es}
<1>1. IsFiniteSet(S) /\ IsFiniteSet(T)
  <2>1. IsFiniteSet(es)
    BY DEF Written
  <2> HIDE DEF one, two
  <2> QED
    BY <2>1, ImageFinite
<1>2. Book!Lines(es) \subseteq S \cup T
  <2>1. ASSUME NEW x \in es \X {FALSE} PROVE x \in S
    <3>1. x = <<x[1], x[2]>> /\ x[1] \in es /\ x[2] \in {FALSE}
      BY PairIs
    <3>2. x = one[x[1]]
      BY <3>1, Zenon
    <3> QED
      BY <3>1, <3>2
  <2>2. ASSUME NEW x \in {Book!FirstOf(es, e) : e \in es} \X {TRUE} PROVE x \in T
    <3> DEFINE F == {Book!FirstOf(es, e) : e \in es}
               Yes == {TRUE}
    <3>1. x = <<x[1], x[2]>> /\ x[1] \in F /\ x[2] \in Yes
      <4>1. x \in F \X Yes
        OBVIOUS
      <4> HIDE DEF F, Yes
      <4> QED
        BY <4>1, PairIs
    <3>2. PICK e \in es : x[1] = Book!FirstOf(es, e)
      BY <3>1
    <3>3. x = two[e]
      BY <3>1, <3>2, Zenon
    <3> QED
      BY <3>3
  <2> HIDE DEF S, T
  <2> QED
    BY <2>1, <2>2 DEF Book!Lines
<1> HIDE DEF S, T
<1> QED
  BY <1>1, <1>2, FS_Union, FS_Subset

\* Above puts no two lines together: groups by their first evidences, the
\* evidences of a group by date, its subtotal below them.
LEMMA DownOrders ==
  ASSUME NEW es, Written(es)
  PROVE  Orders(Down(es), Book!Lines(es))
<1> DEFINE L == Book!Lines(es)
           first(x) == Book!FirstOf(es, x[1])
           up(x, y) == \/ first(x) # first(y) /\ Book!ByDate(first(x), first(y))
                       \/ first(x) = first(y) /\ ~x[2] /\ (y[2] \/ Book!ByDate(x[1], y[1]))
<1>1. \A x, y \in L : <<x, y>> \in Down(es) <=> up(x, y)
  BY DEF Down, Book!Above
<1>2. \A x \in L : /\ x = <<x[1], x[2]>> /\ x[1] \in es /\ x[2] \in BOOLEAN /\ first(x) \in es
                   /\ x[2] => x[1] = first(x)
  BY LineIs, FirstIs
<1>3. /\ \A e, f \in es : e = f \/ Book!ByDate(e, f) \/ Book!ByDate(f, e)
      /\ \A e, f \in es : Book!ByDate(e, f) => ~Book!ByDate(f, e)
      /\ \A e, f, g \in es : Book!ByDate(e, f) /\ Book!ByDate(f, g) => Book!ByDate(e, g)
  BY EarlierOrders, EarlierIs DEF Orders
<1> HIDE DEF first, L
<1>4. ASSUME NEW x \in L, NEW y \in L PROVE x = y \/ up(x, y) \/ up(y, x)
  <2>0. x[2] \in BOOLEAN /\ y[2] \in BOOLEAN
    BY <1>2
  <2>1. CASE first(x) # first(y)
    BY <1>2, <1>3, <2>1
  <2>2. CASE first(x) = first(y)
    <3>1. CASE x[2] /\ y[2]
      <4>1. x[1] = y[1]
        BY <1>2, <2>2, <3>1
      <4>2. x[2] = y[2]
        BY <2>0, <3>1, TruthIs
      <4> QED
        BY <1>2, <4>1, <4>2, Zenon
    <3>2. CASE ~x[2] /\ ~y[2]
      <4>1. x[1] \in es /\ y[1] \in es
        BY <1>2
      <4>2. x[2] = y[2]
        BY <2>0, <3>2, TruthIs
      <4>3. CASE x[1] = y[1]
        BY <1>2, <4>2, <4>3, Zenon
      <4>4. CASE x[1] # y[1]
        BY <1>3, <2>2, <3>2, <4>1, <4>4, Zenon
      <4> QED
        BY <4>3, <4>4
    <3>3. CASE ~(x[2] <=> y[2])
      BY <2>2, <3>3
    <3> HIDE DEF up
    <3> QED
      BY <3>1, <3>2, <3>3
  <2> QED
    BY <2>1, <2>2
<1>5. ASSUME NEW x \in L, NEW y \in L, up(x, y) PROVE ~up(y, x)
  BY <1>2, <1>3, <1>5
<1>6. ASSUME NEW x \in L, NEW y \in L, NEW z \in L, up(x, y), up(y, z) PROVE up(x, z)
  <2>1. /\ x[1] \in es /\ y[1] \in es /\ z[1] \in es
        /\ first(x) \in es /\ first(y) \in es /\ first(z) \in es
    BY <1>2
  <2>2. CASE first(x) # first(y) /\ first(y) # first(z)
    BY <1>3, <1>6, <2>1, <2>2
  <2>3. CASE first(x) = first(y) /\ first(y) # first(z)
    BY <1>3, <1>6, <2>1, <2>3
  <2>4. CASE first(x) # first(y) /\ first(y) = first(z)
    BY <1>3, <1>6, <2>1, <2>4
  <2>5. CASE first(x) = first(y) /\ first(y) = first(z)
    BY <1>3, <1>6, <2>1, <2>5
  <2> QED
    BY <2>2, <2>3, <2>4, <2>5
<1> HIDE DEF up
<1> QED
  BY <1>1, <1>4, <1>5, <1>6 DEF Orders, L

\* The evidences of a month, from the top.
EvidencesDown(es) == {p \in es \X es : Book!Above(es, <<p[1], FALSE>>, <<p[2], FALSE>>)}

\* A pair of evidences is in the relation if Above holds of their lines.
LEMMA EvidencesDownIs ==
  ASSUME NEW es
  PROVE  \A e, f \in es : <<e, f>> \in EvidencesDown(es)
           <=> Book!Above(es, <<e, FALSE>>, <<f, FALSE>>)
BY DEF EvidencesDown

\* The evidences of a month stand in the order of their lines.
LEMMA EvidencesOrder ==
  ASSUME NEW es, Written(es)
  PROVE  /\ Orders(EvidencesDown(es), es)
         /\ \A e, f \in es : <<e, f>> \in EvidencesDown(es)
              <=> <<<<e, FALSE>>, <<f, FALSE>>>> \in Down(es)
<1> DEFINE line(e) == <<e, FALSE>>
<1>1. \A e \in es : line(e) \in Book!Lines(es)
  BY DEF Book!Lines
<1>2. \A e, f \in es : line(e) = line(f) => e = f
  OBVIOUS
<1>3. \A x, y \in Book!Lines(es) : <<x, y>> \in Down(es) <=> Book!Above(es, x, y)
  BY DEF Down
<1>4. \A e, f \in es : <<e, f>> \in EvidencesDown(es) <=> Book!Above(es, line(e), line(f))
  BY EvidencesDownIs
<1> HIDE DEF line
<1>5. \A e, f \in es : <<e, f>> \in EvidencesDown(es) <=> <<line(e), line(f)>> \in Down(es)
  BY <1>1, <1>3, <1>4
<1>6. Orders(EvidencesDown(es), es)
  BY <1>1, <1>2, <1>5, DownOrders DEF Orders
<1> QED
  BY <1>5, <1>6 DEF line

\* A group stands together, its evidences by date.
LEMMA GroupsTogether ==
  ASSUME NEW es, Written(es), NEW e \in es, NEW f \in es,
         <<e, f>> \in EvidencesDown(es), e.group = f.group
  PROVE  /\ Book!ByDate(e, f)
         /\ \A g \in es : (g = e \/ <<e, g>> \in EvidencesDown(es))
                /\ (g = f \/ <<g, f>> \in EvidencesDown(es)) => g.group = e.group
<1> DEFINE first(x) == Book!FirstOf(es, x)
           up(x, y) == \/ first(x) # first(y) /\ Book!ByDate(first(x), first(y))
                       \/ first(x) = first(y) /\ Book!ByDate(x, y)
<1>1. ASSUME NEW x \in es, NEW y \in es
      PROVE  <<x, y>> \in EvidencesDown(es) <=> up(x, y)
  <2> DEFINE a == <<x, FALSE>>
             b == <<y, FALSE>>
  <2>1. a[1] = x /\ b[1] = y /\ a[2] = FALSE /\ b[2] = FALSE
    OBVIOUS
  <2>2. <<x, y>> \in EvidencesDown(es) <=> Book!Above(es, a, b)
    BY EvidencesDownIs
  <2> HIDE DEF a, b
  <2>3. ~a[2] /\ ~b[2]
    BY <2>1
  <2> QED
    BY <2>1, <2>2, <2>3 DEF Book!Above
<1>2. \A x, y \in es : first(x) \in es /\ (first(x) = first(y) <=> x.group = y.group)
  BY FirstIs, FirstSame
<1>3. \A x, y \in es : Book!ByDate(x, y) => ~Book!ByDate(y, x)
  BY EarlierOrders, EarlierIs DEF Orders
<1> HIDE DEF first
<1>4. Book!ByDate(e, f)
  BY <1>1, <1>2
<1>5. ASSUME NEW g \in es, g = e \/ <<e, g>> \in EvidencesDown(es),
             g = f \/ <<g, f>> \in EvidencesDown(es)
      PROVE  g.group = e.group
  BY <1>1, <1>2, <1>3, <1>5
<1> QED
  BY <1>4, <1>5

\* The lines that are evidences list these.
EvidencesIn(ev, es, lines, P) ==
  /\ Lists(ev, Cardinality(es), es, EvidencesDown(es))
  /\ DOMAIN Upward(P) = 1 .. Cardinality(es)
  /\ \A k \in 1 .. Cardinality(es) :
       Upward(P)[k] \in P /\ lines[Upward(P)[k]] = <<ev[k], FALSE>>

\* The evidences are listed by the places of their lines.
LEMMA EvidencesListed ==
  ASSUME NEW es, Written(es), NEW lines, NEW N, Lists(lines, N, Book!Lines(es), Down(es)),
         NEW P, P = {n \in 1 .. N : ~lines[n][2]}
  PROVE  \E ev : EvidencesIn(ev, es, lines, P)
<1> DEFINE K == Cardinality(P)
           U == Upward(P)
           ev == [k \in 1 .. K |-> lines[U[k]][1]]
<1>0. N \in Nat /\ lines \in [1 .. N -> Book!Lines(es)]
  BY DEF Lists
<1>1. IsFiniteSet(P) /\ P \subseteq 1 .. N /\ P \subseteq Int
  <2>1. P \subseteq 1 .. N /\ IsFiniteSet(1 .. N)
    BY <1>0, FS_Interval
  <2> QED
    BY <1>0, <2>1, FS_Subset
<1>2. Rising(U, K, P)
  BY <1>1, UpwardRises
<1> HIDE DEF U, K
<1>3. K \in Nat /\ U \in [1 .. K -> P]
  BY <1>2 DEF Rising
<1>4. \A n \in P : lines[n] = <<lines[n][1], FALSE>> /\ lines[n][1] \in es
  <2> TAKE n \in P
  <2>1. n \in 1 .. N /\ ~lines[n][2]
    OBVIOUS
  <2>2. lines[n] \in Book!Lines(es)
    BY <1>0, <2>1
  <2>3. /\ lines[n] = <<lines[n][1], lines[n][2]>> /\ lines[n][1] \in es
        /\ lines[n][2] \in BOOLEAN
    BY <2>2, LineIs
  <2>4. lines[n][2] = FALSE
    BY <2>1, <2>3, TruthIs
  <2> QED
    BY <2>3, <2>4
<1>5. \A k \in 1 .. K : U[k] \in P /\ lines[U[k]] = <<ev[k], FALSE>> /\ ev[k] \in es
  BY <1>3, <1>4
<1>6. ASSUME NEW e \in es PROVE \E k \in 1 .. K : ev[k] = e
  <2>1. <<e, FALSE>> \in Book!Lines(es)
    BY DEF Book!Lines
  <2>2. PICK n \in 1 .. N : lines[n] = <<e, FALSE>>
    BY <2>1 DEF Lists
  <2>3. n \in P
    <3>1. lines[n][2] = FALSE
      BY <2>2
    <3>2. ~lines[n][2]
      BY <3>1
    <3> QED
      BY <3>2
  <2>4. PICK k \in 1 .. K : U[k] = n
    BY <1>2, <2>3 DEF Rising
  <2>5. ev[k] = e
    BY <2>2, <2>4
  <2> QED
    BY <2>5
<1>7. ASSUME NEW i \in 1 .. K, NEW j \in 1 .. K, i < j
      PROVE  <<ev[i], ev[j]>> \in EvidencesDown(es)
  <2>1. U[i] < U[j] /\ U[i] \in 1 .. N /\ U[j] \in 1 .. N
    BY <1>1, <1>2, <1>3, <1>7 DEF Rising
  <2>2. <<lines[U[i]], lines[U[j]]>> \in Down(es)
    BY <2>1 DEF Lists
  <2>3. <<<<ev[i], FALSE>>, <<ev[j], FALSE>>>> \in Down(es)
    BY <1>5, <2>2, Zenon
  <2>4. ev[i] \in es /\ ev[j] \in es
    BY <1>5
  <2> HIDE DEF ev
  <2> QED
    BY <2>3, <2>4, EvidencesOrder
<1>8. ev \in [1 .. K -> es]
  BY <1>5
<1> HIDE DEF ev
<1>9. Lists(ev, K, es, EvidencesDown(es))
  BY <1>3, <1>6, <1>7, <1>8 DEF Lists
<1>10. Cardinality(es) = K
  BY <1>9, EvidencesOrder, OrderedIs
<1>11. DOMAIN U = 1 .. Cardinality(es)
  BY <1>3, <1>10
<1>12. Lists(ev, Cardinality(es), es, EvidencesDown(es))
  BY <1>9, <1>10
<1>13. \A k \in 1 .. Cardinality(es) : U[k] \in P /\ lines[U[k]] = <<ev[k], FALSE>>
  BY <1>5, <1>10
<1>14. EvidencesIn(ev, es, lines, P)
  BY <1>11, <1>12, <1>13 DEF EvidencesIn, U
<1> QED
  BY <1>14

\* Those that are subtotals list the first evidences of the groups.
GroupsListed(g, M, es, lines, Q) ==
  /\ M \in Nat /\ g \in [1 .. M -> es] /\ DOMAIN Upward(Q) = 1 .. M
  /\ \A k \in 1 .. M : /\ Upward(Q)[k] \in Q
                       /\ lines[Upward(Q)[k]] = <<g[k], TRUE>>
                       /\ Book!FirstOf(es, g[k]) = g[k]
  /\ \A i, j \in 1 .. M : g[i] = g[j] => i = j
  /\ M # 0 => \A e \in es : \E k \in 1 .. M : g[k] = Book!FirstOf(es, e)

\* The groups are listed by the places of their subtotals.
LEMMA SubtotalsListed ==
  ASSUME NEW es, Written(es), NEW lines, NEW N, Lists(lines, N, Book!Lines(es), Down(es)),
         NEW Q, Q = {n \in 1 .. N : lines[n][2]}
  PROVE  \E g, M : GroupsListed(g, M, es, lines, Q)
<1> DEFINE M == Cardinality(Q)
           U == Upward(Q)
           g == [k \in 1 .. M |-> lines[U[k]][1]]
<1>0. N \in Nat /\ lines \in [1 .. N -> Book!Lines(es)]
  BY DEF Lists
<1>1. IsFiniteSet(Q) /\ Q \subseteq 1 .. N /\ Q \subseteq Int
  <2>1. Q \subseteq 1 .. N /\ IsFiniteSet(1 .. N)
    BY <1>0, FS_Interval
  <2> QED
    BY <1>0, <2>1, FS_Subset
<1>2. Rising(U, M, Q)
  BY <1>1, UpwardRises
<1> HIDE DEF U, M
<1>3. M \in Nat /\ U \in [1 .. M -> Q]
  BY <1>2 DEF Rising
<1>4. \A n \in Q : /\ lines[n] = <<lines[n][1], TRUE>> /\ lines[n][1] \in es
                   /\ Book!FirstOf(es, lines[n][1]) = lines[n][1] /\ Book!Labelled(es)
  <2> TAKE n \in Q
  <2>1. n \in 1 .. N /\ lines[n][2]
    OBVIOUS
  <2>2. lines[n] \in Book!Lines(es)
    BY <1>0, <2>1
  <2>3. /\ lines[n] = <<lines[n][1], lines[n][2]>> /\ lines[n][1] \in es
        /\ lines[n][2] \in BOOLEAN
        /\ Book!FirstOf(es, lines[n][1]) = lines[n][1] /\ Book!Labelled(es)
    BY <2>1, <2>2, LineIs
  <2>4. lines[n][2] = TRUE
    BY <2>1, <2>3, TruthIs
  <2> QED
    BY <2>3, <2>4
<1>5. \A k \in 1 .. M : /\ U[k] \in Q /\ lines[U[k]] = <<g[k], TRUE>> /\ g[k] \in es
                        /\ Book!FirstOf(es, g[k]) = g[k]
  BY <1>3, <1>4
<1>6. ASSUME NEW i \in 1 .. M, NEW j \in 1 .. M, g[i] = g[j] PROVE i = j
  <2>1. lines[U[i]] = lines[U[j]]
    <3>1. lines[U[i]] = <<g[i], TRUE>> /\ lines[U[j]] = <<g[j], TRUE>>
      BY <1>5
    <3> HIDE DEF g
    <3> QED
      BY <1>6, <3>1
  <2>2. U[i] \in 1 .. N /\ U[j] \in 1 .. N
    BY <1>1, <1>3
  <2>3. U[i] = U[j]
    BY <2>1, <2>2, DownOrders, ListsOnce
  <2>4. ~(i < j) /\ ~(j < i)
    BY <1>1, <1>2, <2>2, <2>3 DEF Rising
  <2> QED
    BY <1>3, <2>4
<1>7. ASSUME M # 0, NEW e \in es PROVE \E k \in 1 .. M : g[k] = Book!FirstOf(es, e)
  <2>1. Book!Labelled(es)
    <3>1. 1 \in 1 .. M
      BY <1>3, <1>7
    <3>2. U[1] \in Q
      BY <1>3, <3>1
    <3> QED
      BY <1>4, <3>2
  <2>2. <<Book!FirstOf(es, e), TRUE>> \in Book!Lines(es)
    BY <2>1 DEF Book!Lines
  <2>3. PICK n \in 1 .. N : lines[n] = <<Book!FirstOf(es, e), TRUE>>
    BY <2>2 DEF Lists
  <2>4. n \in Q
    <3>1. lines[n][2] = TRUE
      BY <2>3
    <3>2. lines[n][2]
      BY <3>1
    <3> QED
      BY <3>2
  <2>5. PICK k \in 1 .. M : U[k] = n
    BY <1>2, <2>4 DEF Rising
  <2>6. g[k] = Book!FirstOf(es, e)
    BY <2>3, <2>5
  <2> QED
    BY <2>6
<1>8. g \in [1 .. M -> es]
  BY <1>5
<1> HIDE DEF g
<1>9. DOMAIN U = 1 .. M
  BY <1>3
<1>10. GroupsListed(g, M, es, lines, Q)
  BY <1>3, <1>5, <1>6, <1>7, <1>8, <1>9 DEF GroupsListed, U
<1> QED
  BY <1>10

-----------------------------------------------------------------------------
(* The rows of a month.                                                     *)

\* What some of the evidences come to.
LEMMA SumsWithin ==
  ASSUME NEW E, Written(E), NEW D \in SUBSET E
  PROVE  /\ Book!MapThenSumSet(Book!Income, D) = SumOf(IncomeOf(E), D)
         /\ Book!MapThenSumSet(Book!Expense, D) = SumOf(ExpenseOf(E), D)
         /\ SumOf(IncomeOf(E), D) \in Int /\ SumOf(ExpenseOf(E), D) \in Int
<1>1. IsFiniteSet(D)
  BY FS_Subset DEF Written
<1>2. \A e \in D : IncomeOf(E)[e] \in Int /\ ExpenseOf(E)[e] \in Int
  BY SumsInt
<1>3. \A e \in D : IncomeOf(D)[e] = IncomeOf(E)[e] /\ ExpenseOf(D)[e] = ExpenseOf(E)[e]
  BY DEF IncomeOf, ExpenseOf
<1>4. /\ SumOf(IncomeOf(D), D) = SumOf(IncomeOf(E), D)
      /\ SumOf(ExpenseOf(D), D) = SumOf(ExpenseOf(E), D)
  BY <1>1, <1>2, <1>3, SumSame
<1>5. SumOf(IncomeOf(E), D) \in Int /\ SumOf(ExpenseOf(E), D) \in Int
  BY <1>1, <1>2, SumType
<1> QED
  BY <1>1, <1>4, <1>5, BookIncome, BookExpense

\* An evidence and those above it.
DownTo(es, e) == Preceding(es, EvidencesDown(es), e) \cup {e}

\* A row that says of what it is holds something.
LEMMA SomethingHeld == ASSUME NEW f, "of" \in DOMAIN f PROVE f # <<>>
OBVIOUS

\* The row of an evidence has its number and the balance down to it.
LEMMA EvidenceRowSays ==
  ASSUME NEW es, Written(es), NEW e \in es, NEW columns, NEW row,
         row = Book!EvidenceRow(columns, es, e)
  PROVE  /\ row.closes = NULL /\ row.holds # <<>> /\ row.holds.of = e.id
         /\ "receipt" \in DOMAIN row.holds => row.holds.receipt = Cardinality(DownTo(es, e))
         /\ "balance" \in columns =>
              row.holds.balance =
                SumOf(IncomeOf(es), DownTo(es, e)) - SumOf(ExpenseOf(es), DownTo(es, e))
<1> DEFINE done == {f \in es : f = e \/ Book!Above(es, <<f, FALSE>>, <<e, FALSE>>)}
           values ==
             [of |-> e.id, date |-> e.date,
              category |-> IF ~Book!Labelled(es) THEN "budget category"
                           ELSE IF e # Book!FirstOf(es, e) THEN "same group"
                           ELSE IF e.group = NULL THEN "ungrouped" ELSE e.group,
              item |-> e.id, income |-> Book!OrNone(Book!Income(e)),
              expense |-> Book!OrNone(Book!Expense(e)),
              balance |-> Book!MapThenSumSet(Book!Income, done)
                            - Book!MapThenSumSet(Book!Expense, done),
              memo |-> NULL, receipt |-> Book!Cardinality(done)]
<1>1. done = DownTo(es, e) /\ done \in SUBSET es
  BY EvidencesDownIs DEF DownTo, Preceding
<1>2. row = Book!Written(columns, values)
  BY DEF Book!EvidenceRow
<1>3. /\ DOMAIN values = {"of", "date", "category", "item", "income", "expense", "balance",
                          "memo", "receipt"}
      /\ values.of = e.id /\ values.receipt = Book!Cardinality(done)
      /\ values.balance = Book!MapThenSumSet(Book!Income, done)
                            - Book!MapThenSumSet(Book!Expense, done)
  OBVIOUS
<1> HIDE DEF values, done
<1>4. /\ row.closes = NULL
      /\ row.holds = [k \in (columns \cap DOMAIN values) \cup {"of"} |-> values[k]]
  BY <1>2 DEF Book!Written
<1>5. row.holds.of = e.id /\ row.holds # <<>>
  BY <1>3, <1>4, SomethingHeld
<1>6. Book!Cardinality(done) = Cardinality(done)
  BY DEF Book!Cardinality, Cardinality
<1>7. "receipt" \in DOMAIN row.holds => row.holds.receipt = Cardinality(DownTo(es, e))
  BY <1>1, <1>3, <1>4, <1>6
<1>8. "balance" \in columns => row.holds.balance =
        Book!MapThenSumSet(Book!Income, done) - Book!MapThenSumSet(Book!Expense, done)
  BY <1>3, <1>4
<1>9. /\ Book!MapThenSumSet(Book!Income, done) = SumOf(IncomeOf(es), DownTo(es, e))
      /\ Book!MapThenSumSet(Book!Expense, done) = SumOf(ExpenseOf(es), DownTo(es, e))
  BY <1>1, SumsWithin
<1> QED
  BY <1>4, <1>5, <1>7, <1>8, <1>9

\* The row of a group has what its evidences come to.
LEMMA SubtotalRowSays ==
  ASSUME NEW es, Written(es), NEW group \in SUBSET es, NEW label, NEW columns, NEW row,
         {"income", "expense"} \subseteq columns,
         row = Book!SubtotalRow(columns, group, label)
  PROVE  /\ row.closes = NULL /\ row.holds # <<>> /\ row.holds.of = NULL
         /\ row.holds.income = SumOf(IncomeOf(es), group)
         /\ row.holds.expense = SumOf(ExpenseOf(es), group)
<1> DEFINE values ==
             [of |-> NULL, item |-> label, income |-> Book!MapThenSumSet(Book!Income, group),
              expense |-> Book!MapThenSumSet(Book!Expense, group)]
<1>1. row = Book!Written(columns, values)
  BY DEF Book!SubtotalRow
<1>2. /\ DOMAIN values = {"of", "item", "income", "expense"}
      /\ values.of = NULL
      /\ values.income = Book!MapThenSumSet(Book!Income, group)
      /\ values.expense = Book!MapThenSumSet(Book!Expense, group)
  OBVIOUS
<1> HIDE DEF values
<1>3. /\ row.closes = NULL
      /\ row.holds = [k \in (columns \cap DOMAIN values) \cup {"of"} |-> values[k]]
  BY <1>1 DEF Book!Written
<1>4. row.holds.of = NULL /\ row.holds # <<>>
  BY <1>2, <1>3, SomethingHeld
<1>5. /\ row.holds.income = Book!MapThenSumSet(Book!Income, group)
      /\ row.holds.expense = Book!MapThenSumSet(Book!Expense, group)
  BY <1>2, <1>3
<1> QED
  BY <1>3, <1>4, <1>5, SumsWithin

\* The settlement row of a month.
Settled(columns, es) ==
  Book!Written(columns,
    [of |-> NULL, income |-> Book!MapThenSumSet(Book!Income, es),
     expense |-> Book!MapThenSumSet(Book!Expense, es),
     balance |-> Book!MapThenSumSet(Book!Income, es)
                   - Book!MapThenSumSet(Book!Expense, es)]).holds

\* The settlement row has what the month comes to.
LEMMA SettledSays ==
  ASSUME NEW es, Written(es), NEW columns, {"income", "expense"} \subseteq columns, NEW close,
         close = Settled(columns, es)
  PROVE  /\ close.income = SumOf(IncomeOf(es), es) /\ close.expense = SumOf(ExpenseOf(es), es)
         /\ "balance" \in DOMAIN close =>
              /\ "balance" \in columns
              /\ close.balance = SumOf(IncomeOf(es), es) - SumOf(ExpenseOf(es), es)
<1> DEFINE in == Book!MapThenSumSet(Book!Income, es)
           out == Book!MapThenSumSet(Book!Expense, es)
           values == [of |-> NULL, income |-> in, expense |-> out, balance |-> in - out]
<1>1. close = [k \in (columns \cap DOMAIN values) \cup {"of"} |-> values[k]]
  BY DEF Settled, Book!Written
<1>2. /\ DOMAIN values = {"of", "income", "expense", "balance"}
      /\ values.income = in /\ values.expense = out /\ values.balance = in - out
  OBVIOUS
<1> HIDE DEF values, in, out
<1>3. /\ close.income = in /\ close.expense = out
      /\ "balance" \in DOMAIN close => "balance" \in columns /\ close.balance = in - out
  BY <1>1, <1>2
<1>4. in = SumOf(IncomeOf(es), es) /\ out = SumOf(ExpenseOf(es), es)
  BY SumsWithin DEF in, out
<1> QED
  BY <1>3, <1>4

\* The rows that are written, in their order.
LEMMA MonthRowsAre ==
  ASSUME NEW es, Written(es), NEW columns
  PROVE  \E lines, N :
           /\ Lists(lines, N, Book!Lines(es), Down(es))
           /\ Book!MonthRows(columns, es) =
                [n \in 1 .. N |->
                   IF lines[n][2]
                   THEN Book!SubtotalRow(columns, Book!GroupOf(es, lines[n][1]),
                                         lines[n][1].group)
                   ELSE Book!EvidenceRow(columns, es, lines[n][1])]
<1> DEFINE N == Cardinality(Book!Lines(es))
           lines == Ordered(Book!Lines(es), Down(es))
<1>1. Lists(lines, N, Book!Lines(es), Down(es))
  BY LinesFinite, DownOrders, OrderedLists
<1>2. Book!Ordered(Book!Lines(es), {p \in Book!Lines(es) \X Book!Lines(es) :
                                      Book!Above(es, p[1], p[2])}) = lines
  BY SameOrdered DEF Down
<1>3. DOMAIN lines = 1 .. N
  BY <1>1 DEF Lists
<1> HIDE DEF lines, N
<1>4. Book!MonthRows(columns, es) =
        [n \in DOMAIN lines |->
           IF lines[n][2]
           THEN Book!SubtotalRow(columns, Book!GroupOf(es, lines[n][1]), lines[n][1].group)
           ELSE Book!EvidenceRow(columns, es, lines[n][1])]
  BY <1>2 DEF Book!MonthRows
<1> QED
  BY <1>1, <1>3, <1>4

\* A column of rows, and its sum.
Column(rows, D, k) == [n \in D |-> rows[n].holds[k]]
TotalOf(rows, k) == MapThenSumSet(LAMBDA n : rows[n].holds[k], DOMAIN rows)

\* It is a sum over the rows.
LEMMA TotalIs ==
  ASSUME NEW rows, NEW D, D = DOMAIN rows, IsFiniteSet(D), NEW k
  PROVE  TotalOf(rows, k) = SumOf(Column(rows, D, k), D)
<1> DEFINE f == [n \in D |-> rows[n].holds[k]]
           Step(g) == [s \in SUBSET D |-> IF s = {} THEN 0
                        ELSE LET x == CHOOSE x \in s : TRUE IN rows[x].holds[k] + g[s \ {x}]]
           it == CHOOSE g : g = Step(g)
<1>1. TotalOf(rows, k) = it[D]
  BY DEF TotalOf, MapThenSumSet, MapThenFoldSet
<1>2. ASSUME NEW g PROVE g = Step(g) <=> IsFold(g, D, f)
  <2>1. \A s \in SUBSET D : s # {} => f[AnyOf(s)] = rows[AnyOf(s)].holds[k]
    BY AnyOfIn
  <2>2. [s \in SUBSET D |-> IF s = {} THEN 0 ELSE f[AnyOf(s)] + g[s \ {AnyOf(s)}]]
      = [s \in SUBSET D |-> IF s = {} THEN 0 ELSE rows[AnyOf(s)].holds[k] + g[s \ {AnyOf(s)}]]
    BY <2>1
  <2> HIDE DEF f
  <2> QED
    BY <2>2 DEF IsFold, AnyOf
<1> HIDE DEF Step, f
<1>3. it = Step(it)
  BY <1>2, FoldExists
<1>4. SumOf(f, D) = it[D]
  BY <1>2, <1>3, FoldSum
<1> QED
  BY <1>1, <1>4 DEF f, Column

\* The subtotals come to the sums of the month.
LEMMA SubtotalsAdd ==
  ASSUME NEW es, Written(es), NEW g, NEW M, NEW lines, NEW Q,
         GroupsListed(g, M, es, lines, Q), M # 0,
         NEW f, \A e \in es : f[e] \in Int,
         NEW h, \A k \in 1 .. M : h[k] = SumOf(f, Book!GroupOf(es, g[k]))
  PROVE  SumOf(h, 1 .. M) = SumOf(f, es)
<1> DEFINE key == [e \in es |-> CHOOSE k \in 1 .. M : g[k] = Book!FirstOf(es, e)]
<1>1. /\ M \in Nat /\ g \in [1 .. M -> es]
      /\ \A k \in 1 .. M : Book!FirstOf(es, g[k]) = g[k]
      /\ \A i, j \in 1 .. M : g[i] = g[j] => i = j
      /\ \A e \in es : \E k \in 1 .. M : g[k] = Book!FirstOf(es, e)
  BY DEF GroupsListed
<1>2. \A e \in es : key[e] \in 1 .. M /\ g[key[e]] = Book!FirstOf(es, e)
  BY <1>1
<1> HIDE DEF key
<1>3. ASSUME NEW k \in 1 .. M PROVE PartOf(es, key, k) = Book!GroupOf(es, g[k])
  <2>1. ASSUME NEW e \in es PROVE key[e] = k <=> e.group = g[k].group
    <3>1. key[e] = k <=> Book!FirstOf(es, e) = Book!FirstOf(es, g[k])
      BY <1>1, <1>2
    <3>2. g[k] \in es
      BY <1>1
    <3> QED
      BY <3>1, <3>2, FirstSame
  <2> QED
    BY <2>1 DEF PartOf, Book!GroupOf
<1>4. \A k \in 1 .. M : h[k] = SumOf(f, PartOf(es, key, k))
  BY <1>3
<1>5. IsFiniteSet(es) /\ IsFiniteSet(1 .. M)
  BY <1>1, FS_Interval DEF Written
<1> DEFINE places == 1 .. M
<1>6. /\ \A e \in es : key[e] \in places
      /\ \A k \in places : h[k] = SumOf(f, PartOf(es, key, k))
  BY <1>2, <1>4
<1> HIDE DEF places
<1>7. IsFiniteSet(places)
  BY <1>5 DEF places
<1>8. SumOf(h, places) = SumOf(f, es)
  BY <1>5, <1>6, <1>7, SumOfParts
<1> QED
  BY <1>8 DEF places

\* What is written for a month tells it.
LEMMA MonthTold ==
  ASSUME NEW es, Written(es), es # {}, NEW columns, {"income", "expense"} \subseteq columns,
         NEW ev, Lists(ev, Cardinality(es), es, EvidencesDown(es)),
         NEW g, NEW M, NEW lines, NEW Q, GroupsListed(g, M, es, lines, Q),
         NEW rows,
         rows = [k \in 1 .. Cardinality(es) |-> Book!EvidenceRow(columns, es, ev[k])],
         NEW subtotals,
         subtotals = [k \in 1 .. M |-> Book!SubtotalRow(columns, Book!GroupOf(es, g[k]),
                                                        g[k].group)],
         NEW close, close = Settled(columns, es)
  PROVE  SectionTells(es, rows, subtotals, close)
<1> DEFINE K == Cardinality(es)
           Row(n) == CHOOSE e \in es : e.id = rows[n].holds.of
           Total(k) == TotalOf(subtotals, k)
           in == SumOf(IncomeOf(es), es)
           out == SumOf(ExpenseOf(es), es)
<1>0. K \in Nat /\ K # 0 /\ IsFiniteSet(es)
  BY FS_CardinalityType, FS_EmptySet DEF Written
<1>1. /\ ev \in [1 .. K -> es] /\ Orders(EvidencesDown(es), es)
      /\ \A e \in es : \E k \in 1 .. K : ev[k] = e
      /\ \A i, j \in 1 .. K : i < j => <<ev[i], ev[j]>> \in EvidencesDown(es)
  BY EvidencesOrder DEF Lists
<1>2. ASSUME NEW k \in 1 .. K
      PROVE  /\ DownTo(es, ev[k]) = {ev[j] : j \in 1 .. k}
             /\ Cardinality(DownTo(es, ev[k])) = k
  <2> DEFINE above == Preceding(es, EvidencesDown(es), ev[k])
  <2>1. /\ above = {ev[j] : j \in 1 .. k - 1}
        /\ IsFiniteSet(above) /\ Cardinality(above) = k - 1
    <3>1. Lists(ev, K, es, EvidencesDown(es)) /\ Orders(EvidencesDown(es), es)
      BY <1>1
    <3> HIDE DEF K
    <3> QED
      BY <3>1, ListsBefore
  <2>2. ev[k] \notin above
    BY <1>1 DEF Preceding, Orders
  <2>3. \A x : x \in above <=> \E j \in 1 .. k - 1 : ev[j] = x
    BY <2>1
  <2> HIDE DEF above
  <2>4. Cardinality(above \cup {ev[k]}) = k
    <3>1. Cardinality(above \cup {ev[k]}) = Cardinality(above) + 1
      BY <2>1, <2>2, FS_AddElement
    <3> QED
      BY <1>0, <2>1, <3>1
  <2>5. DownTo(es, ev[k]) = above \cup {ev[k]}
    BY DEF DownTo, above
  <2>6. above \cup {ev[k]} = {ev[j] : j \in 1 .. k}
    <3>1. \A x : x \in {ev[j] : j \in 1 .. k} <=> x = ev[k] \/ \E j \in 1 .. k - 1 : ev[j] = x
      BY <1>0
    <3> QED
      BY <2>3, <3>1
  <2> QED
    BY <2>4, <2>5, <2>6
<1>3. ASSUME NEW k \in 1 .. K
      PROVE  /\ rows[k].holds.of = ev[k].id
             /\ "receipt" \in DOMAIN rows[k].holds => rows[k].holds.receipt = k
             /\ "balance" \in columns =>
                  rows[k].holds.balance =
                    SumOf(IncomeOf(es), DownTo(es, ev[k])) - SumOf(ExpenseOf(es), DownTo(es, ev[k]))
  <2>1. rows[k] = Book!EvidenceRow(columns, es, ev[k]) /\ ev[k] \in es
    BY <1>1
  <2> QED
    BY <1>2, <2>1, EvidenceRowSays
<1>4. DOMAIN rows = 1 .. K /\ Len(rows) = K
  BY <1>0
<1>5. DOMAIN subtotals = 1 .. M /\ M \in Nat
  BY DEF GroupsListed
<1>6. {rows[n].holds.of : n \in DOMAIN rows} = {e.id : e \in es}
  BY <1>1, <1>3, <1>4
<1>7. \A k \in 1 .. K : Row(k) = ev[k]
  BY <1>1, <1>3 DEF Written
<1>8. ASSUME NEW m \in 1 .. K, NEW n \in 1 .. K, m < n, Row(m).group = Row(n).group
      PROVE  /\ \A k \in m .. n : Row(k).group = Row(m).group
             /\ Row(m).date # NULL /\ Row(n).date # NULL => Row(m).date <= Row(n).date
  <2>1. /\ ev[m] \in es /\ ev[n] \in es /\ <<ev[m], ev[n]>> \in EvidencesDown(es)
        /\ ev[m].group = ev[n].group
    BY <1>1, <1>7, <1>8
  <2>2. ASSUME NEW k \in m .. n PROVE ev[k].group = ev[m].group
    <3>1. k \in 1 .. K
      BY <1>0
    <3>2. /\ ev[k] \in es
          /\ k = m \/ <<ev[m], ev[k]>> \in EvidencesDown(es)
          /\ k = n \/ <<ev[k], ev[n]>> \in EvidencesDown(es)
      BY <1>0, <1>1, <3>1
    <3> QED
      BY <2>1, <3>2, GroupsTogether
  <2>3. Book!ByDate(ev[m], ev[n])
    BY <2>1, GroupsTogether
  <2>4. ev[m].date \in Int \cup {NULL} /\ ev[n].date \in Int \cup {NULL}
    BY <2>1 DEF Written
  <2>5. ev[m].date # NULL /\ ev[n].date # NULL => ev[m].date <= ev[n].date
    BY <2>3, <2>4 DEF Book!ByDate
  <2>6. \A k \in m .. n : k \in 1 .. K /\ Row(k) = ev[k]
    BY <1>0, <1>7
  <2> HIDE DEF Row
  <2> QED
    BY <1>7, <2>2, <2>5, <2>6
<1>9. /\ close.income = in /\ close.expense = out
      /\ "balance" \in DOMAIN close => "balance" \in columns /\ close.balance = in - out
  BY SettledSays
<1>10. /\ MapThenSumSet(Book!Income, es) = in /\ MapThenSumSet(Book!Expense, es) = out
       /\ in \in Int /\ out \in Int
  <2>1. es \in SUBSET es
    OBVIOUS
  <2> QED
    BY <2>1, SumsWithin, SameSums
<1>11. "balance" \in columns => rows[K].holds.balance = in - out
  <2>1. K \in 1 .. K
    BY <1>0
  <2>2. DownTo(es, ev[K]) = es
    BY <1>1, <1>2, <2>1
  <2> QED
    BY <1>3, <2>1, <2>2
<1>12. ASSUME subtotals # <<>> PROVE Total("income") = in /\ Total("expense") = out
  <2>1. M # 0
    <3> SUFFICES ASSUME M = 0 PROVE FALSE
      OBVIOUS
    <3>1. subtotals = <<>>
      BY <1>5
    <3> QED
      BY <1>12, <3>1
  <2>2. ASSUME NEW k \in 1 .. M
        PROVE  /\ subtotals[k].holds.income = SumOf(IncomeOf(es), Book!GroupOf(es, g[k]))
               /\ subtotals[k].holds.expense = SumOf(ExpenseOf(es), Book!GroupOf(es, g[k]))
    <3>1. subtotals[k] = Book!SubtotalRow(columns, Book!GroupOf(es, g[k]), g[k].group)
      OBVIOUS
    <3>2. Book!GroupOf(es, g[k]) \in SUBSET es
      BY DEF Book!GroupOf
    <3> QED
      BY <3>1, <3>2, SubtotalRowSays
  <2> DEFINE income == [n \in 1 .. M |-> subtotals[n].holds["income"]]
             expense == [n \in 1 .. M |-> subtotals[n].holds["expense"]]
  <2>3. \A k \in 1 .. M :
          /\ income[k] = SumOf(IncomeOf(es), Book!GroupOf(es, g[k]))
          /\ expense[k] = SumOf(ExpenseOf(es), Book!GroupOf(es, g[k]))
    BY <2>2
  <2>4. IsFiniteSet(1 .. M)
    BY <1>5, FS_Interval
  <2>5. Total("income") = SumOf(income, 1 .. M) /\ Total("expense") = SumOf(expense, 1 .. M)
    <3> DEFINE places == 1 .. M
    <3>1. DOMAIN subtotals = places
      BY <1>5
    <3>2. IsFiniteSet(places)
      BY <2>4
    <3>3. /\ Total("income") = TotalOf(subtotals, "income")
          /\ Total("expense") = TotalOf(subtotals, "expense")
      OBVIOUS
    <3> HIDE DEF places, Total
    <3>4. \A k : TotalOf(subtotals, k) = SumOf(Column(subtotals, places, k), places)
      BY <3>1, <3>2, TotalIs
    <3> QED
      BY <3>3, <3>4 DEF places, Column
  <2> HIDE DEF income, expense, Total
  <2>6. \A e \in es : IncomeOf(es)[e] \in Int /\ ExpenseOf(es)[e] \in Int
    BY SumsInt
  <2>7. SumOf(income, 1 .. M) = in /\ SumOf(expense, 1 .. M) = out
    BY <2>1, <2>3, <2>6, SubtotalsAdd
  <2> QED
    BY <2>5, <2>7
<1> HIDE DEF Row, Total
<1>13. /\ Len(rows) = Cardinality(es)
       /\ {rows[n].holds.of : n \in DOMAIN rows} = {e.id : e \in es}
       /\ \A n \in DOMAIN rows :
            "receipt" \in DOMAIN rows[n].holds => rows[n].holds.receipt = n
  BY <1>3, <1>4, <1>6
<1>14. \A m, n \in DOMAIN rows : m < n /\ Row(m).group = Row(n).group =>
         /\ \A k \in m .. n : Row(k).group = Row(m).group
         /\ Row(m).date # NULL /\ Row(n).date # NULL => Row(m).date <= Row(n).date
  BY <1>4, <1>8
<1>15. /\ close.income = MapThenSumSet(Book!Income, es)
       /\ close.expense = MapThenSumSet(Book!Expense, es)
       /\ "balance" \in DOMAIN close =>
            /\ close.balance = close.income - close.expense
            /\ rows[Len(rows)].holds.balance = close.balance
       /\ subtotals # <<>> => Total("income") = close.income /\ Total("expense") = close.expense
  BY <1>4, <1>9, <1>10, <1>11, <1>12
<1> QED
  BY <1>13, <1>14, <1>15 DEF SectionTells, Row, Total, TotalOf

\* Rows that were written, and close no month.
WrittenRows(rows, n) ==
  /\ n \in Nat /\ rows = [q \in 1 .. n |-> rows[q]]
  /\ \A q \in 1 .. n : rows[q].closes = NULL /\ rows[q].holds # <<>>

\* MonthRows are such rows, and tell the month with its settlement row.
LEMMA MonthTells ==
  ASSUME NEW es, Written(es), es # {}, NEW columns, {"income", "expense"} \subseteq columns,
         NEW rows, rows = Book!MonthRows(columns, es)
  PROVE  /\ \E N : WrittenRows(rows, N)
         /\ SectionTells(es, Picked(rows, {n \in DOMAIN rows : rows[n].holds.of # NULL}),
                         Picked(rows, {n \in DOMAIN rows : rows[n].holds.of = NULL}),
                         Settled(columns, es))
<1>1. PICK lines, N :
        /\ Lists(lines, N, Book!Lines(es), Down(es))
        /\ rows = [n \in 1 .. N |->
                     IF lines[n][2]
                     THEN Book!SubtotalRow(columns, Book!GroupOf(es, lines[n][1]),
                                           lines[n][1].group)
                     ELSE Book!EvidenceRow(columns, es, lines[n][1])]
  BY MonthRowsAre
<1> DEFINE P == {n \in 1 .. N : ~lines[n][2]}
           Q == {n \in 1 .. N : lines[n][2]}
           K == Cardinality(es)
<1>2. DOMAIN rows = 1 .. N /\ N \in Nat
  BY <1>1 DEF Lists
<1>3. ASSUME NEW n \in 1 .. N PROVE lines[n][1] \in es
  <2>1. lines[n] \in Book!Lines(es)
    BY <1>1 DEF Lists
  <2> QED
    BY <2>1, LineIs
<1>4. ASSUME NEW n \in P
      PROVE  /\ rows[n] = Book!EvidenceRow(columns, es, lines[n][1])
             /\ rows[n].closes = NULL /\ rows[n].holds # <<>> /\ rows[n].holds.of # NULL
  <2>1. rows[n] = Book!EvidenceRow(columns, es, lines[n][1])
    BY <1>1
  <2>2. lines[n][1] \in es /\ lines[n][1].id # NULL
    BY <1>3, RecordsAssumption DEF Written
  <2> QED
    BY <2>1, <2>2, EvidenceRowSays
<1> HIDE DEF P, Q, K
<1>5. ASSUME NEW n \in Q
      PROVE  /\ rows[n] = Book!SubtotalRow(columns, Book!GroupOf(es, lines[n][1]),
                                           lines[n][1].group)
             /\ rows[n].closes = NULL /\ rows[n].holds # <<>> /\ rows[n].holds.of = NULL
  <2>1. rows[n] = Book!SubtotalRow(columns, Book!GroupOf(es, lines[n][1]), lines[n][1].group)
    BY <1>1 DEF Q
  <2>2. Book!GroupOf(es, lines[n][1]) \in SUBSET es
    BY DEF Book!GroupOf
  <2> QED
    BY <2>1, <2>2, SubtotalRowSays
<1>6. \A n \in 1 .. N : n \in P \/ n \in Q
  BY DEF P, Q
<1>7. P \subseteq 1 .. N /\ Q \subseteq 1 .. N
  BY DEF P, Q
<1>8. PICK ev : EvidencesIn(ev, es, lines, P)
  <2>1. P = {n \in 1 .. N : ~lines[n][2]}
    BY DEF P
  <2> QED
    BY <1>1, <2>1, EvidencesListed
<1>9. /\ Lists(ev, K, es, EvidencesDown(es))
       /\ DOMAIN Upward(P) = 1 .. K
       /\ \A k \in 1 .. K : Upward(P)[k] \in P /\ lines[Upward(P)[k]] = <<ev[k], FALSE>>
  BY <1>8 DEF EvidencesIn, K
<1>10. PICK g, M : GroupsListed(g, M, es, lines, Q)
  <2>1. Q = {n \in 1 .. N : lines[n][2]}
    BY DEF Q
  <2> QED
    BY <1>1, <2>1, SubtotalsListed
<1>11. /\ {n \in DOMAIN rows : rows[n].holds.of # NULL} = P
       /\ {n \in DOMAIN rows : rows[n].holds.of = NULL} = Q
  BY <1>2, <1>4, <1>5, <1>6, <1>7
<1>12. Picked(rows, P) = [k \in 1 .. K |-> Book!EvidenceRow(columns, es, ev[k])]
  <2>1. ASSUME NEW k \in 1 .. K
        PROVE  rows[Upward(P)[k]] = Book!EvidenceRow(columns, es, ev[k])
    <3>1. rows[Upward(P)[k]] = Book!EvidenceRow(columns, es, lines[Upward(P)[k]][1])
      BY <1>4, <1>9
    <3>2. lines[Upward(P)[k]][1] = ev[k]
      <4>1. lines[Upward(P)[k]] = <<ev[k], FALSE>>
        BY <1>9
      <4> QED
        BY <4>1
    <3> QED
      BY <3>1, <3>2
  <2> QED
    BY <1>9, <2>1 DEF Picked
<1>13. Picked(rows, Q) =
         [k \in 1 .. M |-> Book!SubtotalRow(columns, Book!GroupOf(es, g[k]), g[k].group)]
  <2>1. ASSUME NEW k \in 1 .. M
        PROVE  rows[Upward(Q)[k]] = Book!SubtotalRow(columns, Book!GroupOf(es, g[k]), g[k].group)
    <3>0. Upward(Q)[k] \in Q /\ lines[Upward(Q)[k]] = <<g[k], TRUE>>
      BY <1>10 DEF GroupsListed
    <3>1. rows[Upward(Q)[k]] =
            Book!SubtotalRow(columns, Book!GroupOf(es, lines[Upward(Q)[k]][1]),
                             lines[Upward(Q)[k]][1].group)
      BY <1>5, <3>0
    <3>2. lines[Upward(Q)[k]][1] = g[k]
      BY <3>0
    <3> QED
      BY <3>1, <3>2
  <2>2. DOMAIN Upward(Q) = 1 .. M
    BY <1>10 DEF GroupsListed
  <2> QED
    BY <2>1, <2>2 DEF Picked
<1>14. SectionTells(es, Picked(rows, P), Picked(rows, Q), Settled(columns, es))
  BY <1>9, <1>10, <1>12, <1>13, MonthTold DEF K
<1>15. \A n \in 1 .. N : rows[n].closes = NULL /\ rows[n].holds # <<>>
  BY <1>4, <1>5, <1>6
<1>16. WrittenRows(rows, N)
  <2>1. rows = [n \in 1 .. N |-> rows[n]]
    BY <1>1
  <2> QED
    BY <1>2, <1>15, <2>1 DEF WrittenRows
<1>17. SectionTells(es, Picked(rows, {n \in DOMAIN rows : rows[n].holds.of # NULL}),
                    Picked(rows, {n \in DOMAIN rows : rows[n].holds.of = NULL}),
                    Settled(columns, es))
  BY <1>11, <1>14
<1> QED
  BY <1>16, <1>17

-----------------------------------------------------------------------------
(* Sequences joined by FlattenSeq.                                          *)

\* g holds the elements of the first n sequences, in their order.
Joins(g, seqs, n, T) ==
  /\ g \in Seq(T)
  /\ \A p \in DOMAIN g : \E i \in 1 .. n : \E k \in DOMAIN seqs[i] : g[p] = seqs[i][k]
  /\ \A i \in 1 .. n : \A k \in DOMAIN seqs[i] : \E p \in DOMAIN g :
       /\ g[p] = seqs[i][k]
       /\ \A q \in DOMAIN g : q < p =>
            \E j \in 1 .. i : \E m \in DOMAIN seqs[j] : g[q] = seqs[j][m] /\ (j < i \/ m < k)

LEMMA JoinsMore ==
  ASSUME NEW T, NEW seqs \in Seq(Seq(T)), NEW n \in Nat, n + 1 \in DOMAIN seqs, NEW g,
         Joins(g, seqs, n, T)
  PROVE  Joins(g \o seqs[n + 1], seqs, n + 1, T)
<1> DEFINE s == seqs[n + 1]
           h == g \o s
<1>1. s \in Seq(T) /\ g \in Seq(T)
  BY DEF Joins
<1> HIDE DEF s
<1>2. /\ h \in Seq(T) /\ Len(h) = Len(g) + Len(s) /\ DOMAIN h = 1 .. Len(h)
      /\ DOMAIN g = 1 .. Len(g) /\ DOMAIN s = 1 .. Len(s)
      /\ Len(g) \in Nat /\ Len(s) \in Nat
      /\ \A p \in 1 .. Len(g) : h[p] = g[p]
      /\ \A k \in 1 .. Len(s) : h[Len(g) + k] = s[k]
  BY <1>1
<1> HIDE DEF h
<1>3. ASSUME NEW p \in DOMAIN h
      PROVE  \/ p \in DOMAIN g /\ h[p] = g[p]
             \/ p > Len(g) /\ p - Len(g) \in DOMAIN s /\ h[p] = s[p - Len(g)]
  <2>1. CASE p <= Len(g)
    BY <1>2, <2>1
  <2>2. CASE p > Len(g)
    <3>1. p - Len(g) \in 1 .. Len(s) /\ Len(g) + (p - Len(g)) = p
      BY <1>2, <2>2
    <3> QED
      BY <1>2, <2>2, <3>1
  <2> QED
    BY <1>2, <2>1, <2>2
<1>4. ASSUME NEW p \in DOMAIN h
      PROVE  \E i \in 1 .. n + 1 : \E k \in DOMAIN seqs[i] : h[p] = seqs[i][k]
  <2>1. CASE p \in DOMAIN g /\ h[p] = g[p]
    <3>1. PICK i \in 1 .. n : \E k \in DOMAIN seqs[i] : g[p] = seqs[i][k]
      BY <2>1, Zenon DEF Joins
    <3>2. i \in 1 .. n + 1
      OBVIOUS
    <3> QED
      BY <2>1, <3>1, <3>2, Zenon
  <2>2. CASE p - Len(g) \in DOMAIN s /\ h[p] = s[p - Len(g)]
    <3>1. n + 1 \in 1 .. n + 1
      OBVIOUS
    <3> QED
      BY <2>2, <3>1, Zenon DEF s
  <2> QED
    BY <1>3, <2>1, <2>2
<1>5. ASSUME NEW i \in 1 .. n + 1, NEW k \in DOMAIN seqs[i]
      PROVE  \E p \in DOMAIN h :
               /\ h[p] = seqs[i][k]
               /\ \A q \in DOMAIN h : q < p =>
                    \E j \in 1 .. i : \E m \in DOMAIN seqs[j] :
                      h[q] = seqs[j][m] /\ (j < i \/ m < k)
  <2>1. CASE i <= n
    <3>1. PICK p \in DOMAIN g :
            /\ g[p] = seqs[i][k]
            /\ \A q \in DOMAIN g : q < p =>
                 \E j \in 1 .. i : \E m \in DOMAIN seqs[j] :
                   g[q] = seqs[j][m] /\ (j < i \/ m < k)
      <4>1. i \in 1 .. n
        BY <2>1
      <4> QED
        BY <4>1 DEF Joins
    <3>2. p \in DOMAIN h /\ h[p] = seqs[i][k]
      BY <1>2, <3>1
    <3>3. \A q \in DOMAIN h : q < p => q \in DOMAIN g /\ h[q] = g[q]
      BY <1>2, <3>1
    <3>4. ASSUME NEW q \in DOMAIN h, q < p
          PROVE  \E j \in 1 .. i : \E m \in DOMAIN seqs[j] :
                   h[q] = seqs[j][m] /\ (j < i \/ m < k)
      <4>1. q \in DOMAIN g /\ h[q] = g[q]
        BY <3>3, <3>4
      <4> QED
        BY <3>1, <3>4, <4>1, Zenon
    <3> QED
      BY <3>2, <3>4, Zenon
  <2>2. CASE i = n + 1
    <3>0. k \in 1 .. Len(s) /\ seqs[i][k] = s[k]
      BY <1>2, <2>2 DEF s
    <3> DEFINE p == Len(g) + k
    <3>1. p \in DOMAIN h /\ h[p] = seqs[i][k]
      BY <1>2, <3>0
    <3>2. ASSUME NEW q \in DOMAIN h, q < p
          PROVE  \E j \in 1 .. i : \E m \in DOMAIN seqs[j] :
                   h[q] = seqs[j][m] /\ (j < i \/ m < k)
      <4>1. CASE q \in DOMAIN g /\ h[q] = g[q]
        <5>1. PICK j \in 1 .. n : \E m \in DOMAIN seqs[j] : g[q] = seqs[j][m]
          BY <4>1, Zenon DEF Joins
        <5>2. j \in 1 .. i /\ j < i
          BY <2>2
        <5> QED
          BY <4>1, <5>1, <5>2, Zenon
      <4>2. CASE q > Len(g) /\ q - Len(g) \in DOMAIN s /\ h[q] = s[q - Len(g)]
        <5>1. q - Len(g) < k /\ i \in 1 .. i
          BY <1>2, <2>2, <3>0, <3>2, <4>2
        <5> QED
          BY <2>2, <4>2, <5>1, Zenon DEF s
      <4> QED
        BY <1>3, <4>1, <4>2
    <3> HIDE DEF p
    <3> QED
      BY <3>1, <3>2
  <2> QED
    BY <2>1, <2>2
<1>6. Joins(h, seqs, n + 1, T)
  BY <1>2, <1>4, <1>5 DEF Joins
<1> QED
  BY <1>6 DEF h, s

\* The function by which FlattenSeq joins sequences.
IsFlat(g, seqs, n) ==
  g = [i \in 1 .. n |-> IF i = 1 THEN seqs[i] ELSE g[i - 1] \o seqs[i]]

LEMMA FlatExists ==
  ASSUME NEW seqs, NEW n \in Nat
  PROVE  \E g : IsFlat(g, seqs, n)
<1> DEFINE Good == {k \in 0 .. n : \E g : IsFlat(g, seqs, k)}
<1>1. 0 \in Good
  <2>1. IsFlat([i \in 1 .. 0 |-> i], seqs, 0)
    BY DEF IsFlat
  <2> QED
    BY <2>1
<1>2. ASSUME NEW k \in 0 .. n - 1, k \in Good PROVE k + 1 \in Good
  <2>1. PICK g : IsFlat(g, seqs, k)
    BY <1>2
  <2> DEFINE h == [i \in 1 .. k + 1 |->
                     IF i \in 1 .. k THEN g[i] ELSE IF i = 1 THEN seqs[i] ELSE g[k] \o seqs[i]]
  <2>2. ASSUME NEW i \in 1 .. k + 1
        PROVE  h[i] = IF i = 1 THEN seqs[i] ELSE h[i - 1] \o seqs[i]
    <3>1. CASE i \in 1 .. k
      <4>1. h[i] = g[i] /\ g[i] = IF i = 1 THEN seqs[i] ELSE g[i - 1] \o seqs[i]
        BY <2>1, <3>1 DEF IsFlat
      <4>2. i # 1 => i - 1 \in 1 .. k /\ i - 1 \in 1 .. k + 1
        BY <3>1
      <4>3. i # 1 => h[i - 1] = g[i - 1]
        BY <4>2
      <4> QED
        BY <4>1, <4>3
    <3>2. CASE i = k + 1 /\ i # 1
      <4>1. i - 1 = k /\ k \in 1 .. k /\ k \in 1 .. k + 1 /\ i \notin 1 .. k
        BY <3>2
      <4> QED
        BY <3>2, <4>1
    <3>3. CASE i = 1 /\ i \notin 1 .. k
      BY <3>3
    <3> QED
      BY <3>1, <3>2, <3>3
  <2>3. h = [i \in 1 .. k + 1 |-> h[i]]
    OBVIOUS
  <2> HIDE DEF h
  <2>4. [i \in 1 .. k + 1 |-> h[i]]
          = [i \in 1 .. k + 1 |-> IF i = 1 THEN seqs[i] ELSE h[i - 1] \o seqs[i]]
    BY <2>2
  <2>5. IsFlat(h, seqs, k + 1)
    BY <2>3, <2>4 DEF IsFlat
  <2>6. k + 1 \in 0 .. n
    OBVIOUS
  <2> QED
    BY <2>5, <2>6
<1> HIDE DEF Good
<1>3. n \in Good
  <2>1. \A k \in 0 .. n : k \in Good
    BY <1>1, <1>2, UpTo
  <2> QED
    BY <2>1
<1> QED
  BY <1>3 DEF Good

LEMMA FlatIs ==
  ASSUME NEW T, NEW seqs \in Seq(Seq(T))
  PROVE  Joins(Reader!Slip!FlattenSeq(seqs), seqs, Len(seqs), T)
<1> DEFINE n == Len(seqs)
<1>0. n \in Nat /\ DOMAIN seqs = 1 .. n /\ \A i \in 1 .. n : seqs[i] \in Seq(T)
  OBVIOUS
<1>1. CASE n = 0
  <2>1. seqs = <<>> /\ DOMAIN seqs = {} /\ seqs \in Seq(T)
    BY <1>1
  <2>2. Reader!Slip!FlattenSeq(seqs) = seqs
    BY <1>1 DEF Reader!Slip!FlattenSeq
  <2>3. Joins(seqs, seqs, n, T)
    <3>1. 1 .. n = {}
      BY <1>1
    <3> QED
      BY <2>1, <3>1 DEF Joins
  <2> QED
    BY <2>2, <2>3
<1>2. CASE n # 0
  <2> DEFINE g == CHOOSE g : IsFlat(g, seqs, n)
  <2>1. IsFlat(g, seqs, n)
    BY <1>0, FlatExists
  <2>2. Reader!Slip!FlattenSeq(seqs) = g[n]
    BY <1>2 DEF Reader!Slip!FlattenSeq, IsFlat
  <2> HIDE DEF g
  <2> DEFINE Good == {k \in 0 .. n : k = 0 \/ Joins(g[k], seqs, k, T)}
  <2>3. Joins(g[1], seqs, 1, T)
    <3>1. Joins(<<>>, seqs, 0, T)
      <4>1. <<>> \in Seq(T) /\ DOMAIN <<>> = {} /\ 1 .. 0 = {}
        OBVIOUS
      <4> QED
        BY <4>1 DEF Joins
    <3>2. 0 + 1 \in DOMAIN seqs
      BY <1>0, <1>2
    <3>3. Joins(<<>> \o seqs[0 + 1], seqs, 0 + 1, T)
      BY <3>1, <3>2, JoinsMore
    <3>4. 1 \in 1 .. n /\ 0 + 1 = 1
      BY <1>0, <1>2
    <3>5. g[1] = seqs[1]
      BY <2>1, <3>4 DEF IsFlat
    <3>6. <<>> \o seqs[1] = seqs[1]
      BY <1>0, <3>4
    <3> QED
      BY <3>3, <3>4, <3>5, <3>6
  <2>4. ASSUME NEW k \in 0 .. n - 1, k \in Good PROVE k + 1 \in Good
    <3>1. k + 1 \in 0 .. n /\ k + 1 \in 1 .. n /\ k \in Nat
      BY <1>0
    <3>2. CASE k = 0
      BY <2>3, <3>1, <3>2
    <3>3. CASE k # 0
      <4>1. Joins(g[k], seqs, k, T)
        BY <2>4, <3>3
      <4>2. k + 1 \in DOMAIN seqs
        BY <1>0, <3>1
      <4>3. Joins(g[k] \o seqs[k + 1], seqs, k + 1, T)
        BY <3>1, <4>1, <4>2, JoinsMore
      <4>4. g[k + 1] = g[k] \o seqs[k + 1]
        <5>1. k + 1 # 1 /\ (k + 1) - 1 = k
          BY <3>1, <3>3
        <5> QED
          BY <2>1, <3>1, <5>1 DEF IsFlat
      <4> QED
        BY <3>1, <4>3, <4>4
    <3> QED
      BY <3>2, <3>3
  <2>5. 0 \in Good
    BY <1>0
  <2> HIDE DEF Good
  <2>6. \A k \in 0 .. n : k \in Good
    BY <1>0, <2>4, <2>5, UpTo
  <2>7. Joins(g[n], seqs, n, T)
    <3>1. n \in 0 .. n
      BY <1>0
    <3> QED
      BY <1>2, <2>6, <3>1 DEF Good
  <2> QED
    BY <2>2, <2>7
<1> QED
  BY <1>1, <1>2

-----------------------------------------------------------------------------
(* The date of a receipt.                                                   *)

LEMMA IfIs == \A c, n : Reader!Slip!If(c, n) = IF c THEN n ELSE 0
BY DEF Reader!Slip!If

\* The numbers of a list have a first highest one.
LEMMA FirstMaxExists ==
  ASSUME NEW n \in Nat, n # 0, NEW key, \A i \in 1 .. n : key[i] \in Int
  PROVE  \E i \in 1 .. n : \A j \in 1 .. n : key[j] < key[i] \/ (key[j] = key[i] /\ i <= j)
<1> DEFINE S == {key[i] : i \in 1 .. n}
<1>1. S \subseteq Int /\ S # {}
  <2>1. 1 \in 1 .. n
    OBVIOUS
  <2> QED
    BY <2>1
<1>2. IsFiniteSet(1 .. n)
  BY FS_Interval
<1>3. IsFiniteSet(S)
  BY <1>2, ImageFinite
<1>4. PICK m \in S : \A x \in S : x <= m
  <2> HIDE DEF S
  <2> QED
    BY <1>1, <1>3, HighestExists
<1> DEFINE P == {i \in 1 .. n : key[i] = m}
<1>5. P \subseteq Int /\ P # {} /\ P \subseteq 1 .. n
  BY <1>4
<1>6. IsFiniteSet(P)
  BY <1>2, <1>5, FS_Subset
<1>7. PICK i \in P : \A x \in P : i <= x
  <2> HIDE DEF P
  <2> QED
    BY <1>5, <1>6, LowestExists
<1>8. ASSUME NEW j \in 1 .. n PROVE key[j] < key[i] \/ (key[j] = key[i] /\ i <= j)
  <2>1. key[j] \in S /\ key[i] = m /\ m \in Int /\ key[j] \in Int
    BY <1>1, <1>4, <1>5, <1>7
  <2>2. key[j] <= m
    BY <1>4, <2>1
  <2>3. key[j] = m => i <= j
    BY <1>7
  <2> QED
    BY <2>1, <2>2, <2>3
<1> QED
  BY <1>5, <1>7, <1>8

Day == [year : Int, day : Int]

\* The notes of a date in the lines of a page.
DateNote == [line : Int, date : Day, labelled : BOOLEAN]

Note(i, date, labelled) == [line |-> i, date |-> date, labelled |-> labelled]

DatesIn(lines, i) ==
  [n \in DOMAIN lines[i].dates |->
     [line |-> i, date |-> lines[i].dates[n], labelled |-> Reader!Slip!Says(lines, i, {"day"})]]

Both(lines, i) == lines[i].dates \o lines[i + 1].dates

DatesOver(lines, i) ==
  IF i + 1 \in DOMAIN lines /\ Reader!Slip!Close(lines, i, i + 1)
  THEN [n \in DOMAIN Both(lines, i) |->
          [line |-> i, date |-> Both(lines, i)[n],
           labelled |-> Reader!Slip!Says(lines, i, {"day"})
                          \/ Reader!Slip!Says(lines, i + 1, {"day"})]]
  ELSE <<>>

DatesAt(lines) == [i \in DOMAIN lines |-> DatesIn(lines, i) \o DatesOver(lines, i)]

LEMMA NotesAre ==
  ASSUME NEW lines
  PROVE  Reader!Slip!DateCandidates(lines) = Reader!Slip!FlattenSeq(DatesAt(lines))
BY DEF Reader!Slip!DateCandidates, DatesAt, DatesIn, DatesOver, Both

\* What is noted at line i.
LEMMA NoteIs ==
  ASSUME NEW lines, Printed(lines), NEW i \in DOMAIN lines
  PROVE  LET own == lines[i].dates
             across == i + 1 \in DOMAIN lines /\ Reader!Slip!Close(lines, i, i + 1)
             day(j) == Reader!Slip!Says(lines, j, {"day"})
             notes == DatesAt(lines)[i]
         IN  /\ notes \in Seq(DateNote)
             /\ own # <<>> => 1 \in DOMAIN notes /\ notes[1] = Note(i, own[1], day(i))
             /\ \A k \in DOMAIN notes :
                  \/ k \in DOMAIN own /\ notes[k] = Note(i, own[k], day(i))
                  \/ /\ across
                     /\ \/ \E n \in DOMAIN own :
                             notes[k] = Note(i, own[n], day(i) \/ day(i + 1))
                        \/ \E n \in DOMAIN lines[i + 1].dates :
                             notes[k] = Note(i, lines[i + 1].dates[n], day(i) \/ day(i + 1))
             /\ across => \A n \in DOMAIN lines[i + 1].dates :
                  \E k \in DOMAIN notes :
                    notes[k] = Note(i, lines[i + 1].dates[n], day(i) \/ day(i + 1))
<1> DEFINE own == lines[i].dates
           next == lines[i + 1].dates
           across == i + 1 \in DOMAIN lines /\ Reader!Slip!Close(lines, i, i + 1)
           day(j) == Reader!Slip!Says(lines, j, {"day"})
           notes == DatesAt(lines)[i]
           A == DatesIn(lines, i)
           B == DatesOver(lines, i)
           both == Both(lines, i)
<1>0. own \in Seq(Day) /\ i \in Int /\ (across => next \in Seq(Day))
  <2>1. i \in Int
    BY DEF Printed
  <2> QED
    BY <2>1 DEF Printed, Day
<1>1. \A j : day(j) \in BOOLEAN
  BY DEF Reader!Slip!Says
<1> HIDE DEF day
<1>2. A = [n \in DOMAIN own |-> Note(i, own[n], day(i))]
  BY DEF DatesIn, Note, day
<1>3. across => both = own \o next
  BY DEF Both
<1>4. B = IF across THEN [n \in DOMAIN both |-> Note(i, both[n], day(i) \/ day(i + 1))] ELSE <<>>
  BY DEF DatesOver, Note, day
<1>5. notes = A \o B
  BY DEF DatesAt
<1> HIDE DEF own, next, across, notes, A, B, both
<1>6. \A date \in Day, l \in BOOLEAN : Note(i, date, l) \in DateNote
  BY <1>0, Zenon DEF Note, DateNote
<1>7. A \in Seq(DateNote) /\ Len(A) = Len(own) /\ DOMAIN A = DOMAIN own
      /\ DOMAIN own = 1 .. Len(own) /\ Len(own) \in Nat
  <2>1. DOMAIN own = 1 .. Len(own) /\ Len(own) \in Nat /\ \A n \in 1 .. Len(own) : own[n] \in Day
    BY <1>0
  <2>2. \A n \in 1 .. Len(own) : Note(i, own[n], day(i)) \in DateNote
    BY <1>1, <1>6, <2>1, Zenon
  <2>3. A = [n \in 1 .. Len(own) |-> Note(i, own[n], day(i))]
    BY <1>2, <2>1
  <2> QED
    BY <2>1, <2>2, <2>3
<1>8. across => /\ DOMAIN both = 1 .. Len(own) + Len(next) /\ Len(next) \in Nat
                /\ DOMAIN next = 1 .. Len(next)
                /\ \A n \in 1 .. Len(own) : both[n] = own[n]
                /\ \A n \in 1 .. Len(own) + Len(next) :
                     n > Len(own) => n - Len(own) \in 1 .. Len(next) /\ both[n] = next[n - Len(own)]
                /\ \A n \in 1 .. Len(next) : both[Len(own) + n] = next[n]
                /\ both \in Seq(Day) /\ Len(both) = Len(own) + Len(next)
  <2> SUFFICES ASSUME across PROVE
                /\ DOMAIN both = 1 .. Len(own) + Len(next) /\ Len(next) \in Nat
                /\ DOMAIN next = 1 .. Len(next)
                /\ \A n \in 1 .. Len(own) : both[n] = own[n]
                /\ \A n \in 1 .. Len(own) + Len(next) :
                     n > Len(own) => n - Len(own) \in 1 .. Len(next) /\ both[n] = next[n - Len(own)]
                /\ \A n \in 1 .. Len(next) : both[Len(own) + n] = next[n]
                /\ both \in Seq(Day) /\ Len(both) = Len(own) + Len(next)
    BY Zenon
  <2>1. own \in Seq(Day) /\ next \in Seq(Day) /\ both = own \o next
    BY <1>0, <1>3
  <2>2. Len(next) \in Nat /\ DOMAIN next = 1 .. Len(next) /\ Len(own) \in Nat
    BY <2>1
  <2>3. /\ DOMAIN both = 1 .. Len(own) + Len(next)
        /\ both \in Seq(Day) /\ Len(both) = Len(own) + Len(next)
    BY <2>1
  <2>4. \A n \in 1 .. Len(own) : both[n] = own[n]
    BY <2>1
  <2>5. \A n \in 1 .. Len(next) : both[Len(own) + n] = next[n]
    BY <2>1
  <2>6. ASSUME NEW n \in 1 .. Len(own) + Len(next), n > Len(own)
        PROVE  n - Len(own) \in 1 .. Len(next) /\ both[n] = next[n - Len(own)]
    <3>1. n - Len(own) \in 1 .. Len(next) /\ Len(own) + (n - Len(own)) = n
      BY <2>2, <2>6
    <3>2. both[Len(own) + (n - Len(own))] = next[n - Len(own)]
      BY <2>5, <3>1
    <3> QED
      BY <3>1, <3>2
  <2>7. \A n \in 1 .. Len(own) + Len(next) :
          n > Len(own) => n - Len(own) \in 1 .. Len(next) /\ both[n] = next[n - Len(own)]
    BY <2>6
  <2> QED
    BY <2>2, <2>3, <2>4, <2>5, <2>7, Zenon
<1>9. B \in Seq(DateNote)
  <2>1. CASE across
    <3>1. both \in Seq(Day) /\ DOMAIN both = 1 .. Len(both) /\ Len(both) \in Nat
      BY <1>8, <2>1
    <3>2. \A n \in 1 .. Len(both) : both[n] \in Day
      BY <3>1
    <3>3. \A n \in 1 .. Len(both) : Note(i, both[n], day(i) \/ day(i + 1)) \in DateNote
      <4>1. (day(i) \/ day(i + 1)) \in BOOLEAN
        OBVIOUS
      <4> QED
        BY <1>6, <3>2, <4>1, Zenon
    <3>4. B = [n \in 1 .. Len(both) |-> Note(i, both[n], day(i) \/ day(i + 1))]
      BY <1>4, <2>1, <3>1, Zenon
    <3> DEFINE label == day(i) \/ day(i + 1)
               note(n) == Note(i, both[n], label)
    <3>5. B = [n \in 1 .. Len(both) |-> note(n)]
      BY <3>4
    <3>6. \A n \in 1 .. Len(both) : note(n) \in DateNote
      BY <3>3
    <3> HIDE DEF note
    <3> QED
      BY <3>1, <3>5, <3>6
  <2>2. CASE ~across
    <3>1. B = <<>>
      BY <1>4, <2>2, Zenon
    <3> QED
      BY <3>1
  <2> QED
    BY <2>1, <2>2
<1>10. /\ notes \in Seq(DateNote) /\ DOMAIN notes = 1 .. Len(A) + Len(B)
       /\ DOMAIN A = 1 .. Len(A) /\ DOMAIN B = 1 .. Len(B) /\ Len(A) \in Nat /\ Len(B) \in Nat
       /\ \A k \in 1 .. Len(A) : notes[k] = A[k]
       /\ \A k \in 1 .. Len(B) : notes[Len(A) + k] = B[k]
  <2>1. A \in Seq(DateNote) /\ B \in Seq(DateNote) /\ notes = A \o B
    BY <1>5, <1>7, <1>9
  <2>2. Len(A) \in Nat /\ Len(B) \in Nat /\ DOMAIN A = 1 .. Len(A) /\ DOMAIN B = 1 .. Len(B)
    BY <2>1
  <2>3. notes \in Seq(DateNote) /\ DOMAIN notes = 1 .. Len(A) + Len(B)
    BY <2>1
  <2>4. \A k \in 1 .. Len(A) : notes[k] = A[k]
    BY <2>1
  <2>5. \A k \in 1 .. Len(B) : notes[Len(A) + k] = B[k]
    BY <2>1
  <2> QED
    BY <2>2, <2>3, <2>4, <2>5, Zenon
<1>11. own # <<>> => 1 \in DOMAIN notes /\ notes[1] = Note(i, own[1], day(i))
  <2> SUFFICES ASSUME own # <<>> PROVE 1 \in DOMAIN notes /\ notes[1] = Note(i, own[1], day(i))
    OBVIOUS
  <2>1. 1 \in 1 .. Len(own)
    BY <1>0, <1>7
  <2> QED
    BY <1>2, <1>7, <1>10, <2>1
<1>12. ASSUME NEW k \in DOMAIN notes
       PROVE  \/ k \in DOMAIN own /\ notes[k] = Note(i, own[k], day(i))
              \/ /\ across
                 /\ \/ \E n \in DOMAIN own :
                         notes[k] = Note(i, own[n], day(i) \/ day(i + 1))
                    \/ \E n \in DOMAIN next :
                         notes[k] = Note(i, next[n], day(i) \/ day(i + 1))
  <2>1. CASE k \in 1 .. Len(A)
    <3>1. notes[k] = A[k] /\ k \in DOMAIN own
      BY <1>7, <1>10, <2>1
    <3> QED
      BY <1>2, <3>1
  <2>2. CASE k > Len(A)
    <3>1. k - Len(A) \in 1 .. Len(B) /\ Len(A) + (k - Len(A)) = k
      BY <1>10, <2>2
    <3>2. notes[k] = B[k - Len(A)] /\ k - Len(A) \in DOMAIN B
      BY <1>10, <3>1
    <3>3. across
      BY <1>4, <3>2
    <3> DEFINE n == k - Len(A)
    <3>4. n \in DOMAIN both /\ notes[k] = Note(i, both[n], day(i) \/ day(i + 1))
      BY <1>4, <3>2, <3>3
    <3> HIDE DEF n
    <3>5. CASE n \in 1 .. Len(own)
      BY <1>7, <1>8, <3>3, <3>4, <3>5
    <3>6. CASE n > Len(own)
      <4>1. n - Len(own) \in DOMAIN next /\ both[n] = next[n - Len(own)]
        BY <1>8, <3>3, <3>4, <3>6
      <4> QED
        BY <3>3, <3>4, <4>1
    <3> QED
      BY <1>7, <1>8, <3>3, <3>4, <3>5, <3>6
  <2> QED
    BY <1>10, <2>1, <2>2
<1>13. ASSUME across, NEW n \in DOMAIN next
       PROVE  \E k \in DOMAIN notes : notes[k] = Note(i, next[n], day(i) \/ day(i + 1))
  <2>1. n \in 1 .. Len(next) /\ Len(next) \in Nat
    BY <1>8, <1>13
  <2>2. Len(own) + n \in DOMAIN both
    BY <1>7, <1>8, <1>13, <2>1
  <2>2a. both[Len(own) + n] = next[n]
    BY <1>8, <1>13, <2>1
  <2> DEFINE m == Len(own) + n
  <2>3. m \in DOMAIN B /\ B[m] = Note(i, next[n], day(i) \/ day(i + 1))
    BY <1>4, <1>13, <2>2, <2>2a
  <2> HIDE DEF m
  <2>4. Len(A) + m \in DOMAIN notes /\ notes[Len(A) + m] = B[m]
    BY <1>10, <2>3
  <2> QED
    BY <2>3, <2>4
<1> QED
  BY <1>10, <1>11, <1>12, <1>13 DEF own, next, across, notes, day

\* What a date is worth at a line, if the year is a recent one.
Upper(lines, i) == IF Reader!Slip!Above(lines, i, 35) THEN 60 ELSE 0

Label(c) == IF c.labelled THEN 220 ELSE 0

Worth(lines, c) ==
  500 + Label(c) - 8 * (c.line - 1) + Upper(lines, c.line) - 40 * Reader!Slip!Away(c.date)

LEMMA BonusIs ==
  ASSUME NEW lines, NEW i, NEW c
  PROVE  Upper(lines, i) \in {0, 60} /\ Label(c) = IF c.labelled THEN 220 ELSE 0
BY Zenon DEF Upper, Label

LEMMA NoteHas == \A i, d, l : Note(i, d, l).line = i /\ Note(i, d, l).date = d
BY DEF Note

LEMMA NoteLabel == \A i, d, l : Note(i, d, l).labelled = l
BY DEF Note

\* The note of a date by its label.
Marked(i, date) == Note(i, date, TRUE)

LEMMA MarkedIs ==
  \A i \in Int, d \in Day : /\ Marked(i, d) \in DateNote /\ Marked(i, d).date = d
                           /\ Marked(i, d).line = i
BY Zenon DEF Note, DateNote, Marked

LEMMA WorthOfNote ==
  ASSUME NEW lines, NEW i \in Int, NEW d, Reader!Slip!Away(d) \in Int
  PROVE  Worth(lines, Marked(i, d))
           = 720 - 8 * (i - 1) + Upper(lines, i) - 40 * Reader!Slip!Away(d)
<1> DEFINE c == Marked(i, d)
<1>1. c.line = i /\ c.date = d
  BY Zenon DEF Marked, Note
<1>1a. Label(c) = 220
  BY Zenon DEF Label, Marked, Note
<1>2. Worth(lines, c) = 500 + 220 - 8 * (i - 1) + Upper(lines, i) - 40 * Reader!Slip!Away(d)
  BY <1>1, <1>1a, Zenon DEF Worth
<1>3. Upper(lines, i) \in Int
  BY BonusIs
<1> HIDE DEF c
<1>4. 500 + 220 - 8 * (i - 1) + Upper(lines, i) - 40 * Reader!Slip!Away(d)
        = 720 - 8 * (i - 1) + Upper(lines, i) - 40 * Reader!Slip!Away(d)
  BY <1>3
<1> QED
  BY <1>2, <1>4 DEF c

\* Where the date of a note at line i may stand, and by which label.
OfNear(lines, i, date) ==
  \E n \in DOMAIN lines : \E m \in DOMAIN lines[n].dates :
    (n = i \/ n = i + 1) /\ date = lines[n].dates[m]

DayNear(lines, i) ==
  \/ Reader!Slip!Says(lines, i, {"day"})
  \/ /\ Reader!Slip!Says(lines, i + 1, {"day"})
     /\ i + 1 \in DOMAIN lines /\ Reader!Slip!Close(lines, i, i + 1)

LEMMA NoteSays ==
  ASSUME NEW lines, Printed(lines), NEW i \in DOMAIN lines, NEW k \in DOMAIN DatesAt(lines)[i]
  PROVE  LET c == DatesAt(lines)[i][k]
         IN  /\ c \in DateNote /\ c.line = i
             /\ c.labelled => DayNear(lines, i)
             /\ OfNear(lines, i, c.date)
<1> DEFINE c == DatesAt(lines)[i][k]
           day(j) == Reader!Slip!Says(lines, j, {"day"})
           near == i + 1 \in DOMAIN lines /\ Reader!Slip!Close(lines, i, i + 1)
<1>1. /\ \/ k \in DOMAIN lines[i].dates /\ c = Note(i, lines[i].dates[k], day(i))
         \/ /\ near
            /\ \/ \E n \in DOMAIN lines[i].dates :
                    c = Note(i, lines[i].dates[n], day(i) \/ day(i + 1))
               \/ \E n \in DOMAIN lines[i + 1].dates :
                    c = Note(i, lines[i + 1].dates[n], day(i) \/ day(i + 1))
      /\ DatesAt(lines)[i] \in Seq(DateNote)
  BY NoteIs
<1>2. c \in DateNote
  BY <1>1
<1> HIDE DEF c
<1>3. \A n \in DOMAIN lines[i].dates : OfNear(lines, i, lines[i].dates[n])
  BY Zenon DEF OfNear
<1>4. near => \A n \in DOMAIN lines[i + 1].dates : OfNear(lines, i, lines[i + 1].dates[n])
  BY Zenon DEF OfNear
<1>5. (day(i) => DayNear(lines, i)) /\ (near => (day(i) \/ day(i + 1) => DayNear(lines, i)))
  BY Zenon DEF DayNear
<1> HIDE DEF day, near
<1>6. \E d, l : c = Note(i, d, l) /\ OfNear(lines, i, d) /\ (l => DayNear(lines, i))
  <2>1. CASE k \in DOMAIN lines[i].dates /\ c = Note(i, lines[i].dates[k], day(i))
    BY <1>3, <1>5, <2>1, Zenon
  <2>2. CASE near /\ \E n \in DOMAIN lines[i].dates :
               c = Note(i, lines[i].dates[n], day(i) \/ day(i + 1))
    BY <1>3, <1>5, <2>2, Zenon
  <2>3. CASE near /\ \E n \in DOMAIN lines[i + 1].dates :
               c = Note(i, lines[i + 1].dates[n], day(i) \/ day(i + 1))
    BY <1>4, <1>5, <2>3, Zenon
  <2> QED
    BY <1>1, <2>1, <2>2, <2>3, Zenon
<1>7. PICK d, l : c = Note(i, d, l) /\ OfNear(lines, i, d) /\ (l => DayNear(lines, i))
  BY <1>6, Zenon
<1>8. c.line = i /\ c.date = d /\ c.labelled = l
  BY <1>7, Zenon DEF Note
<1>9. OfNear(lines, i, c.date)
  BY <1>7, <1>8, Zenon
<1>10. c.labelled => DayNear(lines, i)
  BY <1>7, <1>8, Zenon
<1>11. c.line = i
  BY <1>8
<1> QED
  BY <1>2, <1>9, <1>10, <1>11, Zenon DEF c

LEMMA JoinsAll ==
  ASSUME NEW g, NEW seqs, NEW n, NEW T, Joins(g, seqs, n, T),
         NEW i \in 1 .. n, NEW k \in DOMAIN seqs[i]
  PROVE  \E p \in DOMAIN g : g[p] = seqs[i][k]
<1>1. PICK p \in DOMAIN g :
        /\ g[p] = seqs[i][k]
        /\ \A q \in DOMAIN g : q < p =>
             \E j \in 1 .. i : \E m \in DOMAIN seqs[j] : g[q] = seqs[j][m] /\ (j < i \/ m < k)
  BY DEF Joins
<1> QED
  BY <1>1

LEMMA DateScoreIs ==
  ASSUME NEW lines, NEW c \in DateNote
  PROVE  /\ Reader!Slip!DateScore(lines, c) \in Int /\ Worth(lines, c) \in Int
         /\ Reader!Slip!Away(c.date) \in Nat
         /\ Reader!Slip!DateScore(lines, c) <= Worth(lines, c)
         /\ c.date.year \in ThisYear - 4 .. ThisYear + 1 =>
              Reader!Slip!DateScore(lines, c) = Worth(lines, c)
<1> DEFINE above == Reader!Slip!Above(lines, c.line, 35)
           a == Reader!Slip!Away(c.date)
           late == c.date.year > ThisYear + 1 \/ c.date.year < ThisYear - 4
           x == IF c.labelled THEN 220 ELSE 0
           y == IF above THEN 60 ELSE 0
           z == IF late THEN 120 ELSE 0
<1>1. c.line \in Int /\ c.date.year \in Int /\ ThisYear \in Int
  BY DocumentsAssumption DEF DateNote, Day
<1>2. a \in Nat
  BY <1>1 DEF Reader!Slip!Away
<1>3. Reader!Slip!DateScore(lines, c) = 500 + x - 8 * (c.line - 1) + y - 40 * a - z
  BY Zenon DEF Reader!Slip!DateScore, Reader!Slip!If
<1>4. Worth(lines, c) = 500 + x - 8 * (c.line - 1) + y - 40 * a
  BY Zenon DEF Worth, Upper, Label
<1>5. z \in {0, 120} /\ x \in {0, 220} /\ y \in {0, 60}
  BY Zenon
<1>6. c.date.year \in ThisYear - 4 .. ThisYear + 1 => z = 0
  BY <1>1
<1> HIDE DEF a, x, y, z
<1> QED
  BY <1>1, <1>2, <1>3, <1>4, <1>5, <1>6 DEF a

LEMMA NotesListed ==
  ASSUME NEW lines, Printed(lines)
  PROVE  Joins(Reader!Slip!DateCandidates(lines), DatesAt(lines), Len(lines), DateNote)
<1> DEFINE seqs == DatesAt(lines)
<1>1. DOMAIN lines = 1 .. Len(lines) /\ Len(lines) \in Nat
  BY DEF Printed
<1>2. \A i \in 1 .. Len(lines) : seqs[i] \in Seq(DateNote)
  BY <1>1, NoteIs, Zenon
<1>3. seqs = [i \in 1 .. Len(lines) |-> seqs[i]]
  BY <1>1 DEF DatesAt
<1> HIDE DEF seqs
<1>4. seqs \in Seq(Seq(DateNote)) /\ Len(seqs) = Len(lines)
  BY <1>1, <1>2, <1>3
<1>5. Joins(Reader!Slip!FlattenSeq(seqs), seqs, Len(seqs), DateNote)
  BY <1>4, FlatIs
<1> QED
  BY <1>4, <1>5, NotesAre DEF seqs

\* The date is the first of the highest score.
LEMMA DateChosen ==
  ASSUME NEW lines, Printed(lines), Reader!Slip!DateCandidates(lines) # <<>>
  PROVE  LET found == Reader!Slip!DateCandidates(lines)
             Score(p) == Reader!Slip!DateScore(lines, found[p])
         IN  \E p \in DOMAIN found :
               /\ Reader!Slip!DateOf(lines) = found[p].date
               /\ \A q \in DOMAIN found :
                    Score(q) < Score(p) \/ (Score(q) = Score(p) /\ p <= q)
<1> DEFINE found == Reader!Slip!DateCandidates(lines)
           key == [p \in DOMAIN found |-> Reader!Slip!DateScore(lines, found[p])]
           First(p) == \A q \in DOMAIN found : key[q] < key[p] \/ (key[q] = key[p] /\ p <= q)
<1>1. found \in Seq(DateNote) /\ found # <<>>
  BY NotesListed DEF Joins
<1> HIDE DEF found
<1>2. DOMAIN found = 1 .. Len(found) /\ Len(found) \in Nat /\ Len(found) # 0
  BY <1>1
<1>3. \A p \in 1 .. Len(found) : found[p] \in DateNote
  BY <1>1, <1>2
<1>4. \A p \in 1 .. Len(found) : key[p] \in Int
  BY <1>2, <1>3, DateScoreIs, Zenon
<1> HIDE DEF key
<1>5. \E p \in DOMAIN found : First(p)
  <2>1. \E i \in 1 .. Len(found) : \A j \in 1 .. Len(found) :
          key[j] < key[i] \/ (key[j] = key[i] /\ i <= j)
    BY <1>2, <1>4, FirstMaxExists
  <2> QED
    BY <1>2, <2>1
<1> DEFINE p == CHOOSE p \in DOMAIN found : First(p)
<1>6. p \in DOMAIN found /\ First(p)
  BY <1>5, Zenon
<1>7. \A q \in DOMAIN found : key[q] = Reader!Slip!DateScore(lines, found[q])
  BY DEF key
<1>8. Reader!Slip!FirstMax(DOMAIN found, LAMBDA n : Reader!Slip!DateScore(lines, found[n]))
        = CHOOSE i \in DOMAIN found : \A q \in DOMAIN found :
            \/ Reader!Slip!DateScore(lines, found[q]) < Reader!Slip!DateScore(lines, found[i])
            \/ /\ Reader!Slip!DateScore(lines, found[q]) = Reader!Slip!DateScore(lines, found[i])
               /\ i <= q
  BY DEF Reader!Slip!FirstMax
<1>9. p = CHOOSE i \in DOMAIN found : \A q \in DOMAIN found :
            \/ Reader!Slip!DateScore(lines, found[q]) < Reader!Slip!DateScore(lines, found[i])
            \/ /\ Reader!Slip!DateScore(lines, found[q]) = Reader!Slip!DateScore(lines, found[i])
               /\ i <= q
  BY DEF key
<1>10. Reader!Slip!DateOf(lines) = found[p].date
  BY <1>1, <1>8, <1>9 DEF Reader!Slip!DateOf, found
<1> HIDE DEF p
<1> QED
  BY <1>6, <1>7, <1>10 DEF found

\* Line i states the date by its label.
Labelled(lines, i, date) ==
  /\ "day" \in lines[i].words /\ lines[i].dates = <<date>>
  /\ date.year \in ThisYear - 4 .. ThisYear + 1
  /\ \A j \in DOMAIN lines \ {i} :
       /\ "day" \notin lines[j].words
       /\ lines[j].dates # <<>> => i < j + 19
       /\ \A n \in DOMAIN lines[j].dates :
            \/ lines[j].dates[n].year = date.year
            \/ Reader!Slip!Away(lines[j].dates[n]) > Reader!Slip!Away(date)
  /\ i - 1 \in DOMAIN lines =>
       \A n \in DOMAIN lines[i - 1].dates : lines[i - 1].dates[n].year # date.year

LEMMA SameAway ==
  \A d, e : d.year = e.year => Reader!Slip!Away(d) = Reader!Slip!Away(e)
BY Zenon DEF Reader!Slip!Away

\* What a note next to the label, or elsewhere, comes to.
LEMMA NotesAgainst ==
  ASSUME NEW lines, Printed(lines), NEW i \in DOMAIN lines, NEW date \in Day,
         Labelled(lines, i, date),
         NEW j \in DOMAIN lines, NEW k \in DOMAIN DatesAt(lines)[j]
  PROVE  LET c == DatesAt(lines)[j][k]
             a == Reader!Slip!Away(date)
         IN  /\ c \in DateNote /\ c.line = j /\ a \in Nat
             /\ Reader!Slip!Away(c.date) \in Nat /\ a <= Reader!Slip!Away(c.date)
             /\ i < j + 20
             /\ c.labelled => j = i \/ (j = i - 1 /\ Reader!Slip!Close(lines, j, i))
             /\ j = i - 1 /\ c.labelled => c.date = date \/ a < Reader!Slip!Away(c.date)
<1> DEFINE c == DatesAt(lines)[j][k]
           a == Reader!Slip!Away(date)
           day(n) == Reader!Slip!Says(lines, n, {"day"})
<1>1. /\ c \in DateNote /\ c.line = j
      /\ c.labelled => DayNear(lines, j)
      /\ OfNear(lines, j, c.date)
  BY NoteSays
<1>2. c \in DateNote
  BY <1>1
<1> HIDE DEF c
<1>3. \A n : day(n) => n = i
  BY DEF Reader!Slip!Says, Labelled
<1> HIDE DEF day
<1>4. \A n \in DOMAIN lines : lines[n].dates \in Seq(Day) /\ n \in Int
  BY DEF Printed, Day
<1>5. \A d \in Day : Reader!Slip!Away(d) \in Nat
  <2>1. ThisYear \in Int
    BY DocumentsAssumption
  <2> QED
    BY <2>1 DEF Reader!Slip!Away, Day
<1>6. ASSUME NEW n \in DOMAIN lines, NEW m \in DOMAIN lines[n].dates
      PROVE  /\ a <= Reader!Slip!Away(lines[n].dates[m])
             /\ n # i => i < n + 19
             /\ n = i => lines[n].dates[m] = date
             /\ n = i - 1 => a < Reader!Slip!Away(lines[n].dates[m])
  <2>0. lines[n].dates[m] \in Day /\ lines[n].dates # <<>> /\ a \in Nat
    BY <1>4, <1>5, <1>6
  <2>1. CASE n = i
    <3>1. lines[n].dates = <<date>>
      BY <2>1 DEF Labelled
    <3>2. lines[n].dates[m] = date
      BY <1>6, <3>1
    <3> QED
      BY <1>4, <2>0, <2>1, <3>2
  <2>2. CASE n # i
    <3>1. /\ i < n + 19
          /\ \/ lines[n].dates[m].year = date.year
             \/ Reader!Slip!Away(lines[n].dates[m]) > a
      BY <1>6, <2>0, <2>2 DEF Labelled
    <3>2. n = i - 1 => lines[n].dates[m].year # date.year
      BY <1>6 DEF Labelled
    <3>3. lines[n].dates[m].year = date.year => Reader!Slip!Away(lines[n].dates[m]) = a
      BY SameAway
    <3>4. Reader!Slip!Away(lines[n].dates[m]) \in Nat
      BY <1>5, <2>0
    <3> HIDE DEF a
    <3> QED
      BY <2>0, <2>2, <3>1, <3>2, <3>3, <3>4
  <2> QED
    BY <2>1, <2>2
<1>7. PICK n \in DOMAIN lines : \E m \in DOMAIN lines[n].dates :
        (n = j \/ n = j + 1) /\ c.date = lines[n].dates[m]
  BY <1>1 DEF OfNear
<1>8. PICK m \in DOMAIN lines[n].dates : (n = j \/ n = j + 1) /\ c.date = lines[n].dates[m]
  BY <1>7
<1>9. c.line = j /\ c.date = lines[n].dates[m]
  BY <1>1, <1>8
<1>10. c.labelled => day(j) \/ (day(j + 1) /\ j + 1 \in DOMAIN lines /\ Reader!Slip!Close(lines, j, j + 1))
  BY <1>1, Zenon DEF DayNear, day
<1>11. c.labelled => j = i \/ (j = i - 1 /\ Reader!Slip!Close(lines, j, i))
  <2>1. j + 1 = i => j = i - 1
    BY <1>4
  <2> QED
    BY <1>3, <1>10, <2>1
<1>12. a \in Nat /\ Reader!Slip!Away(c.date) \in Nat /\ a <= Reader!Slip!Away(c.date)
  BY <1>2, <1>5, <1>6, <1>8, <1>9 DEF DateNote
<1>13. i < j + 20
  <2>1. n = j \/ n = j + 1
    BY <1>7
  <2>2. n # i => i < n + 19
    BY <1>6, <1>7, <1>8
  <2> QED
    BY <1>4, <2>1, <2>2
<1>14. j = i - 1 => c.date = date \/ a < Reader!Slip!Away(c.date)
  <2>1. j = i - 1 => n = i \/ n = i - 1
    BY <1>4, <1>7
  <2>2. n = i => c.date = date
    BY <1>6, <1>7, <1>8, <1>9
  <2>3. n = i - 1 => a < Reader!Slip!Away(c.date)
    BY <1>6, <1>7, <1>8, <1>9
  <2> QED
    BY <2>1, <2>2, <2>3
<1> QED
  BY <1>2, <1>9, <1>11, <1>12, <1>13, <1>14 DEF c

LEMMA LabelledRead ==
  ASSUME NEW lines, Printed(lines), NEW i \in DOMAIN lines, NEW date \in Day,
         Labelled(lines, i, date)
  PROVE  Reader!Slip!DateOf(lines) = date
<1> DEFINE found == Reader!Slip!DateCandidates(lines)
           seqs == DatesAt(lines)
           Score(p) == Reader!Slip!DateScore(lines, found[p])
           a == Reader!Slip!Away(date)
           best == Marked(i, date)
           up(j) == Upper(lines, j)
<1>0. DOMAIN lines = 1 .. Len(lines) /\ Len(lines) \in Nat
  BY DEF Printed
<1>1. Joins(found, seqs, Len(lines), DateNote)
  BY NotesListed
<1> HIDE DEF found, seqs
<1>2. 1 \in DOMAIN seqs[i] /\ seqs[i][1] = best
  <2>1. lines[i].dates = <<date>> /\ Reader!Slip!Says(lines, i, {"day"})
    BY DEF Labelled, Reader!Slip!Says
  <2>2. lines[i].dates # <<>> /\ lines[i].dates[1] = date
    BY <2>1
  <2>3. 1 \in DOMAIN seqs[i] /\ seqs[i][1] = Note(i, lines[i].dates[1], Reader!Slip!Says(lines, i, {"day"}))
    BY <2>2, NoteIs DEF seqs
  <2> QED
    BY <2>1, <2>2, <2>3, Zenon DEF Marked
<1>3. ASSUME NEW p \in DOMAIN found
      PROVE  /\ found[p] \in DateNote
             /\ \E j \in DOMAIN lines : \E k \in DOMAIN seqs[j] : found[p] = seqs[j][k]
  BY <1>0, <1>1 DEF Joins
<1>4. PICK top \in DOMAIN found :
        /\ found[top] = best
        /\ \A q \in DOMAIN found : q < top =>
             \E j \in 1 .. i : \E m \in DOMAIN seqs[j] : found[q] = seqs[j][m] /\ (j < i \/ m < 1)
  <2>1. i \in 1 .. Len(lines) /\ 1 \in DOMAIN seqs[i]
    BY <1>0, <1>2
  <2>2. \E t \in DOMAIN found :
          /\ found[t] = seqs[i][1]
          /\ \A q \in DOMAIN found : q < t =>
               \E j \in 1 .. i : \E m \in DOMAIN seqs[j] : found[q] = seqs[j][m] /\ (j < i \/ m < 1)
    BY <1>1, <2>1, Zenon DEF Joins
  <2> QED
    BY <1>2, <2>2, Zenon
<1>5. PICK p \in DOMAIN found :
        /\ Reader!Slip!DateOf(lines) = found[p].date
        /\ \A q \in DOMAIN found : Score(q) < Score(p) \/ (Score(q) = Score(p) /\ p <= q)
  <2>1. found # <<>>
    BY <1>4
  <2> QED
    BY <2>1, DateChosen DEF found
<1> DEFINE c == found[p]
<1>6. PICK j \in DOMAIN lines : \E k \in DOMAIN seqs[j] : c = seqs[j][k]
  BY <1>3
<1>7. PICK k \in DOMAIN seqs[j] : c = seqs[j][k]
  BY <1>6
<1>8. /\ c \in DateNote /\ c.line = j /\ a \in Nat
      /\ Reader!Slip!Away(c.date) \in Nat /\ a <= Reader!Slip!Away(c.date)
      /\ i < j + 20
      /\ c.labelled => j = i \/ (j = i - 1 /\ Reader!Slip!Close(lines, j, i))
      /\ j = i - 1 /\ c.labelled => c.date = date \/ a < Reader!Slip!Away(c.date)
  BY <1>6, <1>7, NotesAgainst DEF seqs
<1>9. i \in Int /\ j \in Int /\ up(i) \in {0, 60} /\ up(j) \in {0, 60}
  BY <1>0, BonusIs
<1> HIDE DEF up
<1>10. Score(top) = 720 - 8 * (i - 1) + up(i) - 40 * a
  <2>1. best \in DateNote /\ best.date = date
    BY <1>9, MarkedIs
  <2>2. Worth(lines, best) = 720 - 8 * (i - 1) + up(i) - 40 * a
    <3>1. i \in Int /\ a \in Int
      BY <1>8, <1>9
    <3> QED
      BY <3>1, WorthOfNote DEF up
  <2>3. Score(top) = Worth(lines, best)
    <3>1. best.date.year \in ThisYear - 4 .. ThisYear + 1
      BY <2>1 DEF Labelled
    <3> HIDE DEF best
    <3> QED
      BY <1>4, <2>1, <3>1, DateScoreIs
  <2> QED
    BY <2>2, <2>3
<1>11. Score(p) \in Int /\ Score(p) <= Worth(lines, c)
  BY <1>8, DateScoreIs
<1>12. Worth(lines, c) = 500 + Label(c) - 8 * (j - 1) + up(j) - 40 * Reader!Slip!Away(c.date)
  BY <1>8, Zenon DEF Worth, up
<1>13. Score(top) <= Score(p)
  BY <1>5, <1>8, <1>9, <1>10, <1>11
<1> HIDE DEF c, best, Score
<1>14. c.labelled
  <2> SUFFICES ASSUME ~c.labelled PROVE FALSE
    OBVIOUS
  <2>1. Worth(lines, c) = 500 - 8 * (j - 1) + up(j) - 40 * Reader!Slip!Away(c.date)
    <3>1. Label(c) = 0
      BY BonusIs
    <3> QED
      BY <1>8, <1>9, <1>12, <3>1
  <2> HIDE DEF a
  <2> QED
    BY <1>8, <1>9, <1>10, <1>11, <1>13, <2>1
<1>15. Worth(lines, c) = 720 - 8 * (j - 1) + up(j) - 40 * Reader!Slip!Away(c.date)
  <2>1. Label(c) = 220
    BY <1>14, BonusIs
  <2> QED
    BY <1>8, <1>9, <1>12, <2>1
<1>16. CASE j = i
  <2>1. Reader!Slip!Away(c.date) = a /\ Score(p) = Score(top)
    <3> HIDE DEF a
    <3> QED
      BY <1>8, <1>9, <1>10, <1>11, <1>13, <1>15, <1>16
  <2>2. p <= top
    BY <1>5, <2>1, <1>11
  <2>3. p = top
    <3> SUFFICES ASSUME p < top PROVE FALSE
      <4>1. p \in Int /\ top \in Int
        BY <1>1 DEF Joins
      <4> QED
        BY <2>2, <4>1
    <3>1. PICK l \in 1 .. i : \E m \in DOMAIN seqs[l] : c = seqs[l][m] /\ (l < i \/ m < 1)
      BY <1>4 DEF c
    <3>2. PICK m \in DOMAIN seqs[l] : c = seqs[l][m] /\ (l < i \/ m < 1)
      BY <3>1
    <3>3. l \in DOMAIN lines
      BY <1>0, <1>9, <3>1
    <3>4. c.line = l
      BY <3>2, <3>3, NotesAgainst DEF seqs
    <3>5. m >= 1
      <4>1. seqs[l] \in Seq(DateNote)
        BY <3>3, NoteIs DEF seqs
      <4> QED
        BY <3>2, <4>1
    <3>6. m \in Int
      <4>1. seqs[l] \in Seq(DateNote)
        BY <3>3, NoteIs DEF seqs
      <4> QED
        BY <3>2, <4>1
    <3> QED
      BY <1>8, <1>9, <1>16, <3>2, <3>4, <3>5, <3>6
  <2>4. c.date = date
    <3>1. c = best
      BY <1>4, <2>3 DEF c
    <3> QED
      BY <1>9, <3>1, MarkedIs DEF best
  <2> QED
    BY <1>5, <2>4 DEF c
<1>17. CASE j = i - 1
  <2> SUFFICES ASSUME c.date # date PROVE FALSE
    BY <1>5 DEF c
  <2>1. a < Reader!Slip!Away(c.date) /\ Reader!Slip!Close(lines, j, i)
    BY <1>8, <1>9, <1>14, <1>17
  <2> DEFINE rival == Marked(j, date)
  <2>2. \E m \in DOMAIN seqs[j] : seqs[j][m] = rival
    <3>1. j + 1 = i /\ j + 1 \in DOMAIN lines /\ Reader!Slip!Close(lines, j, j + 1)
      BY <1>9, <1>17, <2>1
    <3>2. 1 \in DOMAIN lines[j + 1].dates /\ lines[j + 1].dates[1] = date
      BY <3>1 DEF Labelled
    <3>3. \E m \in DOMAIN seqs[j] : seqs[j][m] =
            Note(j, lines[j + 1].dates[1],
                 Reader!Slip!Says(lines, j, {"day"}) \/ Reader!Slip!Says(lines, j + 1, {"day"}))
      BY <3>1, <3>2, NoteIs DEF seqs
    <3>4. (Reader!Slip!Says(lines, j, {"day"}) \/ Reader!Slip!Says(lines, j + 1, {"day"})) = TRUE
      BY <3>1 DEF Labelled, Reader!Slip!Says
    <3> QED
      BY <3>2, <3>3, <3>4, Zenon DEF Marked
  <2>3. PICK q \in DOMAIN found : found[q] = rival
    <3>1. PICK m \in DOMAIN seqs[j] : seqs[j][m] = rival
      BY <2>2
    <3>2. j \in 1 .. Len(lines)
      BY <1>0
    <3>3. \E q \in DOMAIN found : found[q] = seqs[j][m]
      <4> HIDE DEF rival
      <4> QED
        BY <1>1, <3>1, <3>2, JoinsAll
    <3> QED
      BY <3>1, <3>3
  <2>4. rival \in DateNote /\ rival.date = date
    BY <1>9, MarkedIs
  <2>5. Worth(lines, rival) = 720 - 8 * (j - 1) + up(j) - 40 * a
    <3>1. j \in Int /\ a \in Int
      BY <1>8, <1>9
    <3> QED
      BY <3>1, WorthOfNote DEF up
  <2>6. Score(q) = Worth(lines, rival)
    <3>1. rival.date.year \in ThisYear - 4 .. ThisYear + 1
      BY <2>4 DEF Labelled
    <3> HIDE DEF rival
    <3> QED
      BY <2>3, <2>4, <3>1, DateScoreIs DEF Score
  <2>7. Score(q) <= Score(p)
    <3> HIDE DEF a, rival
    <3> QED
      BY <1>5, <1>8, <1>9, <1>11, <2>5, <2>6
  <2> HIDE DEF a, rival
  <2> QED
    BY <1>8, <1>9, <1>11, <1>15, <2>1, <2>5, <2>6, <2>7
<1> QED
  BY <1>8, <1>14, <1>16, <1>17

\* A receipt that states its day is read so.
LEMMA DateRead ==
  ASSUME NEW lines, Printed(lines), NEW date, ~Crowded(lines, date),
         Reader!Slip!Dated(lines, date)
  PROVE  Reader!Slip!DateOf(lines) = date
<1> DEFINE found == Reader!Slip!DateCandidates(lines)
           seqs == DatesAt(lines)
           dated == {i \in DOMAIN lines : lines[i].dates # <<>>}
<1>0. DOMAIN lines = 1 .. Len(lines) /\ Len(lines) \in Nat
  BY DEF Printed
<1>1. Joins(found, seqs, Len(lines), DateNote)
  BY NotesListed
<1>2. ASSUME NEW p \in DOMAIN found
      PROVE  \E n \in DOMAIN lines : \E m \in DOMAIN lines[n].dates :
               found[p].date = lines[n].dates[m]
  <2>1. PICK j \in DOMAIN lines : \E k \in DOMAIN seqs[j] : found[p] = seqs[j][k]
    BY <1>0, <1>1, <1>2 DEF Joins
  <2>2. PICK k \in DOMAIN seqs[j] : found[p] = seqs[j][k]
    BY <2>1
  <2>3. \E n \in DOMAIN lines : \E m \in DOMAIN lines[n].dates : seqs[j][k].date = lines[n].dates[m]
    <3>1. OfNear(lines, j, seqs[j][k].date)
      BY <2>1, <2>2, NoteSays
    <3> QED
      BY <3>1, Zenon DEF OfNear
  <2> QED
    BY <2>2, <2>3
<1> HIDE DEF found, seqs
<1>3. CASE date = NULL /\ dated = {}
  <2>1. DOMAIN found = {}
    <3> SUFFICES ASSUME NEW p \in DOMAIN found PROVE FALSE
      OBVIOUS
    <3>1. PICK n \in DOMAIN lines : \E m \in DOMAIN lines[n].dates : found[p].date = lines[n].dates[m]
      BY <1>2
    <3>2. lines[n].dates = <<>>
      BY <1>3
    <3> QED
      BY <3>1, <3>2
  <2>2. found = <<>>
    BY <1>1, <2>1 DEF Joins
  <2> QED
    BY <1>3, <2>2 DEF Reader!Slip!DateOf, found
<1>4. CASE dated # {} /\ \A j \in dated : \A n \in DOMAIN lines[j].dates : lines[j].dates[n] = date
  <2>1. PICK i \in dated : lines[i].dates # <<>>
    BY <1>4
  <2>2. 1 \in DOMAIN seqs[i]
    BY <2>1, NoteIs DEF seqs
  <2>3. found # <<>>
    <3>1. \E p \in DOMAIN found : found[p] = seqs[i][1]
      BY <1>0, <1>1, <2>1, <2>2 DEF Joins
    <3> QED
      BY <3>1
  <2>4. PICK p \in DOMAIN found : Reader!Slip!DateOf(lines) = found[p].date
    BY <2>3, DateChosen DEF found
  <2>5. PICK n \in DOMAIN lines : \E m \in DOMAIN lines[n].dates : found[p].date = lines[n].dates[m]
    BY <1>2
  <2>6. lines[n].dates # <<>>
    BY <2>5
  <2> QED
    BY <1>4, <2>4, <2>5, <2>6
<1>5. ASSUME NEW i \in DOMAIN lines,
             /\ "day" \in lines[i].words /\ lines[i].dates = <<date>>
             /\ date.year \in ThisYear - 4 .. ThisYear + 1
             /\ \A j \in DOMAIN lines \ {i} :
                  /\ "day" \notin lines[j].words
                  /\ j \in dated => i < j + 19
                  /\ \A n \in DOMAIN lines[j].dates :
                       \/ lines[j].dates[n].year = date.year
                       \/ Reader!Slip!Away(lines[j].dates[n]) > Reader!Slip!Away(date)
      PROVE  Reader!Slip!DateOf(lines) = date
  <2>1. i - 1 \in DOMAIN lines => \A n \in DOMAIN lines[i - 1].dates : lines[i - 1].dates[n].year # date.year
    <3> SUFFICES ASSUME i - 1 \in DOMAIN lines, NEW n \in DOMAIN lines[i - 1].dates
                 PROVE  lines[i - 1].dates[n].year # date.year
      OBVIOUS
    <3>1. i # 1
      BY <1>0
    <3>2. lines[i - 1].dates[n] \in ToSet(lines[i - 1].dates)
      BY DEF ToSet
    <3> QED
      BY <1>5, <3>1, <3>2 DEF Crowded
  <2>2. Labelled(lines, i, date)
    BY <1>5, <2>1 DEF Labelled
  <2>3. date \in Day
    <3>1. lines[i].dates \in Seq(Day) /\ lines[i].dates = <<date>>
      BY <1>5 DEF Printed, Day
    <3> QED
      BY <3>1
  <2> QED
    BY <2>2, <2>3, LabelledRead
<1> QED
  BY <1>3, <1>4, <1>5, Zenon DEF Reader!Slip!Dated

-----------------------------------------------------------------------------
(* The amount of a receipt.                                                 *)

\* How often a number is met, what it comes to by that, and which one is ahead.
Often(found, c) == Reader!Slip!Cardinality({d \in found : d.value = c.value})

Extra(found, c) == Reader!Slip!AtMost(12 * (Often(found, c) - 1), 24)

Points(found, c) == c.score + Extra(found, c)

Leads(found, c, d) ==
  \/ c.hint /\ ~d.hint
  \/ /\ c.hint = d.hint
     /\ \/ Points(found, c) > Points(found, d)
        \/ Points(found, c) = Points(found, d) /\ Often(found, c) > Often(found, d)
        \/ /\ Points(found, c) = Points(found, d) /\ Often(found, c) = Often(found, d)
           /\ c.value > d.value

LEMMA OftenIs ==
  ASSUME NEW found, NEW c
  PROVE  Often(found, c) = Cardinality({d \in found : d.value = c.value})
<1>1. \A S : Reader!Slip!Cardinality(S) = Cardinality(S)
  BY DEF Reader!Slip!Cardinality, Cardinality
<1> QED
  BY <1>1 DEF Often

Amounts == [by : Int, at : Int, nth : Int, value : Int, score : Int, hint : BOOLEAN]

LEMMA TopKeyExists ==
  ASSUME NEW S, IsFiniteSet(S), S # {}, NEW key, \A x \in S : key[x] \in Int
  PROVE  \E m \in S : \A x \in S : key[x] <= key[m]
<1> DEFINE T == {key[x] : x \in S}
<1>1. T \subseteq Int /\ T # {}
  OBVIOUS
<1>2. IsFiniteSet(T)
  BY ImageFinite
<1>3. PICK k \in T : \A y \in T : y <= k
  <2> HIDE DEF T
  <2> QED
    BY <1>1, <1>2, HighestExists
<1>4. PICK m \in S : key[m] = k
  BY <1>3
<1>5. ASSUME NEW x \in S PROVE key[x] <= key[m]
  BY <1>3, <1>4
<1> QED
  BY <1>5

LEMMA PointsInt ==
  ASSUME NEW found, IsFiniteSet(found), NEW c \in found, found \subseteq Amounts
  PROVE  /\ Often(found, c) \in Nat \ {0} /\ Points(found, c) \in Int
         /\ Points(found, c) = c.score + Extra(found, c)
         /\ Extra(found, c) = IF Often(found, c) = 1 THEN 0
                              ELSE IF Often(found, c) = 2 THEN 12 ELSE 24
<1> DEFINE S == {d \in found : d.value = c.value}
<1>1. IsFiniteSet(S) /\ c \in S
  BY FS_Subset
<1>2. Cardinality(S) \in Nat /\ Cardinality(S) # 0
  <2> HIDE DEF S
  <2> QED
    BY <1>1, FS_CardinalityType, FS_EmptySet
<1>3. Often(found, c) \in Nat \ {0}
  BY <1>2, OftenIs
<1>4. Extra(found, c) = IF Often(found, c) = 1 THEN 0
                        ELSE IF Often(found, c) = 2 THEN 12 ELSE 24
  BY <1>3 DEF Extra, Reader!Slip!AtMost
<1>5. Extra(found, c) \in Int /\ c.score \in Int
  BY <1>4 DEF Amounts
<1> QED
  BY <1>3, <1>4, <1>5 DEF Points

LEMMA BestExists ==
  ASSUME NEW found, IsFiniteSet(found), found # {}, found \subseteq Amounts
  PROVE  \E c \in found : \A d \in found : ~Leads(found, d, c)
<1> DEFINE S1 == {c \in found : c.hint \/ \A d \in found : ~d.hint}
           points == [c \in found |-> Points(found, c)]
           often == [c \in found |-> Often(found, c)]
           value == [c \in found |-> c.value]
<1>1. \A c \in found : points[c] \in Int /\ often[c] \in Int /\ value[c] \in Int
  <2>1. \A c \in found : points[c] \in Int /\ often[c] \in Int
    BY PointsInt
  <2>2. \A c \in found : value[c] \in Int
    BY DEF Amounts
  <2> QED
    BY <2>1, <2>2
<1>1a. \A c \in found : points[c] = Points(found, c) /\ often[c] = Often(found, c) /\ value[c] = c.value
  OBVIOUS
<1> HIDE DEF points, often, value
<1>2. S1 # {} /\ S1 \subseteq found /\ IsFiniteSet(S1)
  <2>1. S1 # {}
    BY Zenon
  <2> QED
    BY <2>1, FS_Subset
<1>3. PICK m1 \in S1 : \A x \in S1 : points[x] <= points[m1]
  <2> HIDE DEF S1
  <2>1. \A c \in S1 : points[c] \in Int
    BY <1>1, <1>2
  <2> QED
    BY <1>2, <2>1, TopKeyExists
<1> DEFINE S2 == {c \in S1 : points[c] = points[m1]}
<1>4. S2 # {} /\ S2 \subseteq S1 /\ S2 \subseteq found /\ IsFiniteSet(S2)
  <2>1. S2 # {} /\ S2 \subseteq S1 /\ S2 \subseteq found
    BY <1>2
  <2> HIDE DEF S1, S2
  <2> QED
    BY <2>1, FS_Subset
<1>5. PICK m2 \in S2 : \A x \in S2 : often[x] <= often[m2]
  <2> HIDE DEF S2
  <2>1. \A c \in S2 : often[c] \in Int
    BY <1>1, <1>4
  <2> QED
    BY <1>4, <2>1, TopKeyExists
<1> DEFINE S3 == {c \in S2 : often[c] = often[m2]}
<1>6. S3 # {} /\ S3 \subseteq S2 /\ S3 \subseteq found /\ IsFiniteSet(S3)
  <2>1. S3 # {} /\ S3 \subseteq S2 /\ S3 \subseteq found
    BY <1>4, <1>5
  <2> HIDE DEF S1, S2, S3
  <2> QED
    BY <2>1, FS_Subset
<1>7. PICK m \in S3 : \A x \in S3 : value[x] <= value[m]
  <2> HIDE DEF S3
  <2>1. \A c \in S3 : value[c] \in Int
    BY <1>1, <1>6
  <2> QED
    BY <1>6, <2>1, TopKeyExists
<1>8. ASSUME NEW d \in found, Leads(found, d, m) PROVE FALSE
  <2>1. m \in found /\ m \in S1 /\ m \in S2 /\ m \in S3
    BY <1>4, <1>6, <1>7
  <2>2. ~(d.hint /\ ~m.hint)
    BY <2>1, Zenon
  <2>3. d.hint = m.hint
    BY <1>8, <2>2, Zenon DEF Leads
  <2>4. d \in S1
    <3>1. CASE m.hint
      BY <2>3, <3>1, Zenon
    <3>2. CASE \A e \in found : ~e.hint
      BY <3>2, Zenon
    <3> QED
      BY <2>1, <3>1, <3>2, Zenon
  <2> HIDE DEF S1
  <2>5. \/ points[d] > points[m]
        \/ points[d] = points[m] /\ often[d] > often[m]
        \/ points[d] = points[m] /\ often[d] = often[m] /\ value[d] > value[m]
    <3>1. \/ Points(found, d) > Points(found, m)
          \/ Points(found, d) = Points(found, m) /\ Often(found, d) > Often(found, m)
          \/ Points(found, d) = Points(found, m) /\ Often(found, d) = Often(found, m) /\ d.value > m.value
      BY <1>8, <2>2, Zenon DEF Leads
    <3> QED
      BY <1>1a, <2>1, <3>1
  <2>6. points[m] = points[m1] /\ points[d] <= points[m1]
    BY <1>3, <2>1, <2>4
  <2>7. points[d] = points[m]
    BY <1>1, <2>1, <2>5, <2>6
  <2>8. d \in S2
    BY <2>4, <2>6, <2>7
  <2>9. often[m] = often[m2] /\ often[d] <= often[m2]
    BY <1>5, <2>1, <2>8
  <2>10. often[d] = often[m]
    BY <1>1, <2>1, <2>5, <2>7, <2>9
  <2>11. d \in S3
    BY <2>8, <2>9, <2>10
  <2>12. value[d] <= value[m]
    BY <1>7, <2>11
  <2> QED
    BY <1>1, <2>1, <2>5, <2>7, <2>10, <2>12
<1> QED
  BY <1>6, <1>7, <1>8

LEMMA AmountIs ==
  ASSUME NEW lines, NEW payment, NEW found, found = Reader!Slip!Candidates(lines, payment),
         IsFiniteSet(found), found \subseteq Amounts
  PROVE  /\ found = {} => Reader!Slip!AmountOf(lines, payment) = NULL
         /\ found # {} => \E c \in found :
              /\ Reader!Slip!AmountOf(lines, payment) = c.value
              /\ \A d \in found : ~Leads(found, d, c)
<1>1. found = {} => Reader!Slip!AmountOf(lines, payment) = NULL
  BY DEF Reader!Slip!AmountOf
<1>2. ASSUME found # {}
      PROVE  \E c \in found :
              /\ Reader!Slip!AmountOf(lines, payment) = c.value
              /\ \A d \in found : ~Leads(found, d, c)
  <2> DEFINE best == CHOOSE c \in found : \A d \in found : ~Leads(found, d, c)
  <2>1. best \in found /\ \A d \in found : ~Leads(found, d, best)
    BY <1>2, BestExists
  <2>2. Reader!Slip!AmountOf(lines, payment) = best.value
    BY <1>2 DEF Reader!Slip!AmountOf, Leads, Points, Extra, Often
  <2> HIDE DEF best
  <2> QED
    BY <2>1, <2>2
<1> QED
  BY <1>1, <1>2

\* The amount is paid, if every other number is behind one of it.
LEMMA AmountWins ==
  ASSUME NEW lines, NEW payment, NEW found, found = Reader!Slip!Candidates(lines, payment),
         IsFiniteSet(found), found \subseteq Amounts, found # {},
         NEW paid,
         \A d \in found : d.value # paid => \E c \in found : Leads(found, c, d)
  PROVE  Reader!Slip!AmountOf(lines, payment) = paid
BY AmountIs, Zenon

LEMMA SlipMax ==
  ASSUME NEW S, S \subseteq Int, IsFiniteSet(S), S # {}
  PROVE  Reader!Slip!Max(S) \in S /\ \A x \in S : x <= Reader!Slip!Max(S)
<1>1. PICK m \in S : \A x \in S : x <= m
  BY HighestExists
<1>2. Reader!Slip!Max(S) = CHOOSE x \in S : \A y \in S : x >= y
  BY DEF Reader!Slip!Max
<1>3. \E x \in S : \A y \in S : x >= y
  BY <1>1
<1> QED
  BY <1>2, <1>3

LEMMA FirstPlace == ASSUME NEW T, NEW s \in Seq(T), s # <<>> PROVE 1 \in DOMAIN s
<1>1. Len(s) \in Nat /\ DOMAIN s = 1 .. Len(s)
  OBVIOUS
<1>2. Len(s) # 0
  OBVIOUS
<1> QED
  BY <1>1, <1>2

Number == [n : Nat, digits : Nat]

LEMMA LinesAre ==
  ASSUME NEW lines, Printed(lines)
  PROVE  /\ DOMAIN lines = 1 .. Len(lines) /\ Len(lines) \in Nat
         /\ IsFiniteSet(DOMAIN lines) /\ DOMAIN lines \subseteq Int
         /\ \A i \in DOMAIN lines :
              /\ DOMAIN lines[i].values = 1 .. Len(lines[i].values)
              /\ Len(lines[i].values) \in Nat /\ IsFiniteSet(DOMAIN lines[i].values)
              /\ \A n \in DOMAIN lines[i].values :
                   lines[i].values[n].n \in Nat /\ lines[i].values[n].digits \in Nat
<1>1. DOMAIN lines = 1 .. Len(lines) /\ Len(lines) \in Nat
  BY DEF Printed
<1>2. IsFiniteSet(DOMAIN lines) /\ DOMAIN lines \subseteq Int
  BY <1>1, FS_Interval
<1>3. ASSUME NEW i \in DOMAIN lines
      PROVE  /\ DOMAIN lines[i].values = 1 .. Len(lines[i].values)
             /\ Len(lines[i].values) \in Nat /\ IsFiniteSet(DOMAIN lines[i].values)
             /\ \A n \in DOMAIN lines[i].values :
                  lines[i].values[n].n \in Nat /\ lines[i].values[n].digits \in Nat
  <2>1. lines[i].values \in Seq(Number)
    BY DEF Printed, Number
  <2>2. DOMAIN lines[i].values = 1 .. Len(lines[i].values) /\ Len(lines[i].values) \in Nat
    BY <2>1
  <2>3. IsFiniteSet(DOMAIN lines[i].values)
    BY <2>2, FS_Interval
  <2>4. \A n \in DOMAIN lines[i].values : lines[i].values[n] \in Number
    BY <2>1
  <2>5. \A n \in DOMAIN lines[i].values :
          lines[i].values[n].n \in Nat /\ lines[i].values[n].digits \in Nat
    BY <2>4 DEF Number
  <2> QED
    BY <2>2, <2>3, <2>5
<1> QED
  BY <1>1, <1>2, <1>3

\* What the lines say of cash and of the total.
Largest(lines, i) == Reader!Slip!Max({v.n : v \in ToSet(lines[i].values)})
LastOf(lines, S) == Largest(lines, Reader!Slip!Max(S))
Spoken(lines) == {i \in DOMAIN lines : lines[i].values # <<>>}
Given(lines) == {i \in Spoken(lines) : Reader!Slip!Says(lines, i, {"received"})}
Back(lines) == {i \in Spoken(lines) \ Given(lines) : Reader!Slip!Says(lines, i, {"change"})}
Summed(lines) ==
  {i \in Spoken(lines) \ (Given(lines) \cup Back(lines)) : Reader!Slip!Says(lines, i, {"total"})}

LEMMA CashIs ==
  ASSUME NEW lines
  PROVE  LET given == LastOf(lines, Given(lines))
             back == LastOf(lines, Back(lines))
         IN  Reader!Slip!CashTotal(lines)
               = IF Summed(lines) # {} THEN LastOf(lines, Summed(lines))
                 ELSE IF Given(lines) # {} /\ Back(lines) # {}
                      THEN IF given > back THEN given - back ELSE NULL
                 ELSE NULL
<1>1. CASE Summed(lines) # {}
  BY <1>1 DEF Reader!Slip!CashTotal, Summed, Given, Back, Spoken, LastOf, Largest, ToSet, Reader!Slip!ToSet
<1>2. CASE Summed(lines) = {}
  BY <1>2 DEF Reader!Slip!CashTotal, Summed, Given, Back, Spoken, LastOf, Largest, ToSet, Reader!Slip!ToSet
<1> QED
  BY <1>1, <1>2

LEMMA LargestIs ==
  ASSUME NEW lines, Printed(lines), NEW i \in Spoken(lines)
  PROVE  /\ \E n \in DOMAIN lines[i].values : Largest(lines, i) = lines[i].values[n].n
         /\ Largest(lines, i) \in Nat
<1> DEFINE S == {v.n : v \in ToSet(lines[i].values)}
           f == [n \in DOMAIN lines[i].values |-> lines[i].values[n].n]
<1>1. S = {f[n] : n \in DOMAIN lines[i].values}
  BY DEF ToSet
<1>2. IsFiniteSet(DOMAIN lines[i].values) /\ \A n \in DOMAIN lines[i].values : f[n] \in Nat
  BY LinesAre DEF Spoken
<1>3. DOMAIN lines[i].values # {}
  <2>1. lines[i].values \in Seq(Number) /\ lines[i].values # <<>>
    BY DEF Spoken, Printed, Number
  <2> DEFINE values == lines[i].values
  <2>2. values \in Seq(Number) /\ values # <<>>
    BY <2>1
  <2> HIDE DEF values
  <2>3. 1 \in DOMAIN values
    BY <2>2, FirstPlace
  <2> QED
    BY <2>3 DEF values
<1>4. IsFiniteSet(S)
  <2> HIDE DEF f, S
  <2> QED
    BY <1>1, <1>2, ImageFinite
<1>5. S # {} /\ S \subseteq Int
  <2> HIDE DEF f, S
  <2> QED
    BY <1>1, <1>2, <1>3
<1>6. Largest(lines, i) \in S
  <2> HIDE DEF S
  <2>1. Reader!Slip!Max(S) \in S
    BY <1>4, <1>5, SlipMax
  <2> QED
    BY <2>1 DEF Largest, S
<1>7. PICK n \in DOMAIN lines[i].values : Largest(lines, i) = f[n]
  <2> HIDE DEF f, S
  <2> QED
    BY <1>1, <1>6
<1> QED
  BY <1>2, <1>7

LEMMA LastIn ==
  ASSUME NEW lines, Printed(lines), NEW S, S \subseteq Spoken(lines), S # {}
  PROVE  Reader!Slip!Max(S) \in S /\ \A i \in S : i <= Reader!Slip!Max(S)
<1>1. S \subseteq DOMAIN lines
  BY DEF Spoken
<1>2. IsFiniteSet(S) /\ S \subseteq Int
  BY <1>1, LinesAre, FS_Subset
<1> QED
  BY <1>2, SlipMax

LEMMA CashType ==
  ASSUME NEW lines, Printed(lines)
  PROVE  Reader!Slip!CashTotal(lines) \in Nat \cup {NULL}
<1>1. ASSUME NEW S, S \subseteq Spoken(lines), S # {} PROVE LastOf(lines, S) \in Nat
  <2>1. Reader!Slip!Max(S) \in Spoken(lines)
    BY <1>1, LastIn
  <2> QED
    BY <2>1, LargestIs DEF LastOf
<1>2. /\ Summed(lines) \subseteq Spoken(lines) /\ Given(lines) \subseteq Spoken(lines)
      /\ Back(lines) \subseteq Spoken(lines)
  BY DEF Summed, Given, Back
<1>3. Summed(lines) # {} => LastOf(lines, Summed(lines)) \in Nat
  BY <1>1, <1>2
<1>4. Given(lines) # {} => LastOf(lines, Given(lines)) \in Nat
  BY <1>1, <1>2
<1>5. Back(lines) # {} => LastOf(lines, Back(lines)) \in Nat
  BY <1>1, <1>2
<1> QED
  BY <1>3, <1>4, <1>5, CashIs

\* How well a number stands, its line aside.
Around(lines, i, words) == \E j \in {i - 1, i, i + 1} : Reader!Slip!Says(lines, j, words)

Merit(lines, i, n) ==
  (IF Around(lines, i, {"paid"}) THEN 10 ELSE 0) + (IF Around(lines, i, {"won"}) THEN 6 ELSE 0)
    + (IF n >= 1000 THEN 8 ELSE 0) + (IF n >= 10000 THEN 4 ELSE 0)
    + (IF Reader!Slip!Below(lines, i, 45) THEN 10 ELSE 0) + (IF i > Len(lines) - 5 THEN 4 ELSE 0)

LEMMA MeritIs ==
  ASSUME NEW lines, NEW i, NEW n
  PROVE  Merit(lines, i, n) \in 0 .. 42
BY DEF Merit

Beside(lines, i) ==
  Reader!Slip!Says(lines, i - 1, {"total"}) \/ Reader!Slip!Says(lines, i + 1, {"total"})

LEMMA DirectScoreIs ==
  ASSUME NEW lines, NEW payment, NEW i, NEW n
  PROVE  LET score == Reader!Slip!DirectScore(lines, payment, i, n)
             total == Reader!Slip!Says(lines, i, {"total"})
             lone == Len(lines[i].values) = 1
             tender == Reader!Slip!Says(lines, i, {"tender"})
             item == Reader!Slip!Says(lines, i, {"item"})
             standing == Merit(lines, i, lines[i].values[n].n)
         IN  /\ score \in Int
             /\ total => score <= 84 + standing
             /\ ~total /\ Beside(lines, i) => score <= 50 + standing
             /\ total /\ lone /\ ~tender => score = 84 + standing
             /\ ~total /\ Beside(lines, i) /\ lone /\ ~tender /\ ~item => score = 50 + standing
<1> DEFINE score == Reader!Slip!DirectScore(lines, payment, i, n)
           total == Reader!Slip!Says(lines, i, {"total"})
           beside == Beside(lines, i)
           many == Len(lines[i].values)
           tender == Reader!Slip!Says(lines, i, {"tender"})
           item == Reader!Slip!Says(lines, i, {"item"})
           standing == Merit(lines, i, lines[i].values[n].n)
           a == IF total THEN 62 ELSE IF beside THEN 38 ELSE 0
           b == IF many = 1 /\ total THEN 10 ELSE 0
           c == IF item /\ ~total THEN 30 ELSE 0
           d == IF many >= 3 /\ ~total THEN 22 ELSE 0
           e == IF lines[i].values[n].digits >= 7 /\ ~total /\ ~beside THEN 32 ELSE 0
           f == IF Around(lines, i, {"reject"}) /\ ~total /\ ~beside THEN 55 ELSE 0
           g == IF payment = "cash" /\ tender THEN 18 ELSE 0
           h == IF Reader!Slip!Above(lines, i, 22) /\ ~total /\ ~beside THEN 12 ELSE 0
           p == IF Around(lines, i, {"paid"}) THEN 10 ELSE 0
           w == IF Around(lines, i, {"won"}) THEN 6 ELSE 0
           k == IF lines[i].values[n].n >= 1000 THEN 8 ELSE 0
           l == IF lines[i].values[n].n >= 10000 THEN 4 ELSE 0
           u == IF Reader!Slip!Below(lines, i, 45) THEN 10 ELSE 0
           t == IF i > Len(lines) - 5 THEN 4 ELSE 0
<1>1. score = 12 + a + p + w + k + l + u + t + b - c - d - e - f - g - h
  BY DEF Reader!Slip!DirectScore, Reader!Slip!If, Around, Beside
<1>2. standing = p + w + k + l + u + t
  BY Zenon DEF Merit
<1>3. p \in {0, 10} /\ w \in {0, 6} /\ k \in {0, 8} /\ l \in {0, 4} /\ u \in {0, 10} /\ t \in {0, 4}
  OBVIOUS
<1>3a. b \in {0, 10} /\ c \in {0, 30} /\ d \in {0, 22} /\ e \in {0, 32}
  BY Zenon
<1>3b. f \in {0, 55} /\ g \in {0, 18} /\ h \in {0, 12} /\ a \in {0, 38, 62}
  BY Zenon
<1>4. total => a = 62 /\ c = 0 /\ d = 0 /\ e = 0 /\ f = 0 /\ h = 0
  BY Zenon
<1>5. ~total /\ beside => a = 38 /\ b = 0 /\ e = 0 /\ f = 0 /\ h = 0
  BY Zenon
<1>6. total /\ many = 1 => b = 10
  BY Zenon
<1>7. ~tender => g = 0
  BY Zenon
<1>8. ~item => c = 0
  BY Zenon
<1>9. many = 1 => d = 0
  OBVIOUS
<1> HIDE DEF score, total, beside, many, tender, item, standing, a, b, c, d, e, f, g, h, p, w, k, l, u, t
<1>10. /\ score \in Int
       /\ total => score <= 84 + standing
       /\ ~total /\ beside => score <= 50 + standing
       /\ total /\ many = 1 /\ ~tender => score = 84 + standing
       /\ ~total /\ beside /\ many = 1 /\ ~tender /\ ~item => score = 50 + standing
  BY <1>1, <1>2, <1>3, <1>3a, <1>3b, <1>4, <1>5, <1>6, <1>7, <1>8, <1>9
<1> QED
  BY <1>10 DEF score, total, beside, many, tender, item, standing

\* A number next to the label at line i.
NearScore(lines, i, j, n) ==
  (IF j > i THEN 74 - 6 * (j - i) ELSE 70 - 6 * (i - j))
    + (IF Reader!Slip!Below(lines, j, 45) THEN 10 ELSE 0)
    + (IF lines[j].values[n].n >= 1000 THEN 8 ELSE 0)

\* Where a number of line i stands for itself, and where it is reached from line i.
AtPlace(lines, payment, i, n) ==
  Reader!Slip!Candidate(i, i, n, lines[i].values[n].n,
    Reader!Slip!DirectScore(lines, payment, i, n), Around(lines, i, {"total"}))

FromLabel(lines, i, j, n) ==
  Reader!Slip!Candidate(i, j, n, lines[j].values[n].n, NearScore(lines, i, j, n), TRUE)

ByCash(lines) == Reader!Slip!Candidate(0, 0, 0, Reader!Slip!CashTotal(lines), 88, TRUE)

LEMMA DirectIs ==
  ASSUME NEW lines, NEW payment, NEW i
  PROVE  Reader!Slip!Direct(lines, payment, i)
           = IF Reader!Slip!Suspect(lines, i) /\ ~Around(lines, i, {"total"}) THEN {}
             ELSE {AtPlace(lines, payment, i, n) : n \in Reader!Slip!Numbers(lines, i)}
BY DEF Reader!Slip!Direct, AtPlace, Around

LEMMA NearbyIs ==
  ASSUME NEW lines, NEW i
  PROVE  Reader!Slip!Nearby(lines, i)
           = IF lines[i].values # <<>> \/ ~Reader!Slip!Says(lines, i, {"total"}) THEN {}
             ELSE UNION {{FromLabel(lines, i, j, n) : n \in Reader!Slip!Numbers(lines, j)} :
                           j \in Reader!Slip!Reached(lines, i)}
BY DEF Reader!Slip!Nearby, FromLabel, NearScore, Reader!Slip!If

Parts(lines, payment) ==
  {Reader!Slip!Direct(lines, payment, i) \cup Reader!Slip!Nearby(lines, i) : i \in DOMAIN lines}

CashPart(lines) == IF Reader!Slip!CashTotal(lines) = NULL THEN {} ELSE {ByCash(lines)}

LEMMA FoundParts ==
  ASSUME NEW lines, NEW payment
  PROVE  Reader!Slip!Candidates(lines, payment) = (UNION Parts(lines, payment)) \cup CashPart(lines)
BY DEF Reader!Slip!Candidates, Parts, CashPart, ByCash

LEMMA FoundIs ==
  ASSUME NEW lines, NEW payment, NEW d
  PROVE  d \in Reader!Slip!Candidates(lines, payment) <=>
           \/ \E i \in DOMAIN lines : \/ d \in Reader!Slip!Direct(lines, payment, i)
                                      \/ d \in Reader!Slip!Nearby(lines, i)
           \/ Reader!Slip!CashTotal(lines) # NULL /\ d = ByCash(lines)
<1>1. d \in UNION Parts(lines, payment)
        <=> \E i \in DOMAIN lines : \/ d \in Reader!Slip!Direct(lines, payment, i)
                                   \/ d \in Reader!Slip!Nearby(lines, i)
  BY Zenon DEF Parts
<1>2. d \in CashPart(lines) <=> Reader!Slip!CashTotal(lines) # NULL /\ d = ByCash(lines)
  BY Zenon DEF CashPart
<1>3. d \in Reader!Slip!Candidates(lines, payment)
        <=> d \in UNION Parts(lines, payment) \/ d \in CashPart(lines)
  BY FoundParts
<1> QED
  BY <1>1, <1>2, <1>3, Zenon

LEMMA CandidateHas ==
  \A by, at, nth, value, score, hint :
    LET c == Reader!Slip!Candidate(by, at, nth, value, score, hint)
    IN  c.by = by /\ c.at = at /\ c.nth = nth /\ c.value = value /\ c.score = score
BY DEF Reader!Slip!Candidate

LEMMA CandidateType ==
  ASSUME NEW by \in Int, NEW at \in Int, NEW nth \in Int, NEW value \in Int, NEW score \in Int,
         NEW hint \in BOOLEAN
  PROVE  Reader!Slip!Candidate(by, at, nth, value, score, hint) \in Amounts
BY Zenon DEF Reader!Slip!Candidate, Amounts

LEMMA NumbersAre ==
  ASSUME NEW lines, Printed(lines), NEW i \in DOMAIN lines
  PROVE  /\ Reader!Slip!Numbers(lines, i) \subseteq DOMAIN lines[i].values
         /\ IsFiniteSet(Reader!Slip!Numbers(lines, i))
         /\ \A n \in Reader!Slip!Numbers(lines, i) :
              n \in Int /\ n >= 1 /\ lines[i].values[n].n \in Nat
<1>1. Reader!Slip!Numbers(lines, i) \subseteq DOMAIN lines[i].values
  BY DEF Reader!Slip!Numbers
<1>2. IsFiniteSet(Reader!Slip!Numbers(lines, i))
  BY <1>1, LinesAre, FS_Subset
<1> QED
  BY <1>1, <1>2, LinesAre

LEMMA NearScoreInt ==
  ASSUME NEW lines, NEW i \in Int, NEW j \in Int, NEW n
  PROVE  NearScore(lines, i, j, n) \in Int
BY DEF NearScore

LEMMA FoundType ==
  ASSUME NEW lines, Printed(lines), NEW payment
  PROVE  Reader!Slip!Candidates(lines, payment) \subseteq Amounts
<1>0. \A i \in DOMAIN lines : i \in Int
  BY LinesAre
<1>1. ASSUME NEW i \in DOMAIN lines, NEW n \in Reader!Slip!Numbers(lines, i)
      PROVE  AtPlace(lines, payment, i, n) \in Amounts
  <2>1. Around(lines, i, {"total"}) \in BOOLEAN
    BY DEF Around
  <2>2. Reader!Slip!DirectScore(lines, payment, i, n) \in Int
    BY DirectScoreIs
  <2>3. n \in Int /\ lines[i].values[n].n \in Int /\ i \in Int
    BY <1>0, <1>1, NumbersAre
  <2> QED
    BY <2>1, <2>2, <2>3, CandidateType, Zenon DEF AtPlace
<1>2. ASSUME NEW i \in DOMAIN lines, NEW j \in DOMAIN lines, NEW n \in Reader!Slip!Numbers(lines, j)
      PROVE  FromLabel(lines, i, j, n) \in Amounts
  <2>1. i \in Int /\ j \in Int /\ n \in Int /\ lines[j].values[n].n \in Int
    BY <1>0, <1>2, NumbersAre
  <2>2. NearScore(lines, i, j, n) \in Int
    BY <2>1, NearScoreInt
  <2>3. TRUE \in BOOLEAN
    OBVIOUS
  <2> QED
    BY <2>1, <2>2, <2>3, CandidateType, Zenon DEF FromLabel
<1>3. Reader!Slip!CashTotal(lines) # NULL => ByCash(lines) \in Amounts
  <2> SUFFICES ASSUME Reader!Slip!CashTotal(lines) # NULL PROVE ByCash(lines) \in Amounts
    OBVIOUS
  <2>1. Reader!Slip!CashTotal(lines) \in Int
    BY CashType
  <2>2. 0 \in Int /\ 88 \in Int /\ TRUE \in BOOLEAN
    OBVIOUS
  <2> QED
    BY <2>1, <2>2, CandidateType, Zenon DEF ByCash
<1>4. ASSUME NEW i \in DOMAIN lines, NEW d \in Reader!Slip!Direct(lines, payment, i)
      PROVE  d \in Amounts
  BY <1>1, <1>4, DirectIs
<1>5. ASSUME NEW i \in DOMAIN lines, NEW d \in Reader!Slip!Nearby(lines, i)
      PROVE  d \in Amounts
  <2>1. Reader!Slip!Reached(lines, i) \subseteq DOMAIN lines
    BY DEF Reader!Slip!Reached
  <2> QED
    BY <1>2, <1>5, <2>1, NearbyIs
<1> QED
  BY <1>3, <1>4, <1>5, FoundIs

LEMMA FoundFinite ==
  ASSUME NEW lines, Printed(lines), NEW payment
  PROVE  IsFiniteSet(Reader!Slip!Candidates(lines, payment))
<1>1. ASSUME NEW i \in DOMAIN lines
      PROVE  IsFiniteSet(Reader!Slip!Direct(lines, payment, i))
  <2> DEFINE N == Reader!Slip!Numbers(lines, i)
             f == [n \in N |-> AtPlace(lines, payment, i, n)]
             S == {AtPlace(lines, payment, i, n) : n \in N}
  <2>1. S = {f[n] : n \in N}
    OBVIOUS
  <2>2. IsFiniteSet({f[n] : n \in N})
    <3> HIDE DEF f
    <3> QED
      BY <1>1, NumbersAre, ImageFinite
  <2>3. Reader!Slip!Direct(lines, payment, i) \in {{}, S}
    BY DirectIs
  <2> HIDE DEF f, S
  <2> QED
    BY <2>1, <2>2, <2>3, FS_EmptySet
<1>2. ASSUME NEW i \in DOMAIN lines
      PROVE  IsFiniteSet(Reader!Slip!Nearby(lines, i))
  <2> DEFINE R == Reader!Slip!Reached(lines, i)
             T(j) == {FromLabel(lines, i, j, n) : n \in Reader!Slip!Numbers(lines, j)}
             U == {T(j) : j \in R}
             g == [j \in R |-> T(j)]
  <2>0. R \subseteq DOMAIN lines
    BY DEF Reader!Slip!Reached
  <2>1. IsFiniteSet(R)
    BY <2>0, LinesAre, FS_Subset
  <2>2. ASSUME NEW j \in R PROVE IsFiniteSet(T(j))
    <3> DEFINE N == Reader!Slip!Numbers(lines, j)
               f == [n \in N |-> FromLabel(lines, i, j, n)]
    <3>1. T(j) = {f[n] : n \in N}
      OBVIOUS
    <3>2. IsFiniteSet(N)
      BY <2>0, <2>2, NumbersAre
    <3> HIDE DEF f, T, N
    <3> QED
      BY <3>1, <3>2, ImageFinite
  <2>3. U = {g[j] : j \in R}
    OBVIOUS
  <2>4. IsFiniteSet(U)
    <3> HIDE DEF g, U, R
    <3> QED
      BY <2>1, <2>3, ImageFinite
  <2>5. IsFiniteSet(UNION U)
    <3> HIDE DEF T
    <3>1. \A x \in U : IsFiniteSet(x)
      BY <2>2
    <3> HIDE DEF U
    <3> QED
      BY <2>4, <3>1, FS_UNION
  <2>6. Reader!Slip!Nearby(lines, i) \in {{}, UNION U}
    BY NearbyIs
  <2> HIDE DEF U
  <2> QED
    BY <2>5, <2>6, FS_EmptySet
<1> DEFINE both == [i \in DOMAIN lines |->
                      Reader!Slip!Direct(lines, payment, i) \cup Reader!Slip!Nearby(lines, i)]
           V == Parts(lines, payment)
<1>3. \A i \in DOMAIN lines : IsFiniteSet(both[i])
  BY <1>1, <1>2, FS_Union
<1>4. V = {both[i] : i \in DOMAIN lines}
  BY DEF Parts
<1> HIDE DEF both, V
<1>5. IsFiniteSet(V)
  BY <1>4, LinesAre, ImageFinite
<1>6. \A x \in V : IsFiniteSet(x)
  BY <1>3, <1>4
<1>7. IsFiniteSet(UNION V)
  BY <1>5, <1>6, FS_UNION
<1>8. IsFiniteSet(CashPart(lines))
  <2>1. CashPart(lines) = {} \/ CashPart(lines) = {ByCash(lines)}
    BY Zenon DEF CashPart
  <2>2. IsFiniteSet({}) /\ IsFiniteSet({ByCash(lines)})
    BY FS_EmptySet, FS_Singleton
  <2> QED
    BY <2>1, <2>2
<1>9. Reader!Slip!Candidates(lines, payment) = (UNION V) \cup CashPart(lines)
  BY FoundParts DEF V
<1> QED
  BY <1>7, <1>8, <1>9, FS_Union

LEMMA SaysIs ==
  ASSUME NEW lines, NEW i, NEW w
  PROVE  Reader!Slip!Says(lines, i, {w}) <=> i \in DOMAIN lines /\ w \in lines[i].words
BY DEF Reader!Slip!Says

LEMMA LargestOne ==
  ASSUME NEW lines, Printed(lines), NEW i \in DOMAIN lines, Len(lines[i].values) = 1
  PROVE  i \in Spoken(lines) /\ Largest(lines, i) = lines[i].values[1].n
<1>1. i \in Spoken(lines)
  <2>1. Len(<<>>) = 0
    OBVIOUS
  <2> QED
    BY <2>1 DEF Spoken
<1>2. PICK n \in DOMAIN lines[i].values : Largest(lines, i) = lines[i].values[n].n
  BY <1>1, LargestIs
<1>3. DOMAIN lines[i].values = 1 .. 1
  BY LinesAre
<1>4. n = 1
  BY <1>2, <1>3
<1> QED
  BY <1>1, <1>2, <1>4

LEMMA LastOne ==
  ASSUME NEW lines, Printed(lines), NEW i \in DOMAIN lines, Len(lines[i].values) = 1
  PROVE  LastOf(lines, {i}) = lines[i].values[1].n
<1>1. i \in Spoken(lines) /\ Largest(lines, i) = lines[i].values[1].n
  BY LargestOne
<1>2. Reader!Slip!Max({i}) = i
  <2>1. {i} \subseteq Spoken(lines) /\ {i} # {}
    BY <1>1
  <2> QED
    BY <2>1, LastIn
<1> QED
  BY <1>1, <1>2 DEF LastOf

LEMMA CashHas ==
  \A lines : ByCash(lines).hint = TRUE /\ ByCash(lines).value = Reader!Slip!CashTotal(lines)
               /\ ByCash(lines).score = 88 /\ ByCash(lines).at = 0
BY DEF ByCash, Reader!Slip!Candidate

LEMMA PlaceHas ==
  ASSUME NEW lines, NEW payment, NEW i, NEW n, NEW d, d = AtPlace(lines, payment, i, n)
  PROVE  /\ d.value = lines[i].values[n].n /\ d.by = i /\ d.at = i /\ d.nth = n
         /\ d.score = Reader!Slip!DirectScore(lines, payment, i, n)
         /\ d.hint <=> Around(lines, i, {"total"})
BY Zenon DEF AtPlace, Reader!Slip!Candidate

LEMMA LabelHas ==
  ASSUME NEW lines, NEW i, NEW j, NEW n, NEW d, d = FromLabel(lines, i, j, n)
  PROVE  /\ d.value = lines[j].values[n].n /\ d.by = i /\ d.at = j /\ d.nth = n
         /\ d.score = NearScore(lines, i, j, n)
         /\ d.hint
BY Zenon DEF FromLabel, Reader!Slip!Candidate

LEMMA LabelsNear ==
  ASSUME NEW lines, NEW i, NEW d \in Reader!Slip!Nearby(lines, i)
  PROVE  /\ lines[i].values = <<>> /\ Reader!Slip!Says(lines, i, {"total"})
         /\ \E j \in Reader!Slip!Reached(lines, i) :
              \E n \in Reader!Slip!Numbers(lines, j) : d = FromLabel(lines, i, j, n)
<1>1. lines[i].values = <<>> /\ Reader!Slip!Says(lines, i, {"total"})
  BY NearbyIs
<1>2. d \in UNION {{FromLabel(lines, i, j, n) : n \in Reader!Slip!Numbers(lines, j)} :
                   j \in Reader!Slip!Reached(lines, i)}
  BY <1>1, NearbyIs
<1> QED
  BY <1>1, <1>2

\* What was handed over less what was handed back.
LEMMA HandedOverRead ==
  ASSUME NEW lines, Printed(lines), NEW payment, NEW paid \in Nat \cup {NULL},
         Reader!Slip!HandedOver(lines, paid)
  PROVE  Reader!Slip!AmountOf(lines, payment) = paid
<1> DEFINE found == Reader!Slip!Candidates(lines, payment)
<1>1. PICK r \in DOMAIN lines, c \in DOMAIN lines :
         /\ {i \in DOMAIN lines : "received" \in lines[i].words} = {r}
         /\ {i \in DOMAIN lines : "change" \in lines[i].words} \ {r} = {c}
         /\ Len(lines[r].values) = 1 /\ Len(lines[c].values) = 1
         /\ paid = lines[r].values[1].n - lines[c].values[1].n /\ paid > 0
  BY DEF Reader!Slip!HandedOver
<1>2. \A i : ~Reader!Slip!Says(lines, i, {"total"})
  BY SaysIs DEF Reader!Slip!HandedOver, Reader!Slip!Totals
<1>3. Summed(lines) = {}
  BY <1>2 DEF Summed
<1>4. r \in Spoken(lines) /\ c \in Spoken(lines) /\ Spoken(lines) \subseteq DOMAIN lines
  BY <1>1, LargestOne DEF Spoken
<1>5. Given(lines) = {r}
  BY <1>1, <1>4, SaysIs DEF Given
<1>6. Back(lines) = {c}
  BY <1>1, <1>4, <1>5, SaysIs DEF Back
<1>7. LastOf(lines, Given(lines)) = lines[r].values[1].n
      /\ LastOf(lines, Back(lines)) = lines[c].values[1].n
  BY <1>1, <1>5, <1>6, LastOne
<1>8. lines[r].values[1].n \in Nat /\ lines[c].values[1].n \in Nat
  <2>1. 1 \in DOMAIN lines[r].values /\ 1 \in DOMAIN lines[c].values
    BY <1>1, LinesAre
  <2> QED
    BY <2>1, LinesAre
<1>9. Reader!Slip!CashTotal(lines) = paid /\ paid \in Int
  <2>1. LastOf(lines, Given(lines)) > LastOf(lines, Back(lines))
        /\ LastOf(lines, Given(lines)) - LastOf(lines, Back(lines)) = paid /\ paid \in Int
    BY <1>1, <1>7, <1>8
  <2>2. Given(lines) # {} /\ Back(lines) # {}
    BY <1>5, <1>6
  <2> QED
    BY <2>1, <2>2, <1>3, CashIs
<1>10. paid # NULL
  BY <1>9, NullNoNumber
<1>11. ByCash(lines) \in found
  BY <1>9, <1>10, FoundIs
<1>12. ASSUME NEW d \in found, d.value # paid PROVE Leads(found, ByCash(lines), d)
  <2>1. d # ByCash(lines)
    BY <1>9, <1>12, CashHas
  <2>2. PICK i \in DOMAIN lines : d \in Reader!Slip!Direct(lines, payment, i)
    <3>1. \A i : Reader!Slip!Nearby(lines, i) = {}
      BY <1>2, NearbyIs
    <3> QED
      BY <2>1, <3>1, FoundIs
  <2>3. PICK n \in Reader!Slip!Numbers(lines, i) : d = AtPlace(lines, payment, i, n)
    BY <2>2, DirectIs
  <2>4. ~Around(lines, i, {"total"})
    BY <1>2 DEF Around
  <2>5. ~d.hint
    BY <2>3, <2>4, PlaceHas
  <2>6. ByCash(lines).hint
    BY CashHas
  <2> QED
    BY <2>5, <2>6, Zenon DEF Leads
<1>13. IsFiniteSet(found) /\ found \subseteq Amounts
  BY FoundFinite, FoundType
<1> HIDE DEF found
<1> QED
  BY <1>11, <1>12, <1>13, AmountWins DEF found

\* The only number.
LEMMA AloneRead ==
  ASSUME NEW lines, Printed(lines), NEW payment, NEW paid \in Nat \cup {NULL},
         Reader!Slip!Alone(lines, paid)
  PROVE  Reader!Slip!AmountOf(lines, payment) = paid
<1> DEFINE found == Reader!Slip!Candidates(lines, payment)
<1>0. IsFiniteSet(found) /\ found \subseteq Amounts
  BY FoundFinite, FoundType
<1>1. ASSUME NEW d \in found
      PROVE  \/ \E i \in DOMAIN lines : \E n \in DOMAIN lines[i].values : d.value = lines[i].values[n].n
             \/ Reader!Slip!CashTotal(lines) # NULL /\ d = ByCash(lines)
  <2>1. ASSUME NEW i \in DOMAIN lines, d \in Reader!Slip!Direct(lines, payment, i)
        PROVE  \E n \in DOMAIN lines[i].values : d.value = lines[i].values[n].n
    <3>1. PICK n \in Reader!Slip!Numbers(lines, i) : d = AtPlace(lines, payment, i, n)
      BY <2>1, DirectIs
    <3> QED
      BY <3>1, PlaceHas, NumbersAre
  <2>2. ASSUME NEW i \in DOMAIN lines, d \in Reader!Slip!Nearby(lines, i)
        PROVE  \E j \in DOMAIN lines : \E n \in DOMAIN lines[j].values : d.value = lines[j].values[n].n
    <3>1. PICK j \in Reader!Slip!Reached(lines, i) :
            \E n \in Reader!Slip!Numbers(lines, j) : d = FromLabel(lines, i, j, n)
      BY <2>2, LabelsNear
    <3>2. PICK n \in Reader!Slip!Numbers(lines, j) : d = FromLabel(lines, i, j, n)
      BY <3>1, Zenon
    <3>3. j \in DOMAIN lines
      BY <3>1 DEF Reader!Slip!Reached
    <3>4. d.value = lines[j].values[n].n
      BY <3>2, LabelHas
    <3>5. n \in DOMAIN lines[j].values
      BY <3>3, NumbersAre
    <3> QED
      BY <3>3, <3>4, <3>5
  <2> QED
    BY <2>1, <2>2, FoundIs
<1>2. CASE paid = NULL /\ \A i \in DOMAIN lines : lines[i].values = <<>>
  <2>1. Spoken(lines) = {}
    BY <1>2 DEF Spoken
  <2>2. Reader!Slip!CashTotal(lines) = NULL
    <3>1. Summed(lines) = {} /\ Given(lines) = {}
      BY <2>1 DEF Summed, Given
    <3> QED
      BY <3>1, CashIs
  <2>3. \A i \in DOMAIN lines : DOMAIN lines[i].values = {}
    BY <1>2
  <2>4. found = {}
    <3> HIDE DEF found
    <3> QED
      BY <1>1, <2>2, <2>3
  <2> HIDE DEF found
  <2> QED
    BY <1>0, <1>2, <2>4, AmountIs DEF found
<1>3. CASE /\ \E i \in DOMAIN lines :
                Reader!Slip!Numbers(lines, i) # {} /\ ~Reader!Slip!Suspect(lines, i)
           /\ \A i \in DOMAIN lines : \A n \in DOMAIN lines[i].values : lines[i].values[n].n = paid
  <2>1. PICK i \in DOMAIN lines :
          Reader!Slip!Numbers(lines, i) # {} /\ ~Reader!Slip!Suspect(lines, i)
    BY <1>3
  <2>2. PICK n \in Reader!Slip!Numbers(lines, i) : TRUE
    BY <2>1
  <2>3. AtPlace(lines, payment, i, n) \in found
    BY <2>1, <2>2, DirectIs, FoundIs
  <2>4. ASSUME NEW S, S \subseteq Spoken(lines), S # {} PROVE LastOf(lines, S) = paid
    <3>1. Reader!Slip!Max(S) \in Spoken(lines)
      BY <2>4, LastIn
    <3>2. PICK m \in DOMAIN lines[Reader!Slip!Max(S)].values :
            Largest(lines, Reader!Slip!Max(S)) = lines[Reader!Slip!Max(S)].values[m].n
      BY <3>1, LargestIs
    <3>3. Reader!Slip!Max(S) \in DOMAIN lines
      BY <3>1 DEF Spoken
    <3> QED
      BY <1>3, <3>2, <3>3 DEF LastOf
  <2>5. paid \in Nat
    BY <1>3, <2>2, NumbersAre
  <2>6. Reader!Slip!CashTotal(lines) \in {NULL, paid}
    <3>1. /\ Summed(lines) \subseteq Spoken(lines) /\ Given(lines) \subseteq Spoken(lines)
          /\ Back(lines) \subseteq Spoken(lines)
      BY DEF Summed, Given, Back
    <3>2. Summed(lines) # {} => LastOf(lines, Summed(lines)) = paid
      BY <2>4, <3>1
    <3>3. Given(lines) # {} => LastOf(lines, Given(lines)) = paid
      BY <2>4, <3>1
    <3>4. Back(lines) # {} => LastOf(lines, Back(lines)) = paid
      BY <2>4, <3>1
    <3> QED
      BY <2>5, <3>2, <3>3, <3>4, CashIs
  <2>7. \A d \in found : d.value = paid
    <3> HIDE DEF found
    <3> QED
      BY <1>1, <1>3, <2>6, CashHas
  <2> HIDE DEF found
  <2>8. \A d \in found : d.value # paid => \E c \in found : Leads(found, c, d)
    BY <2>7
  <2> QED
    BY <1>0, <2>3, <2>8, AmountWins DEF found
<1> QED
  BY <1>2, <1>3, Zenon DEF Reader!Slip!Alone

=============================================================================
