----------------------------- MODULE RowProofs ------------------------------
(* Finite sets of rows.  The n newest of a set of numbered rows: what makes   *)
(* room in the store of authorization codes, and what a page of the commit    *)
(* list shows.  Sums over rows: what queries of metrics return.               *)
EXTENDS Integers, FiniteSets, FiniteSetTheorems, WellFoundedInduction, TLAPS

LEMMA LeastNumber ==
  ASSUME NEW S \in SUBSET Nat, S # {}
  PROVE  \E m \in S : \A n \in S : m <= n
<1> DEFINE R == OpToRel(<, Nat)
<1>1. IsWellFoundedOn(R, Nat)
  BY NatLessThanWellFounded
<1>2. \A x, y \in Nat : x < y => <<x, y>> \in R
  BY DEF OpToRel
<1> HIDE DEF R
<1>3. PICK m \in S : \A n \in S : <<n, m>> \notin R
  BY <1>1, WFMin
<1>4. ASSUME NEW n \in S PROVE m <= n
  <2>1. <<n, m>> \notin R
    BY <1>3
  <2>2. m \in Nat /\ n \in Nat
    OBVIOUS
  <2>3. ~(n < m)
    BY <1>2, <2>1, <2>2, Zenon
  <2> QED
    BY <2>2, <2>3
<1> QED
  BY <1>4

LEMMA GreatestNumber ==
  ASSUME NEW bound \in Nat, NEW S \in SUBSET (0 .. bound), S # {}
  PROVE  \E m \in S : \A n \in S : n <= m
<1> DEFINE T == {bound - n : n \in S}
<1>0. \A n \in S : n \in Nat /\ bound - n \in Nat
  OBVIOUS
<1>1. T \in SUBSET Nat /\ T # {}
  BY <1>0
<1>2. PICK k \in T : \A n \in T : k <= n
  BY <1>1, LeastNumber
<1>3. PICK m \in S : k = bound - m
  OBVIOUS
<1>4. ASSUME NEW n \in S PROVE n <= m
  <2>1. bound - m <= bound - n
    BY <1>2, <1>3
  <2> QED
    BY <1>0, <1>3, <2>1
<1> QED
  BY <1>4

-----------------------------------------------------------------------------

\* Finitely many rows of which no two have a number in common.
Numbered(S, bound) ==
  /\ IsFiniteSet(S)
  /\ \A c \in S : c.id \in 0 .. bound
  /\ \A c, d \in S : c.id = d.id => c = d

\* The rows of a set that are newer than one of them.
NewerIn(S, c) == {d \in S : d.id > c.id}

\* The n newest rows of a set.
Youngest(S, n) == {c \in S : Cardinality(NewerIn(S, c)) < n}

LEMMA NumberedSubset ==
  ASSUME NEW bound, NEW S, Numbered(S, bound), NEW T \in SUBSET S
  PROVE  Numbered(T, bound)
BY FS_Subset DEF Numbered

LEMMA OldestRow ==
  ASSUME NEW bound \in Nat, NEW S, Numbered(S, bound), S # {}
  PROVE  \E c \in S : \A d \in S : c.id <= d.id
<1> DEFINE ids == {c.id : c \in S}
<1>1. ids \in SUBSET Nat /\ ids # {}
  BY DEF Numbered
<1>2. PICK m \in ids : \A n \in ids : m <= n
  BY <1>1, LeastNumber
<1> QED
  BY <1>2

LEMMA NewestRow ==
  ASSUME NEW bound \in Nat, NEW S, Numbered(S, bound), S # {}
  PROVE  \E c \in S : \A d \in S : d.id <= c.id
<1> DEFINE ids == {c.id : c \in S}
<1>1. ids \in SUBSET (0 .. bound) /\ ids # {}
  BY DEF Numbered
<1>2. PICK m \in ids : \A n \in ids : n <= m
  BY <1>1, GreatestNumber
<1> QED
  BY <1>2

LEMMA NewerAreFinite ==
  ASSUME NEW bound, NEW S, Numbered(S, bound), NEW c
  PROVE  IsFiniteSet(NewerIn(S, c)) /\ Cardinality(NewerIn(S, c)) \in Nat
BY FS_Subset, FS_CardinalityType DEF NewerIn, Numbered

\* The n newest are at most n.
LEMMA YoungestAreFew ==
  ASSUME NEW bound \in Nat, NEW S, Numbered(S, bound), NEW n \in Nat
  PROVE  IsFiniteSet(Youngest(S, n)) /\ Cardinality(Youngest(S, n)) <= n
<1> DEFINE K == Youngest(S, n)
<1>1. K \in SUBSET S
  BY DEF Youngest
<1>2. IsFiniteSet(K) /\ Numbered(K, bound)
  BY <1>1, NumberedSubset DEF Numbered
<1>3. CASE K = {}
  BY <1>2, <1>3, FS_EmptySet
<1>4. CASE K # {}
  <2>1. PICK m \in K : \A d \in K : m.id <= d.id
    BY <1>2, <1>4, OldestRow
  <2>2. K \ {m} \in SUBSET NewerIn(S, m)
    <3> SUFFICES ASSUME NEW d \in K, d # m PROVE d \in S /\ d.id > m.id
      BY DEF NewerIn
    <3>1. d \in S /\ m \in S /\ m.id <= d.id
      BY <1>1, <2>1
    <3> QED
      BY <3>1 DEF Numbered
  <2>3. IsFiniteSet(NewerIn(S, m)) /\ Cardinality(NewerIn(S, m)) \in Nat
    BY NewerAreFinite
  <2>4. Cardinality(K \ {m}) <= Cardinality(NewerIn(S, m))
    BY <2>2, <2>3, FS_Subset
  <2>5. Cardinality(K \ {m}) = Cardinality(K) - 1
    BY <1>2, FS_RemoveElement
  <2>6. Cardinality(NewerIn(S, m)) < n
    BY DEF Youngest
  <2>7. Cardinality(K) \in Nat
    BY <1>2, FS_CardinalityType
  <2>8. Cardinality(K) <= n
    BY <2>3, <2>4, <2>5, <2>6, <2>7
  <2> QED
    BY <1>2, <2>8
<1> QED
  BY <1>3, <1>4

\* A row that is not among the n newest has n newer ones among them.
LEMMA YoungestAreNewer ==
  ASSUME NEW bound \in Nat, NEW S, Numbered(S, bound), NEW n \in Nat,
         NEW c \in S, c \notin Youngest(S, n)
  PROVE  /\ \A d \in Youngest(S, n) : d.id > c.id
         /\ Cardinality(Youngest(S, n)) >= n
<1> DEFINE K == Youngest(S, n)
<1>1. \A e : IsFiniteSet(NewerIn(S, e)) /\ Cardinality(NewerIn(S, e)) \in Nat
  BY NewerAreFinite
<1>2. Cardinality(NewerIn(S, c)) >= n
  BY <1>1 DEF Youngest
<1>3. ASSUME NEW d \in K PROVE d.id > c.id
  <2> SUFFICES ASSUME ~(d.id > c.id) PROVE FALSE
    OBVIOUS
  <2>1. d \in S /\ Cardinality(NewerIn(S, d)) < n
    BY DEF Youngest
  <2>2. NewerIn(S, c) \in SUBSET NewerIn(S, d)
    BY <2>1 DEF NewerIn, Numbered
  <2>3. Cardinality(NewerIn(S, c)) <= Cardinality(NewerIn(S, d))
    BY <1>1, <2>2, FS_Subset
  <2> QED
    BY <1>1, <1>2, <2>1, <2>3
<1>4. Numbered(S \ K, bound) /\ S \ K # {}
  BY NumberedSubset
<1>5. PICK e \in S \ K : \A d \in S \ K : d.id <= e.id
  BY <1>4, NewestRow
<1>6. NewerIn(S, e) \in SUBSET K
  <2> SUFFICES ASSUME NEW d \in S, d.id > e.id, d \notin K PROVE FALSE
    BY DEF NewerIn
  <2> QED
    BY <1>5 DEF Numbered
<1>7. IsFiniteSet(K) /\ Cardinality(K) \in Nat
  BY YoungestAreFew, FS_CardinalityType
<1>8. Cardinality(NewerIn(S, e)) <= Cardinality(K)
  BY <1>6, <1>7, FS_Subset
<1>9. Cardinality(NewerIn(S, e)) >= n
  BY <1>1, <1>5 DEF Youngest
<1> QED
  BY <1>1, <1>3, <1>7, <1>8, <1>9

-----------------------------------------------------------------------------
(* Sums over a finite set, as the number of pairs of a row and a unit. *)

\* Induction over the subsets of a finite set, for a set of subsets.
LEMMA FiniteInduction ==
  ASSUME NEW S, IsFiniteSet(S), NEW Good, {} \in Good,
         \A T \in SUBSET S : \A x \in S \ T : T \in Good => T \cup {x} \in Good
  PROVE  S \in Good
<1> DEFINE Bad   == {T \in SUBSET S : T \notin Good}
           Sizes == {Cardinality(T) : T \in Bad}
<1> SUFFICES ASSUME Bad # {} PROVE FALSE
  BY DEF Bad
<1>1. \A T \in SUBSET S : IsFiniteSet(T) /\ Cardinality(T) \in Nat
  BY FS_Subset, FS_CardinalityType
<1>2. Sizes \in SUBSET Nat /\ Sizes # {}
  BY <1>1
<1>3. PICK m \in Sizes : \A n \in Sizes : m <= n
  BY <1>2, LeastNumber
<1>4. PICK T \in Bad : m = Cardinality(T)
  BY <1>3
<1>5. T # {}
  OBVIOUS
<1>6. PICK x \in T : TRUE
  BY <1>5
<1> DEFINE U == T \ {x}
<1>7. Cardinality(U) = Cardinality(T) - 1
  BY <1>1, FS_RemoveElement
<1>8. U \in SUBSET S /\ x \in S \ U /\ U \cup {x} = T
  OBVIOUS
<1>9. U \notin Bad
  <2> SUFFICES ASSUME U \in Bad PROVE FALSE
    OBVIOUS
  <2>1. Cardinality(U) \in Sizes
    OBVIOUS
  <2>2. Cardinality(T) <= Cardinality(U)
    BY <1>3, <1>4, <2>1
  <2>3. Cardinality(T) \in Nat
    BY <1>1
  <2> QED
    BY <1>7, <2>2, <2>3
<1> QED
  BY <1>8, <1>9

\* Pairs of a row and a unit of what f gives it.
Units(f, T) == {u \in T \X Nat : u[2] < f[u[1]]}

LEMMA UnitsOfOne ==
  ASSUME NEW x, NEW f, f[x] \in Nat
  PROVE  IsFiniteSet(Units(f, {x})) /\ Cardinality(Units(f, {x})) = f[x]
<1> DEFINE K == 0 .. f[x] - 1
<1>1. Units(f, {x}) = {x} \X K
  BY DEF Units
<1>2. IsFiniteSet(K) /\ Cardinality(K) = f[x]
  <2> DEFINE n == f[x] - 1
  <2>1. n \in Int /\ 0 \in Int
    OBVIOUS
  <2> HIDE DEF n
  <2>2. IsFiniteSet(0 .. n) /\ Cardinality(0 .. n) = IF 0 > n THEN 0 ELSE n - 0 + 1
    BY <2>1, FS_Interval
  <2> QED
    BY <2>2 DEF n
<1>3. IsFiniteSet({x}) /\ Cardinality({x}) = 1
  BY FS_Singleton
<1> HIDE DEF K
<1>4. IsFiniteSet({x} \X K) /\ Cardinality({x} \X K) = Cardinality({x}) * Cardinality(K)
  BY <1>2, <1>3, FS_Product
<1>5. Cardinality({x}) * Cardinality(K) = 1 * f[x]
  BY <1>2, <1>3, Zenon
<1>6. 1 * f[x] = f[x]
  OBVIOUS
<1> QED
  BY <1>1, <1>4, <1>5, <1>6

LEMMA UnitsOfUnion ==
  ASSUME NEW S, NEW T, NEW f, S \cap T = {},
         IsFiniteSet(Units(f, S)), IsFiniteSet(Units(f, T))
  PROVE  /\ IsFiniteSet(Units(f, S \cup T))
         /\ Cardinality(Units(f, S \cup T))
              = Cardinality(Units(f, S)) + Cardinality(Units(f, T))
<1> DEFINE A == Units(f, S)
           B == Units(f, T)
<1>1. Units(f, S \cup T) = A \cup B
  BY DEF Units
<1>2. A \cap B = {}
  BY DEF Units
<1>3. Cardinality({}) = 0
  BY FS_EmptySet
<1> HIDE DEF A, B
<1>5. IsFiniteSet(A) /\ IsFiniteSet(B)
  BY DEF A, B
<1>4. /\ IsFiniteSet(A \cup B)
      /\ Cardinality(A \cup B) = Cardinality(A) + Cardinality(B) - Cardinality(A \cap B)
  BY <1>5, FS_Union
<1>6. Cardinality(A) \in Nat /\ Cardinality(B) \in Nat
  BY <1>5, FS_CardinalityType
<1>7. Cardinality(A \cup B) = Cardinality(A) + Cardinality(B)
  <2>1. Cardinality(A \cap B) = 0
    BY <1>2, <1>3, Zenon
  <2> QED
    BY <1>4, <1>6, <2>1
<1> QED
  BY <1>1, <1>4, <1>7 DEF A, B

LEMMA UnitsFinite ==
  ASSUME NEW S, IsFiniteSet(S), NEW f, \A x \in S : f[x] \in Nat
  PROVE  /\ IsFiniteSet(Units(f, S))
         /\ Cardinality(Units(f, S)) \in Nat
<1> DEFINE Good == {T \in SUBSET S : IsFiniteSet(Units(f, T))}
<1>1. {} \in Good
  <2>1. Units(f, {}) = {}
    BY DEF Units
  <2> QED
    BY <2>1, FS_EmptySet
<1>2. ASSUME NEW T \in SUBSET S, NEW x \in S \ T, T \in Good
      PROVE  T \cup {x} \in Good
  <2>1. IsFiniteSet(Units(f, T)) /\ IsFiniteSet(Units(f, {x}))
    BY <1>2, UnitsOfOne
  <2>2. T \cap {x} = {}
    OBVIOUS
  <2>3. IsFiniteSet(Units(f, T \cup {x}))
    BY <2>1, <2>2, UnitsOfUnion
  <2> QED
    BY <2>3
<1> HIDE DEF Good
<1>3. S \in Good
  BY <1>1, <1>2, FiniteInduction
<1> QED
  BY <1>3, FS_CardinalityType DEF Good

LEMMA UnitsOfAdded ==
  ASSUME NEW S, IsFiniteSet(S), NEW f, NEW x, x \notin S, \A y \in S \cup {x} : f[y] \in Nat
  PROVE  Cardinality(Units(f, S \cup {x})) = f[x] + Cardinality(Units(f, S))
<1>1. IsFiniteSet(Units(f, S)) /\ Cardinality(Units(f, S)) \in Nat
  BY UnitsFinite
<1>2. IsFiniteSet(Units(f, {x})) /\ Cardinality(Units(f, {x})) = f[x]
  BY UnitsOfOne
<1>3. S \cap {x} = {}
  OBVIOUS
<1>4. Cardinality(Units(f, S \cup {x})) = Cardinality(Units(f, S)) + Cardinality(Units(f, {x}))
  BY <1>1, <1>2, <1>3, UnitsOfUnion
<1> QED
  BY <1>1, <1>2, <1>4

\* The fold of MapThenSumSet, whatever order it takes, counts units.
LEMMA FoldCounts ==
  ASSUME NEW S, IsFiniteSet(S), NEW f, \A x \in S : f[x] \in Nat, NEW iter,
         \A T \in SUBSET S :
           iter[T] = IF T = {} THEN 0
                     ELSE f[CHOOSE x \in T : TRUE] + iter[T \ {CHOOSE x \in T : TRUE}]
  PROVE  iter[S] = Cardinality(Units(f, S))
<1> DEFINE Size(n) == {T \in SUBSET S : Cardinality(T) = n}
           Bad == {T \in SUBSET S : iter[T] # Cardinality(Units(f, T))}
           Sizes == {Cardinality(T) : T \in Bad}
<1> SUFFICES ASSUME Bad # {} PROVE FALSE
  BY DEF Bad
<1>1. \A T \in SUBSET S : IsFiniteSet(T) /\ Cardinality(T) \in Nat
  BY FS_Subset, FS_CardinalityType
<1>2. Sizes \in SUBSET Nat /\ Sizes # {}
  BY <1>1
<1>3. PICK m \in Sizes : \A n \in Sizes : m <= n
  BY <1>2, LeastNumber
<1>4. PICK T \in Bad : m = Cardinality(T)
  BY <1>3
<1>5. T # {}
  <2> SUFFICES ASSUME T = {} PROVE FALSE
    OBVIOUS
  <2>1. Units(f, {}) = {}
    BY DEF Units
  <2>2. iter[T] = 0
    OBVIOUS
  <2> QED
    BY <2>1, <2>2, FS_EmptySet
<1> DEFINE x == CHOOSE x \in T : TRUE
           U == T \ {x}
<1>6. x \in T
  BY <1>5
<1>7. iter[T] = f[x] + iter[U]
  BY <1>5
<1> HIDE DEF x
<1>8. Cardinality(U) = Cardinality(T) - 1
  BY <1>1, <1>6, FS_RemoveElement
<1>9. U \notin Bad
  <2> SUFFICES ASSUME U \in Bad PROVE FALSE
    OBVIOUS
  <2>1. Cardinality(U) \in Sizes
    OBVIOUS
  <2>2. Cardinality(T) <= Cardinality(U)
    BY <1>3, <1>4, <2>1
  <2>3. Cardinality(T) \in Nat
    BY <1>1
  <2> QED
    BY <1>8, <2>2, <2>3
<1>10. iter[U] = Cardinality(Units(f, U))
  BY <1>9
<1>11. Cardinality(Units(f, U \cup {x})) = f[x] + Cardinality(Units(f, U))
  <2>1. IsFiniteSet(U) /\ x \notin U
    BY <1>1
  <2>2. \A y \in U \cup {x} : f[y] \in Nat
    BY <1>6
  <2> QED
    BY <2>1, <2>2, UnitsOfAdded
<1>12. U \cup {x} = T
  BY <1>6
<1> QED
  BY <1>4, <1>7, <1>10, <1>11, <1>12

FoldStep(f, iter, T) ==
  IF T = {} THEN 0 ELSE f[CHOOSE x \in T : TRUE] + iter[T \ {CHOOSE x \in T : TRUE}]

IsFold(f, S, iter) == iter = [T \in SUBSET S |-> FoldStep(f, iter, T)]

LEMMA FoldExists ==
  ASSUME NEW S, IsFiniteSet(S), NEW f, \A x \in S : f[x] \in Nat
  PROVE  \E iter : IsFold(f, S, iter)
<1> DEFINE count == [T \in SUBSET S |-> Cardinality(Units(f, T))]
<1>1. ASSUME NEW T \in SUBSET S
      PROVE  count[T] = IF T = {} THEN 0
                ELSE f[CHOOSE x \in T : TRUE] + count[T \ {CHOOSE x \in T : TRUE}]
  <2>1. CASE T = {}
    <3>1. Units(f, {}) = {}
      BY DEF Units
    <3> QED
      BY <2>1, <3>1, FS_EmptySet
  <2>2. CASE T # {}
    <3> DEFINE x == CHOOSE x \in T : TRUE
               U == T \ {x}
    <3>1. x \in T
      BY <2>2
    <3> HIDE DEF x
    <3>2. IsFiniteSet(U) /\ x \notin U /\ U \cup {x} = T /\ U \in SUBSET S
      BY <3>1, FS_Subset
    <3>3. \A y \in U \cup {x} : f[y] \in Nat
      BY <3>1
    <3>4. Cardinality(Units(f, U \cup {x})) = f[x] + Cardinality(Units(f, U))
      BY <3>2, <3>3, UnitsOfAdded
    <3>5. count[T] = f[x] + count[U]
      BY <3>2, <3>4
    <3> QED
      BY <2>2, <3>5 DEF x
  <2> QED
    BY <2>1, <2>2
<1> HIDE DEF count
<1>2. count = [T \in SUBSET S |-> count[T]]
  BY DEF count
<1>4. \A T \in SUBSET S : count[T] = FoldStep(f, count, T)
  BY <1>1 DEF FoldStep
<1>3. count = [T \in SUBSET S |-> FoldStep(f, count, T)]
  BY <1>2, <1>4
<1> QED
  BY <1>3 DEF IsFold

-----------------------------------------------------------------------------

\* The sum of what f gives the members of S.
Weight(f, S) == Cardinality(Units(f, S))

LEMMA WeightType ==
  ASSUME NEW S, IsFiniteSet(S), NEW f, \A x \in S : f[x] \in Nat
  PROVE  Weight(f, S) \in Nat
BY UnitsFinite DEF Weight

LEMMA WeightOfNone == ASSUME NEW f PROVE Weight(f, {}) = 0
<1>1. Units(f, {}) = {}
  BY DEF Units
<1> QED
  BY <1>1, FS_EmptySet DEF Weight

LEMMA WeightOfOne ==
  ASSUME NEW x, NEW f, f[x] \in Nat
  PROVE  Weight(f, {x}) = f[x]
BY UnitsOfOne DEF Weight

LEMMA WeightOfSame ==
  ASSUME NEW S, NEW f, NEW g, \A x \in S : f[x] = g[x]
  PROVE  Weight(f, S) = Weight(g, S)
<1>1. Units(f, S) = Units(g, S)
  BY DEF Units
<1> QED
  BY <1>1 DEF Weight

LEMMA WeightOfUnion ==
  ASSUME NEW S, NEW T, NEW f, IsFiniteSet(S), IsFiniteSet(T), S \cap T = {},
         \A x \in S \cup T : f[x] \in Nat
  PROVE  Weight(f, S \cup T) = Weight(f, S) + Weight(f, T)
<1>1. IsFiniteSet(Units(f, S)) /\ IsFiniteSet(Units(f, T))
  BY UnitsFinite
<1> QED
  BY <1>1, UnitsOfUnion DEF Weight

LEMMA WeightOfPart ==
  ASSUME NEW S, NEW T \in SUBSET S, NEW f, IsFiniteSet(S), \A x \in S : f[x] \in Nat
  PROVE  Weight(f, T) <= Weight(f, S)
<1>1. IsFiniteSet(T) /\ IsFiniteSet(S \ T)
  BY FS_Subset
<1>2. Weight(f, T) \in Nat /\ Weight(f, S \ T) \in Nat
  BY <1>1, WeightType
<1>3. T \cap (S \ T) = {} /\ T \cup (S \ T) = S
  OBVIOUS
<1>4. Weight(f, T \cup (S \ T)) = Weight(f, T) + Weight(f, S \ T)
  BY <1>1, <1>3, WeightOfUnion
<1>5. Weight(f, S) = Weight(f, T) + Weight(f, S \ T)
  BY <1>3, <1>4, Zenon
<1> QED
  BY <1>2, <1>5

\* What a function takes on a finite set is finite.
LEMMA FiniteImage ==
  ASSUME NEW S, IsFiniteSet(S), NEW k
  PROVE  IsFiniteSet({k[x] : x \in S})
<1> DEFINE K == {k[x] : x \in S}
           h == [x \in S |-> k[x]]
<1>1. h \in Surjection(S, K)
  BY DEF Surjection
<1> HIDE DEF K, h
<1>2. IsFiniteSet(K)
  BY <1>1, FS_Surjection
<1> QED
  BY <1>2 DEF K

\* The members of S with this key.
Group(S, k, key) == {x \in S : k[x] = key}

\* Two sums grouped by a key compare as their groups do.
LEMMA WeightByKey ==
  ASSUME NEW S, IsFiniteSet(S), NEW f, \A x \in S : f[x] \in Nat, NEW k,
         NEW T, IsFiniteSet(T), NEW g, \A y \in T : g[y] \in Nat, NEW l,
         \A x \in S : Weight(f, Group(S, k, k[x])) <= Weight(g, Group(T, l, k[x]))
  PROVE  Weight(f, S) <= Weight(g, T)
<1> DEFINE Keys  == {k[x] : x \in S}
           A(L)  == {x \in S : k[x] \in L}
           B(L)  == {y \in T : l[y] \in L}
           Good  == {L \in SUBSET Keys : Weight(f, A(L)) <= Weight(g, B(L))}
<1>1. IsFiniteSet(Keys)
  BY FiniteImage
<1>2. {} \in Good
  <2>1. A({}) = {} /\ B({}) = {}
    OBVIOUS
  <2>2. Weight(f, A({})) = 0 /\ Weight(g, B({})) = 0
    BY <2>1, WeightOfNone
  <2> QED
    BY <2>2
<1>3. ASSUME NEW L \in SUBSET Keys, NEW c \in Keys \ L, L \in Good
      PROVE  L \cup {c} \in Good
  <2>1. /\ A(L \cup {c}) = A(L) \cup A({c}) /\ A(L) \cap A({c}) = {}
        /\ B(L \cup {c}) = B(L) \cup B({c}) /\ B(L) \cap B({c}) = {}
    OBVIOUS
  <2>2. /\ IsFiniteSet(A(L)) /\ IsFiniteSet(A({c})) /\ IsFiniteSet(B(L)) /\ IsFiniteSet(B({c}))
        /\ \A x \in A(L) \cup A({c}) : f[x] \in Nat
        /\ \A y \in B(L) \cup B({c}) : g[y] \in Nat
    BY FS_Subset
  <2>3. PICK x \in S : c = k[x]
    OBVIOUS
  <2>4. A({c}) = Group(S, k, k[x]) /\ B({c}) = Group(T, l, k[x])
    BY <2>3 DEF Group
  <2>5. Weight(f, A({c})) <= Weight(g, B({c})) /\ Weight(f, A(L)) <= Weight(g, B(L))
    BY <1>3, <2>4
  <2> HIDE DEF A, B
  <2>6. /\ Weight(f, A(L)) \in Nat /\ Weight(f, A({c})) \in Nat
        /\ Weight(g, B(L)) \in Nat /\ Weight(g, B({c})) \in Nat
    BY <2>2, WeightType
  <2>7. /\ Weight(f, A(L \cup {c})) = Weight(f, A(L)) + Weight(f, A({c}))
        /\ Weight(g, B(L \cup {c})) = Weight(g, B(L)) + Weight(g, B({c}))
    <3>1. Weight(f, A(L) \cup A({c})) = Weight(f, A(L)) + Weight(f, A({c}))
      BY <2>1, <2>2, WeightOfUnion
    <3>2. Weight(g, B(L) \cup B({c})) = Weight(g, B(L)) + Weight(g, B({c}))
      BY <2>1, <2>2, WeightOfUnion
    <3> QED
      BY <2>1, <3>1, <3>2, Zenon
  <2> QED
    BY <2>5, <2>6, <2>7
<1> HIDE DEF Good, A, B
<1>4. Keys \in Good
  <2> HIDE DEF Keys
  <2> QED
    BY <1>1, <1>2, <1>3, FiniteInduction
<1>5. A(Keys) = S /\ B(Keys) \in SUBSET T
  BY DEF A, B
<1>6. Weight(f, S) <= Weight(g, B(Keys))
  BY <1>4, <1>5 DEF Good
<1>7. Weight(g, B(Keys)) <= Weight(g, T)
  BY <1>5, WeightOfPart
<1>8. /\ Weight(f, S) \in Nat /\ Weight(g, T) \in Nat
      /\ IsFiniteSet(B(Keys)) /\ \A y \in B(Keys) : g[y] \in Nat
  BY <1>5, FS_Subset, WeightType
<1>9. Weight(g, B(Keys)) \in Nat
  BY <1>8, WeightType
<1> QED
  BY <1>6, <1>7, <1>8, <1>9
=============================================================================
