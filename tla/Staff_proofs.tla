----------------------------- MODULE Staff_proofs -----------------------------
(***************************************************************************)
(* The estate, its staff and their wages, for every value of the           *)
(* constants.  EstateInv says of each step of Generate what the shops have *)
(* in common: how many of the peak estate there are, that their codes      *)
(* differ, that the US comes first and that each life is whole.  StaffInv  *)
(* adds the person emitted last, the spans of the shop being staffed and   *)
(* the fraud manager.  Wages follow from a finished spell alone.           *)
(***************************************************************************)
EXTENDS Wages, Sums, SequenceTheorems, TLAPS

-----------------------------------------------------------------------------
(* Sorting: the i-th of a sorted set is the one i - 1 come before.         *)

\* R orders the members of S, any two of them.
StrictOrder(S, R) ==
    /\ \A x \in S : <<x, x>> \notin R
    /\ \A x, y, z \in S : <<x, y>> \in R /\ <<y, z>> \in R => <<x, z>> \in R
    /\ \A x, y \in S : x = y \/ <<x, y>> \in R \/ <<y, x>> \in R

\* The number of members before one.
Rank(x, S, R) == Cardinality(Before(x, S, R))

\* An element's rank is a number below the size of the set, ...
LEMMA RankInRange ==
    ASSUME NEW S, IsFiniteSet(S), NEW R, StrictOrder(S, R), NEW x \in S
    PROVE  /\ Rank(x, S, R) \in 0..(Cardinality(S) - 1)
           /\ Rank(x, S, R) + 1 \in 1..Cardinality(S)
<1> DEFINE B == Before(x, S, R)
<1>1. B \in SUBSET S /\ x \notin B
    BY DEF Before, StrictOrder
<1>2. IsFiniteSet(B) /\ Cardinality(B) \in Nat /\ Cardinality(S) \in Nat
    BY <1>1, FS_Subset, FS_CardinalityType
<1>3. Cardinality(B) <= Cardinality(S) /\ Cardinality(B) # Cardinality(S)
    BY <1>1, FS_Subset
<1> QED
    BY <1>2, <1>3 DEF Rank

\* ... it grows along the order, ...
LEMMA RankGrows ==
    ASSUME NEW S, IsFiniteSet(S), NEW R, StrictOrder(S, R),
           NEW x \in S, NEW y \in S, <<x, y>> \in R
    PROVE  Rank(x, S, R) < Rank(y, S, R)
<1> DEFINE A == Before(x, S, R)
           B == Before(y, S, R)
<1>1. A \in SUBSET B /\ x \in B /\ x \notin A /\ B \in SUBSET S
    BY DEF Before, StrictOrder
<1> HIDE DEF A, B
<1>2. IsFiniteSet(B) /\ Cardinality(B) \in Nat
    BY <1>1, FS_Subset, FS_CardinalityType
<1>3. IsFiniteSet(A) /\ Cardinality(A) \in Nat /\ Cardinality(A) <= Cardinality(B)
    BY <1>1, <1>2, FS_Subset, FS_CardinalityType
<1>4. Cardinality(A) # Cardinality(B)
    BY <1>1, <1>2, FS_Subset
<1> QED
    BY <1>2, <1>3, <1>4 DEF Rank, A, B

\* ... no two elements share one, ...
LEMMA RanksDiffer ==
    ASSUME NEW S, IsFiniteSet(S), NEW R, StrictOrder(S, R),
           NEW x \in S, NEW y \in S, Rank(x, S, R) = Rank(y, S, R)
    PROVE  x = y
<1>1. Rank(x, S, R) \in Int /\ Rank(y, S, R) \in Int
    BY RankInRange
<1>2. CASE <<x, y>> \in R
    BY <1>1, <1>2, RankGrows
<1>3. CASE <<y, x>> \in R
    BY <1>1, <1>3, RankGrows
<1> QED
    BY <1>2, <1>3 DEF StrictOrder

\* ... and every number below the size of the set is one.
LEMMA EveryRank ==
    ASSUME NEW S, IsFiniteSet(S), NEW R, StrictOrder(S, R), NEW i \in 1..Cardinality(S)
    PROVE  \E x \in S : Rank(x, S, R) = i - 1
<1> DEFINE n == Cardinality(S)
           f == [x \in S |-> Rank(x, S, R) + 1]
<1>1. n \in Nat /\ IsFiniteSet(1..n) /\ Cardinality(1..n) = n
    <2>1. n \in Nat
        BY FS_CardinalityType
    <2> HIDE DEF n
    <2> QED
        BY <2>1, FS_Interval
<1>2. f \in [S -> 1..n]
    BY RankInRange
<1>3. \A x, y \in S : f[x] = f[y] => x = y
    <2> SUFFICES ASSUME NEW x \in S, NEW y \in S, f[x] = f[y] PROVE x = y
        OBVIOUS
    <2>1. Rank(x, S, R) \in Int /\ Rank(y, S, R) \in Int
        BY RankInRange
    <2>2. Rank(x, S, R) = Rank(y, S, R)
        BY <2>1
    <2> QED
        BY <2>2, RanksDiffer
<1>4. f \in Injection(S, 1..n)
    <2> HIDE DEF f, n
    <2> QED
        BY <1>2, <1>3 DEF Injection, IsInjective
<1>5. f \in Surjection(S, 1..n)
    <2> HIDE DEF f
    <2> QED
        BY <1>1, <1>4, FS_Injection
<1>6. \E x \in S : f[x] = i
    <2> HIDE DEF f
    <2> QED
        BY <1>5 DEF Surjection
<1>7. PICK x \in S : Rank(x, S, R) + 1 = i
    BY <1>6
<1> QED
    BY <1>7, RankInRange

\* The i-th of a sorted set is the member of rank i - 1, ...
LEMMA SortedAt ==
    ASSUME NEW S, IsFiniteSet(S), NEW R, StrictOrder(S, R), NEW i \in 1..Cardinality(S)
    PROVE  Sorted(S, R)[i] \in S /\ Rank(Sorted(S, R)[i], S, R) = i - 1
<1>1. \E x \in S : Cardinality(Before(x, S, R)) = i - 1
    BY EveryRank DEF Rank
<1> QED
    BY <1>1 DEF Sorted, Rank

\* A sorted set is a sequence of its elements, ...
LEMMA SortedType ==
    ASSUME NEW S, IsFiniteSet(S), NEW R, StrictOrder(S, R)
    PROVE  Cardinality(S) \in Nat /\ Sorted(S, R) \in [1..Cardinality(S) -> S]
<1>1. \A i \in 1..Cardinality(S) : Sorted(S, R)[i] \in S
    BY SortedAt
<1> QED
    BY <1>1, FS_CardinalityType DEF Sorted

\* ... where an element stands after as many as come before it, ...
LEMMA SortedPlace ==
    ASSUME NEW S, IsFiniteSet(S), NEW R, StrictOrder(S, R), NEW x \in S
    PROVE  /\ Rank(x, S, R) + 1 \in 1..Cardinality(S)
           /\ Sorted(S, R)[Rank(x, S, R) + 1] = x
<1>1. Rank(x, S, R) + 1 \in 1..Cardinality(S) /\ Rank(x, S, R) \in Int
    BY RankInRange
<1> DEFINE i == Rank(x, S, R) + 1
<1>2. Sorted(S, R)[i] \in S /\ Rank(Sorted(S, R)[i], S, R) = i - 1
    BY <1>1, SortedAt
<1>3. Rank(Sorted(S, R)[i], S, R) = Rank(x, S, R)
    BY <1>1, <1>2
<1> QED
    BY <1>1, <1>2, <1>3, RanksDiffer

\* ... every element once, and earlier ones in earlier places.
LEMMA SortedOrder ==
    ASSUME NEW S, IsFiniteSet(S), NEW R, StrictOrder(S, R),
           NEW i \in 1..Cardinality(S), NEW j \in 1..Cardinality(S)
    PROVE  /\ Sorted(S, R)[i] = Sorted(S, R)[j] => i = j
           /\ i < j <=> <<Sorted(S, R)[i], Sorted(S, R)[j]>> \in R
<1> DEFINE x == Sorted(S, R)[i]
           y == Sorted(S, R)[j]
<1>1. x \in S /\ y \in S /\ Rank(x, S, R) = i - 1 /\ Rank(y, S, R) = j - 1
    BY SortedAt
<1> HIDE DEF x, y
<1>2. Cardinality(S) \in Nat
    BY FS_CardinalityType
<1>3. x = y => i = j
    BY <1>1, <1>2
<1>4. <<x, y>> \in R => i < j
    BY <1>1, <1>2, RankGrows
<1>5. <<y, x>> \in R => j < i
    BY <1>1, <1>2, RankGrows
<1>6. i < j => <<x, y>> \in R
    BY <1>1, <1>2, <1>5 DEF StrictOrder
<1> QED
    BY <1>3, <1>4, <1>6 DEF x, y

-----------------------------------------------------------------------------
(* Sorted days.                                                            *)

\* The days of s with their places, and their order.
Dated(s) == {<<s[i], i>> : i \in DOMAIN s}
DateOrder(s) == {p \in Dated(s) \X Dated(s) : InOrder(p[1], p[2])}

\* Days with their places are as many as the places, and in order.
LEMMA DatedIsFinite ==
    ASSUME NEW n \in Nat, NEW s \in [1..n -> Int]
    PROVE  /\ IsFiniteSet(Dated(s)) /\ Cardinality(Dated(s)) = n
           /\ StrictOrder(Dated(s), DateOrder(s))
<1> DEFINE f == [i \in 1..n |-> <<s[i], i>>]
<1>1. f \in Surjection(1..n, Dated(s)) /\ f \in Injection(1..n, Dated(s))
    <2>1. f \in [1..n -> Dated(s)]
        BY DEF Dated
    <2>2. \A x \in Dated(s) : \E i \in 1..n : f[i] = x
        BY DEF Dated
    <2>3. \A i, j \in 1..n : f[i] = f[j] => i = j
        OBVIOUS
    <2> HIDE DEF f
    <2> QED
        BY <2>1, <2>2, <2>3 DEF Surjection, Injection, IsInjective
<1>2. IsFiniteSet(1..n) /\ Cardinality(1..n) = n
    BY FS_Interval
<1>3. IsFiniteSet(Dated(s)) /\ Cardinality(Dated(s)) = n
    <2> HIDE DEF f
    <2> QED
        BY <1>1, <1>2, FS_Surjection
<1>4. StrictOrder(Dated(s), DateOrder(s))
    <2>1. \A x \in Dated(s) : x = <<x[1], x[2]>> /\ x[1] \in Int /\ x[2] \in Int
        BY DEF Dated
    <2>2. \A x, y \in Dated(s) : <<x, y>> \in DateOrder(s) <=> InOrder(x, y)
        BY DEF DateOrder
    <2>3. \A x, y \in Dated(s) : x[1] = y[1] /\ x[2] = y[2] => x = y
        BY <2>1
    <2>4. \A x \in Dated(s) : ~InOrder(x, x)
        BY <2>1 DEF InOrder
    <2>5. \A x, y, z \in Dated(s) : InOrder(x, y) /\ InOrder(y, z) => InOrder(x, z)
        BY <2>1 DEF InOrder
    <2>6. \A x, y \in Dated(s) : x = y \/ InOrder(x, y) \/ InOrder(y, x)
        BY <2>1, <2>3 DEF InOrder
    <2> QED
        BY <2>2, <2>4, <2>5, <2>6 DEF StrictOrder
<1> QED
    BY <1>3, <1>4

\* Sorted days are the days, ...
LEMMA AscendingType ==
    ASSUME NEW n \in Nat, NEW s \in [1..n -> Int]
    PROVE  /\ Ascending(s) \in [1..n -> Int]
           /\ \A i \in 1..n : \E j \in 1..n : Ascending(s)[i] = s[j]
           /\ \A i \in 1..n : <<Ascending(s)[i], Sorted(Dated(s), DateOrder(s))[i][2]>>
                                  = Sorted(Dated(s), DateOrder(s))[i]
<1>1. Sorted(Dated(s), DateOrder(s)) \in [1..n -> Dated(s)]
    BY DatedIsFinite, SortedType
<1>2. \A x \in Dated(s) : \E j \in 1..n : x = <<s[j], j>> /\ s[j] \in Int
    BY DEF Dated
<1>3. Ascending(s) = [i \in 1..n |-> Sorted(Dated(s), DateOrder(s))[i][1]]
    BY DEF Ascending, Dated, DateOrder
<1>4. \A i \in 1..n : \E j \in 1..n : Sorted(Dated(s), DateOrder(s))[i] = <<s[j], j>>
    BY <1>1, <1>2
<1>5. \A i \in 1..n : Ascending(s)[i] = Sorted(Dated(s), DateOrder(s))[i][1]
    BY <1>3
<1>6. \A i \in 1..n : \E j \in 1..n : Ascending(s)[i] = s[j]
    <2> TAKE i \in 1..n
    <2>1. PICK j \in 1..n : Sorted(Dated(s), DateOrder(s))[i] = <<s[j], j>>
        BY <1>4
    <2>2. Ascending(s)[i] = s[j]
        BY <1>5, <2>1
    <2> QED
        BY <2>2
<1>7. Ascending(s) \in [1..n -> Int]
    BY <1>3, <1>5, <1>6
<1>8. \A i \in 1..n : <<Ascending(s)[i], Sorted(Dated(s), DateOrder(s))[i][2]>>
                            = Sorted(Dated(s), DateOrder(s))[i]
    <2> TAKE i \in 1..n
    <2> DEFINE x == Sorted(Dated(s), DateOrder(s))[i]
    <2>1. PICK j \in 1..n : x = <<s[j], j>>
        BY <1>4
    <2>2. Ascending(s)[i] = x[1]
        BY <1>5
    <2> HIDE DEF x
    <2>3. <<Ascending(s)[i], x[2]>> = x
        BY <2>1, <2>2
    <2> QED
        BY <2>3 DEF x
<1> QED
    BY <1>6, <1>7, <1>8

\* ... none before an earlier one, ...
LEMMA AscendingOrder ==
    ASSUME NEW n \in Nat, NEW s \in [1..n -> Int],
           NEW i \in 1..n, NEW j \in 1..n, i <= j
    PROVE  Ascending(s)[i] <= Ascending(s)[j]
<1> DEFINE D == Dated(s)
           o == Sorted(D, DateOrder(s))
<1>1. Ascending(s)[i] \in Int /\ Ascending(s)[j] \in Int
    BY AscendingType
<1>2. i < j <=> <<o[i], o[j]>> \in DateOrder(s)
    BY DatedIsFinite, SortedOrder
<1>3. <<o[i], o[j]>> \in DateOrder(s) => InOrder(o[i], o[j])
    BY DEF DateOrder
<1>4. <<Ascending(s)[i], o[i][2]>> = o[i] /\ <<Ascending(s)[j], o[j][2]>> = o[j]
    <2>1. \A k \in 1..n : <<Ascending(s)[k], o[k][2]>> = o[k]
        BY AscendingType
    <2> QED
        BY <2>1
<1> HIDE DEF o, D
<1>5. i < j => Ascending(s)[i] <= Ascending(s)[j]
    BY <1>1, <1>2, <1>3, <1>4 DEF InOrder
<1> QED
    BY <1>1, <1>5

\* The first m days with their places, ...
LEMMA FirstOfDated ==
    ASSUME NEW n \in Nat, NEW s \in [1..n -> Int], NEW m \in 0..n
    PROVE  LET F == {<<s[i], i>> : i \in 1..m}
           IN  F \in SUBSET Dated(s) /\ IsFiniteSet(F) /\ Cardinality(F) = m
<1> DEFINE F == {<<s[i], i>> : i \in 1..m}
           f == [i \in 1..m |-> <<s[i], i>>]
<1>1. F \in SUBSET Dated(s)
    BY DEF Dated
<1>2. f \in Surjection(1..m, F) /\ f \in Injection(1..m, F)
    <2>1. f \in [1..m -> F]
        OBVIOUS
    <2>2. \A x \in F : \E i \in 1..m : f[i] = x
        OBVIOUS
    <2>3. \A i, j \in 1..m : f[i] = f[j] => i = j
        OBVIOUS
    <2> HIDE DEF f, F
    <2> QED
        BY <2>1, <2>2, <2>3 DEF Surjection, Injection, IsInjective
<1>3. IsFiniteSet(1..m) /\ Cardinality(1..m) = m
    BY FS_Interval
<1> HIDE DEF f, F
<1>4. IsFiniteSet(F) /\ Cardinality(F) = m
    BY <1>2, <1>3, FS_Surjection
<1> QED
    BY <1>1, <1>4 DEF F

\* ... the m-th of the sorted days is no later than all of m given days, ...
LEMMA AscendingAtMost ==
    ASSUME NEW n \in Nat, NEW s \in [1..n -> Int], NEW m \in 1..n, NEW b \in Int,
           \A i \in 1..m : s[i] <= b
    PROVE  Ascending(s)[m] <= b
<1> DEFINE D == Dated(s)
           R == DateOrder(s)
           x == Sorted(D, R)[m]
           F == {<<s[i], i>> : i \in 1..m}
<1>1. x \in D /\ Rank(x, D, R) = m - 1 /\ IsFiniteSet(D)
    BY DatedIsFinite, SortedAt
<1>2. x = <<Ascending(s)[m], x[2]>> /\ Ascending(s)[m] \in Int
    <2>1. <<Ascending(s)[m], x[2]>> = x
        <3>1. \A i \in 1..n : <<Ascending(s)[i], Sorted(Dated(s), DateOrder(s))[i][2]>>
                                  = Sorted(Dated(s), DateOrder(s))[i]
            BY AscendingType
        <3> QED
            BY <3>1
    <2>2. Ascending(s) \in [1..n -> Int]
        BY AscendingType
    <2> HIDE DEF x
    <2> QED
        BY <2>1, <2>2
<1>3. F \in SUBSET D /\ IsFiniteSet(F) /\ Cardinality(F) = m
    <2>1. m \in 0..n
        OBVIOUS
    <2> QED
        BY <2>1, FirstOfDated
<1> SUFFICES ASSUME Ascending(s)[m] > b PROVE FALSE
    BY <1>2
<1>4. F \in SUBSET Before(x, D, R)
    <2> SUFFICES ASSUME NEW i \in 1..m PROVE <<s[i], i>> \in Before(x, D, R)
        OBVIOUS
    <2>1. <<s[i], i>> \in D /\ s[i] \in Int /\ s[i] <= b
        BY <1>3
    <2>2. InOrder(<<s[i], i>>, x)
        <3> HIDE DEF x
        <3> QED
            BY <1>2, <2>1 DEF InOrder
    <2> HIDE DEF x
    <2> QED
        BY <1>1, <2>1, <2>2 DEF Before, DateOrder
<1>5. IsFiniteSet(Before(x, D, R)) /\ Cardinality(Before(x, D, R)) = m - 1
    <2>1. Before(x, D, R) \in SUBSET D
        BY DEF Before
    <2> HIDE DEF x, D, R
    <2> QED
        BY <1>1, <2>1, FS_Subset DEF Rank
<1>6. Cardinality(F) <= Cardinality(Before(x, D, R))
    <2> HIDE DEF x, D, R, F
    <2> QED
        BY <1>4, <1>5, FS_Subset
<1> HIDE DEF x, D, R, F
<1> QED
    BY <1>3, <1>5, <1>6

\* ... and no earlier than all days from the m-th on.
LEMMA AscendingAtLeast ==
    ASSUME NEW n \in Nat, NEW s \in [1..n -> Int], NEW m \in 1..n, NEW b \in Int,
           \A i \in m..n : s[i] >= b
    PROVE  Ascending(s)[m] >= b
<1> DEFINE D == Dated(s)
           R == DateOrder(s)
           x == Sorted(D, R)[m]
           F == {<<s[i], i>> : i \in 1..(m - 1)}
           B == Before(x, D, R)
<1>1. x \in D /\ Rank(x, D, R) = m - 1 /\ IsFiniteSet(D)
    BY DatedIsFinite, SortedAt
<1>2. x = <<Ascending(s)[m], x[2]>> /\ Ascending(s)[m] \in Int
    <2>1. <<Ascending(s)[m], x[2]>> = x
        <3>1. \A i \in 1..n : <<Ascending(s)[i], Sorted(Dated(s), DateOrder(s))[i][2]>>
                                  = Sorted(Dated(s), DateOrder(s))[i]
            BY AscendingType
        <3> QED
            BY <3>1
    <2>2. Ascending(s) \in [1..n -> Int]
        BY AscendingType
    <2> HIDE DEF x
    <2> QED
        BY <2>1, <2>2
<1>3. F \in SUBSET D /\ IsFiniteSet(F) /\ Cardinality(F) = m - 1
    <2>1. m - 1 \in 0..n
        OBVIOUS
    <2> QED
        BY <2>1, FirstOfDated
<1> SUFFICES ASSUME Ascending(s)[m] < b PROVE FALSE
    BY <1>2
<1>4. \A y \in D : y[1] < b => y \in F
    <2> SUFFICES ASSUME NEW i \in 1..n, s[i] < b PROVE <<s[i], i>> \in F
        BY DEF Dated
    <2>1. i \in 1..(m - 1)
        OBVIOUS
    <2> QED
        BY <2>1
<1>5. \A y \in B : y \in D /\ y[1] < b
    <2> SUFFICES ASSUME NEW y \in B PROVE y \in D /\ y[1] < b
        OBVIOUS
    <2>1. y \in D /\ InOrder(y, x)
        BY DEF Before, DateOrder
    <2>2. y[1] \in Int
        BY <2>1 DEF Dated
    <2> HIDE DEF x, B
    <2> QED
        BY <1>2, <2>1, <2>2 DEF InOrder
<1>6. x[1] = Ascending(s)[m] /\ x \notin B
    <2>1. x[1] = Ascending(s)[m]
        <3> HIDE DEF x
        <3> QED
            BY <1>2
    <2>2. <<x, x>> \notin R
        BY <1>1, DatedIsFinite DEF StrictOrder
    <2> QED
        BY <2>1, <2>2 DEF Before
<1>7. IsFiniteSet(B) /\ Cardinality(B) = m - 1
    <2>1. B \in SUBSET D
        BY DEF Before
    <2> HIDE DEF x, D, R
    <2> QED
        BY <1>1, <2>1, FS_Subset DEF Rank
<1>8. B \cup {x} \in SUBSET F
    <2> HIDE DEF x, B, F, D
    <2> QED
        BY <1>1, <1>4, <1>5, <1>6
<1> HIDE DEF x, D, R, F, B
<1>9. Cardinality(B \cup {x}) = (m - 1) + 1
    BY <1>6, <1>7, FS_AddElement
<1>10. Cardinality(B \cup {x}) <= m - 1
    BY <1>3, <1>8, FS_Subset
<1> QED
    BY <1>9, <1>10

-----------------------------------------------------------------------------
(* Sharing out by largest remainders.                                      *)

\* What is shared out over: weights of the members of a set.
Weights(w, D) == w \in [D -> Nat \ {0}] /\ IsFiniteSet(D) /\ D # {} /\ D \subseteq Nat

\* How many of the places of an order are below a number.
LEMMA FirstPlaces ==
    ASSUME NEW S, IsFiniteSet(S), NEW R, StrictOrder(S, R), NEW m \in Nat, m <= Cardinality(S)
    PROVE  /\ IsFiniteSet({x \in S : Rank(x, S, R) < m})
           /\ Cardinality({x \in S : Rank(x, S, R) < m}) = m
<1> DEFINE T == {x \in S : Rank(x, S, R) < m}
           f == [x \in T |-> Rank(x, S, R) + 1]
<1>1. \A x \in S : Rank(x, S, R) \in Nat /\ Rank(x, S, R) + 1 \in 1..Cardinality(S)
    BY RankInRange
<1>2. f \in [T -> 1..m]
    BY <1>1
<1>3. \A x, y \in T : f[x] = f[y] => x = y
    <2> SUFFICES ASSUME NEW x \in T, NEW y \in T, f[x] = f[y] PROVE x = y
        OBVIOUS
    <2>1. Rank(x, S, R) = Rank(y, S, R)
        BY <1>1
    <2> QED
        BY <2>1, RanksDiffer
<1>4. \A i \in 1..m : \E x \in T : f[x] = i
    <2> TAKE i \in 1..m
    <2>1. i \in 1..Cardinality(S)
        BY FS_CardinalityType
    <2>2. PICK x \in S : Rank(x, S, R) = i - 1
        BY <2>1, EveryRank
    <2>3. x \in T /\ f[x] = i
        BY <2>2
    <2> QED
        BY <2>3
<1>5. f \in Surjection(T, 1..m) /\ f \in Injection(T, 1..m)
    <2> HIDE DEF f, T
    <2> QED
        BY <1>2, <1>3, <1>4 DEF Surjection, Injection, IsInjective
<1>6. IsFiniteSet(T)
    BY FS_Subset
<1>7. IsFiniteSet(1..m) /\ Cardinality(1..m) = m
    BY FS_Interval
<1> HIDE DEF f, T
<1>8. Cardinality(T) = m
    BY <1>5, <1>6, <1>7, FS_Surjection
<1> QED
    BY <1>6, <1>8 DEF T

\* Weights add up to something, ...
LEMMA WeightsAddUp ==
    ASSUME NEW D, NEW w, Weights(w, D)
    PROVE  SumFunctionOnSet(w, D) \in Nat /\ SumFunctionOnSet(w, D) > 0
<1>1. IsFiniteSet(D) /\ \A k \in D : w[k] \in Nat /\ w[k] > 0
    BY DEF Weights
<1>2. PICK a \in D : TRUE
    BY DEF Weights
<1>3. SumFunctionOnSet(w, D) = w[a] + SumFunctionOnSet(w, D \ {a})
    BY <1>1, <1>2, SumSplit
<1>4. IsFiniteSet(D \ {a})
    BY <1>1, FS_Subset
<1>5. SumFunctionOnSet(w, D \ {a}) \in Nat
    BY <1>1, <1>4, SumNonNegative
<1> QED
    BY <1>1, <1>2, <1>3, <1>5

\* ... the floors of the shares leave fewer than one for each entry, ...
LEMMA LeftoverIsSmall ==
    ASSUME NEW n \in Nat, NEW D, NEW w, Weights(w, D),
           NEW W, W = SumFunctionOnSet(w, D),
           NEW share, share = [k \in D |-> (n * w[k]) \div W]
    PROVE  /\ W \in Nat /\ W > 0
           /\ n - SumFunctionOnSet(share, D) \in Nat
           /\ n - SumFunctionOnSet(share, D) <= Cardinality(D)
           /\ share \in [D -> Nat]
<1> DEFINE frac == [k \in D |-> (n * w[k]) % W]
           scaled == [k \in D |-> n * w[k]]
           zero == [k \in D |-> 0]
           most == [k \in D |-> W - 1]
           N == Cardinality(D)
           left == n - SumFunctionOnSet(share, D)
<1>1. IsFiniteSet(D) /\ N \in Nat /\ \A k \in D : w[k] \in Nat /\ w[k] > 0
    BY FS_CardinalityType DEF Weights
<1>2. W \in Nat /\ W > 0
    BY WeightsAddUp
<1>3. \A k \in D : /\ scaled[k] \in Nat /\ share[k] \in Nat /\ frac[k] \in 0..(W - 1)
                   /\ scaled[k] = W * share[k] + frac[k]
    <2> TAKE k \in D
    <2>1. n * w[k] \in Nat
        BY <1>1
    <2>2. /\ (n * w[k]) \div W \in Nat /\ (n * w[k]) % W \in 0..(W - 1)
          /\ n * w[k] = W * ((n * w[k]) \div W) + ((n * w[k]) % W)
        BY <1>2, <2>1, NatDivision
    <2> QED
        BY <2>1, <2>2
<1>4. \A k \in D : scaled[k] = n * w[k] /\ zero[k] = 0 /\ most[k] = W - 1
    OBVIOUS
<1>5. share \in [D -> Nat]
    <2>1. share = [k \in D |-> share[k]]
        OBVIOUS
    <2> QED
        BY <1>3, <2>1
<1> HIDE DEF frac, scaled, zero, most, N
<1>6. Linear(D, scaled, W, share, frac) /\ Linear(D, scaled, n, w, zero)
    BY <1>1, <1>2, <1>3, <1>4 DEF Linear
<1>7. /\ SumFunctionOnSet(scaled, D) = W * SumFunctionOnSet(share, D) + SumFunctionOnSet(frac, D)
      /\ SumFunctionOnSet(scaled, D) = n * W + SumFunctionOnSet(zero, D)
    BY <1>1, <1>2, <1>6, SumLinear
<1>8. SumFunctionOnSet(zero, D) = 0 /\ SumFunctionOnSet(most, D) = (W - 1) * N
    <2>1. SumFunctionOnSet(zero, D) = 0
        BY <1>1, <1>4, SumOfZeros
    <2>2. W - 1 \in Int
        BY <1>2
    <2> QED
        BY <1>1, <1>4, <2>1, <2>2, SumOfConstant DEF N
<1>9. SumFunctionOnSet(frac, D) \in Nat /\ SumFunctionOnSet(frac, D) <= (W - 1) * N
    <2>1. \A k \in D : frac[k] \in Nat
        BY <1>2, <1>3
    <2>2. \A k \in D : frac[k] \in Int /\ most[k] \in Int /\ frac[k] <= most[k]
        BY <1>2, <1>3, <1>4
    <2>3. SumFunctionOnSet(frac, D) <= SumFunctionOnSet(most, D)
        BY <1>1, <2>2, SumMonotone
    <2> QED
        BY <1>1, <1>8, <2>1, <2>3, SumNonNegative
<1>10. SumFunctionOnSet(share, D) \in Int
    <2>1. \A k \in D : share[k] \in Int
        BY <1>3
    <2> QED
        BY <1>1, <2>1, SumType
<1>11. left \in Int /\ W * left = SumFunctionOnSet(frac, D)
    <2> DEFINE s == SumFunctionOnSet(share, D)
               t == SumFunctionOnSet(frac, D)
    <2>1. n * W = W * s + t /\ s \in Int /\ t \in Int
        BY <1>2, <1>7, <1>8, <1>9, <1>10
    <2>2. left = n - s /\ left \in Int
        BY <2>1
    <2> HIDE DEF s, t
    <2>3. W * (n - s) = n * W - W * s
        BY <1>2, <2>1
    <2>4. W * s \in Int /\ n * W \in Int
        BY <1>2, <2>1
    <2> QED
        BY <2>1, <2>2, <2>3, <2>4 DEF t
<1> HIDE DEF left
<1>12. W * (-1) < W * left
    BY <1>2, <1>9, <1>11
<1>13. -1 < left
    <2>1. -1 \in Int
        OBVIOUS
    <2> QED
        BY <1>2, <1>11, <1>12, <2>1, Cancel
<1>14. W * left < W * (N + 1)
    <2>1. W * (N + 1) = (W - 1) * N + N + W
        BY <1>1, <1>2
    <2>2. (W - 1) * N \in Int
        BY <1>1, <1>2
    <2> QED
        BY <1>1, <1>2, <1>9, <1>11, <2>1, <2>2
<1>15. left < N + 1
    BY <1>1, <1>2, <1>11, <1>14, Cancel
<1> QED
    BY <1>1, <1>2, <1>5, <1>11, <1>13, <1>15 DEF left, N

\* Largest remainders come first, earlier entries on a tie.
ByRemainder(frac, D) ==
    {p \in D \X D : frac[p[1]] > frac[p[2]] \/ (frac[p[1]] = frac[p[2]] /\ p[1] < p[2])}

\* The remainders are numbers.
IntsOn(frac, D) == \A k \in D : frac[k] \in Int

\* ... entries can be ordered by their remainders, ...
LEMMA RemaindersOrdered ==
    ASSUME NEW D, D \subseteq Nat, NEW frac, IntsOn(frac, D)
    PROVE  /\ StrictOrder(D, ByRemainder(frac, D))
           /\ \A j, k \in D : <<j, k>> \in ByRemainder(frac, D)
                                  <=> frac[j] > frac[k] \/ (frac[j] = frac[k] /\ j < k)
<1> DEFINE R == ByRemainder(frac, D)
<1>1. \A j, k \in D : <<j, k>> \in R <=> frac[j] > frac[k] \/ (frac[j] = frac[k] /\ j < k)
    BY DEF ByRemainder
<1>2. \A k \in D : k \in Int /\ frac[k] \in Int
    BY DEF IntsOn
<1> HIDE DEF R
<1>3. StrictOrder(D, R)
    <2>1. \A x \in D : <<x, x>> \notin R
        BY <1>1, <1>2
    <2>2. \A x, y, z \in D : <<x, y>> \in R /\ <<y, z>> \in R => <<x, z>> \in R
        BY <1>1, <1>2
    <2>3. \A x, y \in D : x = y \/ <<x, y>> \in R \/ <<y, x>> \in R
        <3> TAKE x, y \in D
        <3>1. x \in Int /\ y \in Int /\ frac[x] \in Int /\ frac[y] \in Int
            BY <1>2
        <3>2. frac[x] > frac[y] \/ frac[x] = frac[y] \/ frac[y] > frac[x]
            BY <3>1
        <3>3. x = y \/ x < y \/ y < x
            BY <3>1
        <3> QED
            BY <1>1, <3>2, <3>3
    <2> QED
        BY <2>1, <2>2, <2>3 DEF StrictOrder
<1> QED
    BY <1>1, <1>3 DEF R

\* ... and what is shared out is what there was: the shares add up to n.
LEMMA SharesAddUp ==
    ASSUME NEW n \in Nat, NEW D, NEW w, Weights(w, D)
    PROVE  /\ LargestRemainder(n, w) \in [D -> Nat]
           /\ SumFunctionOnSet(LargestRemainder(n, w), D) = n
<1> DEFINE W == SumFunctionOnSet(w, D)
           share == [k \in D |-> (n * w[k]) \div W]
           frac == [k \in D |-> (n * w[k]) % W]
           left == n - SumFunctionOnSet(share, D)
           R == ByRemainder(frac, D)
           plus == [k \in D |-> IF Rank(k, D, R) < left THEN 1 ELSE 0]
           lr == LargestRemainder(n, w)
<1>1. DOMAIN w = D /\ IsFiniteSet(D) /\ D \subseteq Nat /\ \A k \in D : w[k] \in Nat
    BY DEF Weights
<1>2. /\ W \in Nat /\ W > 0 /\ left \in Nat /\ left <= Cardinality(D)
      /\ share \in [D -> Nat]
    BY LeftoverIsSmall
<1>3. IntsOn(frac, D)
    <2> SUFFICES \A k \in D : frac[k] \in Int
        BY DEF IntsOn
    <2> TAKE k \in D
    <2>1. n * w[k] \in Nat
        BY <1>1
    <2> HIDE DEF W
    <2>2. (n * w[k]) % W \in 0..(W - 1)
        BY <1>2, <2>1, NatDivision
    <2> QED
        BY <1>2, <2>2
<1>4. /\ StrictOrder(D, R)
      /\ \A k \in D : Before(k, D, R) = {j \in D : frac[j] > frac[k] \/ (frac[j] = frac[k] /\ j < k)}
    <2> HIDE DEF frac
    <2>1. StrictOrder(D, R)
        BY <1>1, <1>3, RemaindersOrdered
    <2>2. \A j, k \in D : <<j, k>> \in R <=> frac[j] > frac[k] \/ (frac[j] = frac[k] /\ j < k)
        BY <1>1, <1>3, RemaindersOrdered
    <2> HIDE DEF R
    <2> QED
        BY <2>1, <2>2 DEF Before
<1>5. lr = [k \in D |-> share[k] + plus[k]]
    <2>1. \A k \in D : {j \in D : (n * w[j]) % W > (n * w[k]) % W
                                    \/ ((n * w[j]) % W = (n * w[k]) % W /\ j < k)} = Before(k, D, R)
        <3>1. \A k \in D : frac[k] = (n * w[k]) % W
            OBVIOUS
        <3> HIDE DEF frac, R
        <3> QED
            BY <1>4, <3>1
    <2>2. SumFunction(w) = W /\ SumFunction([k \in DOMAIN w |-> (n * w[k]) \div W]) = SumFunctionOnSet(share, D)
        BY <1>1 DEF SumFunction
    <2>3. lr = [k \in DOMAIN w |-> (n * w[k]) \div W +
                   IF Cardinality({j \in DOMAIN w : (n * w[j]) % W > (n * w[k]) % W
                                      \/ ((n * w[j]) % W = (n * w[k]) % W /\ j < k)})
                      < n - SumFunction([i \in DOMAIN w |-> (n * w[i]) \div W]) THEN 1 ELSE 0]
        BY <2>2 DEF LargestRemainder
    <2>4. lr = [k \in D |-> share[k] + IF Cardinality(Before(k, D, R)) < left THEN 1 ELSE 0]
        <3>1. \A k \in D : share[k] = (n * w[k]) \div W
            OBVIOUS
        <3> HIDE DEF R, W, share, frac, lr
        <3> QED
            BY <1>1, <2>1, <2>2, <2>3, <3>1
    <2> HIDE DEF R, share, frac
    <2> QED
        BY <2>4 DEF Rank
<1> DEFINE T == {k \in D : Rank(k, D, R) < left}
<1>6. T \in SUBSET D /\ Cardinality(T) = left
    <2> HIDE DEF R, left
    <2> QED
        BY <1>1, <1>2, <1>4, FirstPlaces
<1>7. \A k \in D : plus[k] = (IF k \in T THEN 1 ELSE 0)
    OBVIOUS
<1>8. SumFunctionOnSet(plus, D) = left
    <2> HIDE DEF plus, T, left
    <2> QED
        BY <1>1, <1>6, <1>7, SumCounts
<1>9. \A k \in D : share[k] \in Nat /\ plus[k] \in Nat /\ lr[k] = share[k] + plus[k]
    <2>1. \A k \in D : share[k] \in Nat
        BY <1>2
    <2> HIDE DEF share, T, lr, plus
    <2> QED
        BY <1>5, <1>7, <2>1
<1> HIDE DEF share, plus, lr, T, W, frac, R
<1>10. Linear(D, lr, 1, share, plus)
    BY <1>9 DEF Linear
<1>11. SumFunctionOnSet(lr, D) = 1 * SumFunctionOnSet(share, D) + SumFunctionOnSet(plus, D)
    BY <1>1, <1>10, SumLinear
<1>12. SumFunctionOnSet(share, D) \in Int
    <2>1. \A k \in D : share[k] \in Int
        BY <1>9
    <2> QED
        BY <1>1, <2>1, SumType
<1>13. SumFunctionOnSet(lr, D) = n
    BY <1>8, <1>11, <1>12
<1>14. lr \in [D -> Nat]
    BY <1>5, <1>9
<1> QED
    BY <1>13, <1>14 DEF lr

\* There are as many slots as entries were shared out.
LEMMA SlotsCount ==
    ASSUME NEW D, IsFiniteSet(D), NEW n \in [D -> Nat]
    PROVE  IsFiniteSet(Slots(n)) /\ Cardinality(Slots(n)) = SumFunctionOnSet(n, D)
<1> DEFINE Of(T) == UNION {{k} \X (1..n[k]) : k \in T}
           Counted(T) == IsFiniteSet(Of(T)) /\ Cardinality(Of(T)) = SumFunctionOnSet(n, T)
           C == {T \in SUBSET D : ~Counted(T)}
<1>1. SUFFICES ASSUME C # {} PROVE FALSE
    <2>1. D \in SUBSET D /\ Slots(n) = Of(D)
        BY DEF Slots
    <2> HIDE DEF Of
    <2> QED
        BY <2>1
<1>2. PICK T \in C : \A U \in C : U \subseteq T => U = T
    <2>1. C \in SUBSET SUBSET D
        OBVIOUS
    <2> HIDE DEF C
    <2> QED
        BY <1>1, <2>1, LeastSubset
<1>3. T # {}
    <2>1. Of({}) = {}
        OBVIOUS
    <2>2. Counted({})
        <3> HIDE DEF Of
        <3> QED
            BY <2>1, FS_EmptySet, SumOfNone
    <2> HIDE DEF Counted
    <2> QED
        BY <1>2, <2>2
<1>4. PICK a \in T : TRUE
    BY <1>3
<1> DEFINE R == T \ {a}
<1>5. IsFiniteSet(T) /\ IsFiniteSet(R) /\ T \in SUBSET D /\ R \in SUBSET D /\ a \in D
    BY <1>2, <1>4, FS_Subset
<1>6. Counted(R)
    <2>1. R \notin C
        BY <1>2, <1>4
    <2> HIDE DEF Counted
    <2> QED
        BY <1>5, <2>1
<1> DEFINE A == {a} \X (1..n[a])
<1>7. IsFiniteSet(A) /\ Cardinality(A) = n[a]
    <2> DEFINE f == [i \in 1..n[a] |-> <<a, i>>]
    <2>1. n[a] \in Nat
        BY <1>5
    <2>2. IsFiniteSet(1..n[a]) /\ Cardinality(1..n[a]) = n[a]
        <3> DEFINE m == n[a]
        <3> HIDE DEF m
        <3>1. m \in Nat
            BY <2>1 DEF m
        <3>2. IsFiniteSet(1..m) /\ Cardinality(1..m) = m
            BY <3>1, FS_Interval
        <3> QED
            BY <3>2 DEF m
    <2>3. f \in [1..n[a] -> A] /\ (\A x \in A : \E i \in 1..n[a] : f[i] = x)
        OBVIOUS
    <2>4. \A i, j \in 1..n[a] : f[i] = f[j] => i = j
        OBVIOUS
    <2>5. f \in Surjection(1..n[a], A) /\ f \in Injection(1..n[a], A)
        <3> HIDE DEF f, A
        <3> QED
            BY <2>3, <2>4 DEF Surjection, Injection, IsInjective
    <2> HIDE DEF f, A
    <2> QED
        BY <2>2, <2>5, FS_Surjection
<1>8. Of(T) = Of(R) \cup A /\ Of(R) \cap A = {}
    BY <1>4
<1>9. SumFunctionOnSet(n, T) = n[a] + SumFunctionOnSet(n, R) /\ n[a] \in Nat
    <2>1. \A x \in T : n[x] \in Int
        BY <1>5
    <2> QED
        BY <1>4, <1>5, <2>1, SumSplit
<1>10. IsFiniteSet(Of(R) \cup A) /\ Cardinality(Of(R) \cup A) = Cardinality(Of(R)) + Cardinality(A)
    <2> HIDE DEF Of, A, R
    <2>1. Cardinality(Of(R)) \in Nat /\ Cardinality(A) \in Nat
        BY <1>6, <1>7, FS_CardinalityType
    <2>2. Cardinality(Of(R) \cap A) = 0
        BY <1>8, FS_EmptySet
    <2> QED
        BY <1>6, <1>7, <2>1, <2>2, FS_Union
<1>11. Counted(T)
    <2> HIDE DEF Of, A, R
    <2>1. Cardinality(Of(R)) \in Nat
        BY <1>6, FS_CardinalityType
    <2> QED
        BY <1>6, <1>7, <1>8, <1>9, <1>10, <2>1
<1> HIDE DEF Counted
<1> QED
    BY <1>2, <1>11

-----------------------------------------------------------------------------
(* Countries, and how many shops each has.                                 *)

USE DEF EstateAssumption, EstateDays

\* The countries, by position.
D0 == DOMAIN Countries

\* What the assumptions say of the countries.
LEMMA CountriesAre ==
    /\ \E N \in Nat : N > 1 /\ D0 = 1..N
    /\ IsFiniteSet(D0) /\ D0 \subseteq Nat /\ 1 \in D0 /\ D0 \ {1} # {}
    /\ \A k \in D0 : MarketEntry[Countries[k]] \in Nat
    /\ \A k \in D0 \ {1} : Flagship < MarketEntry[Countries[k]] /\ MarketEntry[Countries[k]] < ExpansionEnd
<1>1. Len(Countries) \in Nat /\ D0 = 1..Len(Countries) /\ Len(Countries) > 1
    BY EstateAssumption, EstateDays DEF D0
<1>2. IsFiniteSet(1..Len(Countries))
    BY <1>1, FS_Interval
<1>3. \A k \in D0 : Countries[k] \in ToSet(Countries)
    BY DEF D0, ToSet
<1>4. \A k \in D0 : MarketEntry[Countries[k]] \in Nat
    <2>1. MarketEntry \in [ToSet(Countries) -> Nat]
        BY EstateDays
    <2> QED
        BY <1>3, <2>1
<1>5. \A k \in D0 \ {1} : Flagship < MarketEntry[Countries[k]] /\ MarketEntry[Countries[k]] < ExpansionEnd
    BY EstateAssumption DEF D0
<1>6. D0 \subseteq Nat /\ 1 \in D0 /\ 2 \in D0
    BY <1>1
<1>7. IsFiniteSet(D0)
    BY <1>1, <1>2
<1> QED
    BY <1>1, <1>4, <1>5, <1>6, <1>7

\* The US-first shops are some of the estate.
LEMMA UsFirst == usFirstCount \in 1..Total /\ usFirstCount <= USFirstShopCount /\ Total \in Nat
<1>1. Total \in Nat /\ Total > 0 /\ USFirstShopCount \in Nat /\ USFirstShopCount > 0
    BY EstateAssumption
<1>2. Min({Total, USFirstShopCount}) = IF Total <= USFirstShopCount THEN Total ELSE USFirstShopCount
    BY <1>1, OfPair
<1> QED
    BY <1>1, <1>2 DEF usFirstCount

\* The peak estate has the planned number of shops, the US-first ones among them.
LEMMA AllocationAddsUp ==
    /\ Allocation \in [D0 -> Nat]
    /\ SumFunctionOnSet(Allocation, D0) = Total
    /\ Allocation[1] >= usFirstCount
<1> DEFINE W == SumFunction(Shares)
           rounded == (2 * Shares[1] * Total + W) \div (2 * W)
           us == Min({Total, Max({usFirstCount, rounded})})
           w == [k \in D0 \ {1} |-> Shares[k]]
           abroad == LargestRemainder(Total - us, w)
<1>1. IsFiniteSet(D0) /\ D0 \subseteq Nat /\ 1 \in D0 /\ D0 \ {1} # {} /\ IsFiniteSet(D0 \ {1})
    BY CountriesAre, FS_Subset
<1>2. Shares \in [D0 -> Nat \ {0}]
    BY EstateAssumption DEF D0
<1>3. Weights(Shares, D0) /\ Weights(w, D0 \ {1})
    BY <1>1, <1>2 DEF Weights
<1>4. W \in Nat /\ W > 0
    BY <1>2, <1>3, WeightsAddUp DEF SumFunction
<1>5. rounded \in Nat
    <2>1. 2 * Shares[1] * Total + W \in Nat /\ 2 * W \in Nat /\ 2 * W > 0
        BY <1>1, <1>2, <1>4, UsFirst
    <2> HIDE DEF W
    <2> QED
        BY <2>1, NatDivision
<1>6. us \in usFirstCount..Total
    <2> DEFINE most == Max({usFirstCount, rounded})
    <2>1. most \in Int /\ most >= usFirstCount
        <3> HIDE DEF rounded
        <3> QED
            BY <1>5, UsFirst, OfPair
    <2>2. us = Min({Total, most})
        OBVIOUS
    <2> HIDE DEF most, us
    <2>3. Min({Total, most}) = IF Total <= most THEN Total ELSE most
        BY <2>1, UsFirst, OfPair
    <2> QED
        BY <2>1, <2>2, <2>3, UsFirst
<1>7. Total - us \in Nat /\ us \in Nat
    <2> HIDE DEF us
    <2> QED
        BY <1>6, UsFirst
<1>8. abroad \in [D0 \ {1} -> Nat] /\ SumFunctionOnSet(abroad, D0 \ {1}) = Total - us
    <2> HIDE DEF us, w
    <2> QED
        BY <1>3, <1>7, SharesAddUp
<1>9. Allocation = [k \in D0 |-> IF k = 1 THEN us ELSE abroad[k]]
    BY DEF Allocation, D0
<1> HIDE DEF us, abroad
<1>10. Allocation \in [D0 -> Nat] /\ Allocation[1] = us /\ \A k \in D0 \ {1} : Allocation[k] = abroad[k]
    BY <1>1, <1>7, <1>8, <1>9
<1>11. SumFunctionOnSet(Allocation, D0) = us + SumFunctionOnSet(Allocation, D0 \ {1})
    <2>1. \A k \in D0 : Allocation[k] \in Int
        BY <1>10
    <2> QED
        BY <1>1, <1>10, <2>1, SumSplit
<1>12. SumFunctionOnSet(Allocation, D0 \ {1}) = SumFunctionOnSet(abroad, D0 \ {1})
    BY <1>1, <1>10, SumOfEqual
<1> QED
    BY <1>6, <1>7, <1>8, <1>10, <1>11, <1>12, UsFirst

\* The short-lived shops are shared out over the countries.
LEMMA ChurnShares ==
    LargestRemainder(ChurnCount, Shares) \in [D0 -> Nat]
<1>1. Weights(Shares, D0)
    BY CountriesAre, EstateAssumption DEF D0, Weights
<1>2. ChurnCount \in Nat
    <2>2. ChurnPercent \in Nat /\ Total \in Nat
        BY UsFirst, EstateDays
    <2>1. ChurnPercent * Total + 50 \in Nat
        BY <2>2
    <2> QED
        BY <2>1, NatDivision DEF ChurnCount
<1> QED
    BY <1>1, <1>2, SharesAddUp

-----------------------------------------------------------------------------
(* Dates of opening.                                                       *)

\* A drawn day lies in its window, ...
LEMMA DrawnWithin ==
    ASSUME NEW from \in Int, NEW to \in Int, from <= to
    PROVE  Within(from, to) \subseteq from..to
<1> SUFFICES ASSUME NEW f \in Draws PROVE from + ((to - from) * f) \div 100 \in from..to
    BY DEF Within
<1>1. f \in 0..99 /\ to - from \in Nat
    BY EstateAssumption
<1>2. ((to - from) * f) \div 100 \in 0..(to - from)
    BY <1>1, Fraction
<1> QED
    BY <1>2

\* ... and sampled days do, in order.
LEMMA SampledWithin ==
    ASSUME NEW from \in Int, NEW to \in Int, from <= to, NEW n \in Nat,
           NEW d \in SampleDates(from, to, n)
    PROVE  d \in [1..n -> from..to]
<1>1. PICK s \in [1..n -> Within(from, to)] : d = Ascending(s)
    BY DEF SampleDates
<1>2. s \in [1..n -> from..to] /\ s \in [1..n -> Int]
    BY <1>1, DrawnWithin
<1>3. d \in [1..n -> Int] /\ \A i \in 1..n : \E j \in 1..n : d[i] = s[j]
    BY <1>1, <1>2, AscendingType
<1> QED
    BY <1>2, <1>3

\* A joined sequence is the one, then the other.
LEMMA Joined ==
    ASSUME NEW m \in Nat, NEW n \in Nat, NEW f \in [1..m -> Int], NEW r \in [1..n -> Int]
    PROVE  /\ f \o r \in [1..(m + n) -> Int]
           /\ \A i \in 1..m : (f \o r)[i] = f[i]
           /\ \A i \in (m + 1)..(m + n) : (f \o r)[i] = r[i - m]
<1>1. f \in Seq(Int) /\ r \in Seq(Int) /\ Len(f) = m /\ Len(r) = n
    OBVIOUS
<1>2. f \o r \in Seq(Int) /\ Len(f \o r) = m + n
    BY <1>1, ConcatProperties
<1>3. \A i \in 1..(m + n) : (f \o r)[i] = IF i <= m THEN f[i] ELSE r[i - m]
    BY <1>1, ConcatProperties
<1>4. f \o r \in [1..(m + n) -> Int]
    <2>1. f \o r \in [1..Len(f \o r) -> Int]
        BY <1>2, LenProperties
    <2> QED
        BY <1>2, <2>1
<1>5. \A i \in 1..m : i \in 1..(m + n) /\ i <= m
    OBVIOUS
<1>6. \A i \in (m + 1)..(m + n) : i \in 1..(m + n) /\ ~(i <= m)
    OBVIOUS
<1> QED
    BY <1>3, <1>4, <1>5, <1>6

\* The founding day, the flagship's, and days of the US-first era after them.
LEMMA USFirstDatesAre ==
    ASSUME NEW f \in USFirstDates
    PROVE  /\ f \in [1..usFirstCount -> Int] /\ f[1] = Founding
           /\ usFirstCount >= 2 => f[2] = Flagship
           /\ \A i \in 3..usFirstCount : f[i] \in (Flagship + 1)..USFirstEraEnd
<1>1. CASE usFirstCount < 2
    <2>1. f = <<Founding>> /\ usFirstCount = 1 /\ Founding \in Int
        BY <1>1, UsFirst, EstateDays DEF USFirstDates
    <2> QED
        BY <2>1
<1>2. CASE ~(usFirstCount < 2)
    <2>1. PICK r \in SampleDates(Flagship + 1, USFirstEraEnd, usFirstCount - 2) :
              f = <<Founding, Flagship>> \o r
        BY <1>2 DEF USFirstDates
    <2>2. Flagship + 1 \in Int /\ USFirstEraEnd \in Int /\ Flagship + 1 <= USFirstEraEnd
        BY EstateAssumption, EstateDays
    <2>3. usFirstCount - 2 \in Nat /\ usFirstCount \in Nat
        BY <1>2, UsFirst
    <2>4. r \in [1..(usFirstCount - 2) -> (Flagship + 1)..USFirstEraEnd]
        BY <2>2, <2>3, SampledWithin
    <2> DEFINE g == <<Founding, Flagship>>
    <2>5. g \in [1..2 -> Int] /\ g[1] = Founding /\ g[2] = Flagship
        BY EstateDays
    <2>6. r \in [1..(usFirstCount - 2) -> Int] /\ 2 + (usFirstCount - 2) = usFirstCount
        BY <2>3, <2>4
    <2> HIDE DEF g
    <2>7. /\ g \o r \in [1..(2 + (usFirstCount - 2)) -> Int]
          /\ \A i \in 1..2 : (g \o r)[i] = g[i]
          /\ \A i \in (2 + 1)..(2 + (usFirstCount - 2)) : (g \o r)[i] = r[i - 2]
        BY <2>3, <2>5, <2>6, Joined
    <2>8. f = g \o r
        BY <2>1 DEF g
    <2>9. ASSUME NEW i \in 3..usFirstCount
          PROVE  i - 2 \in 1..(usFirstCount - 2) /\ f[i] = r[i - 2]
        <3>1. i - 2 \in 1..(usFirstCount - 2) /\ i \in (2 + 1)..(2 + (usFirstCount - 2))
            BY <2>3
        <3>2. (g \o r)[i] = r[i - 2]
            BY <2>7, <3>1
        <3> QED
            BY <2>8, <3>1, <3>2
    <2>10. f \in [1..usFirstCount -> Int]
        BY <2>6, <2>7, <2>8
    <2>11. f[1] = Founding /\ f[2] = Flagship
        <3>1. 1 \in 1..2 /\ 2 \in 1..2
            OBVIOUS
        <3>2. f[1] = g[1] /\ f[2] = g[2]
            BY <2>7, <2>8, <3>1
        <3> QED
            BY <2>5, <3>2
    <2>12. \A i \in 3..usFirstCount : f[i] \in (Flagship + 1)..USFirstEraEnd
        BY <2>4, <2>9
    <2> QED
        BY <2>10, <2>11, <2>12
<1> QED
    BY <1>1, <1>2

\* The day a country may first be entered.
Entry(k) == MarketEntry[Countries[k]]

\* A country's opening dates: after its market entry and before the expansion
\* ends; in the US the founding day and the flagship's come first.
DateOK(k, i, d) ==
    /\ Entry(k) <= d /\ d <= ExpansionEnd
    /\ k # 1 \/ i > 2 \/ (i = 2 /\ usFirstCount < 2) => Flagship < d
    /\ k = 1 /\ i = 1 => d = Founding
    /\ k = 1 /\ i = 2 /\ usFirstCount >= 2 => d = Flagship
    /\ k = 1 /\ i <= usFirstCount => d <= USFirstEraEnd

\* The opening dates drawn for a country.
PoolOK(k, p) ==
    /\ p \in [1..Allocation[k] -> Int]
    /\ \A i \in 1..Allocation[k] : DateOK(k, i, p[i])

\* The dates of the US, the US-first ones and the others sorted together, ...
LEMMA USPool ==
    ASSUME NEW p \in DatePools(1)
    PROVE  PoolOK(1, p)
<1> DEFINE n == Allocation[1]
           u == usFirstCount
<1>1. n \in Nat /\ u \in 1..n /\ 1 \in D0
    BY AllocationAddsUp, CountriesAre, UsFirst
<1>2. PICK f \in USFirstDates, r \in SampleDates(ExpansionStart, ExpansionEnd, n - u) : p = Ascending(f \o r)
    <2>1. Allocation[1] # 0
        BY <1>1
    <2>2. DatePools(1) = {Ascending(f \o r) : f \in USFirstDates,
                              r \in SampleDates(ExpansionStart, ExpansionEnd, n - u)}
        <3>1. Countries[1] = "US"
            BY EstateAssumption
        <3> QED
            BY <2>1, <3>1 DEF DatePools
    <2> QED
        BY <2>2
<1>3. /\ f \in [1..u -> Int] /\ f[1] = Founding
      /\ u >= 2 => f[2] = Flagship
      /\ \A i \in 3..u : f[i] \in (Flagship + 1)..USFirstEraEnd
    BY USFirstDatesAre
<1>4. r \in [1..(n - u) -> ExpansionStart..ExpansionEnd] /\ n - u \in Nat
    <2>1. ExpansionStart \in Int /\ ExpansionEnd \in Int /\ ExpansionStart <= ExpansionEnd
        BY EstateDays
    <2>2. n - u \in Nat
        BY <1>1
    <2> QED
        BY <2>1, <2>2, SampledWithin
<1>5. /\ Founding \in Int /\ Flagship \in Int /\ USFirstEraEnd \in Int /\ ExpansionEnd \in Int
      /\ ExpansionStart \in Int /\ Entry(1) \in Int /\ Entry(1) <= Founding
      /\ Founding < Flagship /\ Flagship < USFirstEraEnd /\ USFirstEraEnd <= ExpansionEnd
      /\ Flagship < ExpansionStart /\ ExpansionStart < ExpansionEnd
    <2>1. Countries[1] = "US"
        BY EstateAssumption
    <2>2. Entry(1) \in Nat
        BY <1>1, CountriesAre DEF Entry
    <2> QED
        <3>1. Entry(1) <= Founding
            BY <2>1, EstateDays DEF Entry
        <3> QED
            BY <2>2, <3>1, EstateAssumption, EstateDays
<1> DEFINE s == f \o r
<1>6. /\ s \in [1..n -> Int]
      /\ \A i \in 1..u : s[i] = f[i]
      /\ \A i \in (u + 1)..n : s[i] = r[i - u]
    <2>1. r \in [1..(n - u) -> Int]
        BY <1>4
    <2>2. u + (n - u) = n /\ u \in Nat
        BY <1>1
    <2>3. /\ s \in [1..(u + (n - u)) -> Int]
          /\ \A i \in 1..u : s[i] = f[i]
          /\ \A i \in (u + 1)..(u + (n - u)) : s[i] = r[i - u]
        BY <1>3, <1>4, <2>1, <2>2, Joined
    <2> QED
        BY <2>2, <2>3
<1> HIDE DEF n, u, s
<1>7. \A i \in (u + 1)..n : s[i] \in ExpansionStart..ExpansionEnd
    <2> TAKE i \in (u + 1)..n
    <2>1. i - u \in 1..(n - u)
        BY <1>1
    <2> QED
        BY <1>4, <1>6, <2>1
<1>8. \A i \in 1..u : s[i] >= Founding /\ s[i] <= USFirstEraEnd /\ (i > 2 => s[i] > Flagship)
    <2> TAKE i \in 1..u
    <2>1. CASE i = 1
        BY <1>3, <1>5, <1>6, <2>1
    <2>2. CASE i = 2
        BY <1>1, <1>3, <1>5, <1>6, <2>2
    <2>3. CASE i > 2
        <3>1. i \in 3..u
            BY <1>1, <2>3
        <3> QED
            BY <1>3, <1>5, <1>6, <3>1
    <2> QED
        BY <1>1, <2>1, <2>2, <2>3
<1>9. \A i \in 1..n : s[i] \in Int /\ s[i] >= Founding /\ s[i] <= ExpansionEnd
    <2> TAKE i \in 1..n
    <2>1. i \in 1..u \/ i \in (u + 1)..n
        BY <1>1
    <2> QED
        BY <1>5, <1>6, <1>7, <1>8, <2>1
<1>10. p \in [1..n -> Int] /\ \A i \in 1..n : \E j \in 1..n : p[i] = s[j]
    BY <1>1, <1>2, <1>6, AscendingType DEF s, n, u
<1>11. \A i \in 1..n : p[i] \in Int /\ p[i] >= Founding /\ p[i] <= ExpansionEnd
    BY <1>9, <1>10
<1>12. p = Ascending(s)
    BY <1>2 DEF s
<1>13. p[1] = Founding
    <2>1. 1 \in 1..n /\ \A i \in 1..1 : s[i] <= Founding
        BY <1>1, <1>3, <1>5, <1>6
    <2>2. p[1] <= Founding
        BY <1>1, <1>5, <1>6, <1>12, <2>1, AscendingAtMost
    <2> QED
        BY <1>5, <1>11, <2>1, <2>2
<1>14. ASSUME u >= 2 PROVE p[2] = Flagship
    <2>1. 2 \in 1..n
        BY <1>1, <1>14
    <2>2. \A i \in 1..2 : s[i] <= Flagship
        BY <1>1, <1>3, <1>5, <1>6, <1>14
    <2>3. \A i \in 2..n : s[i] >= Flagship
        <3> TAKE i \in 2..n
        <3>1. i = 2 \/ (i > 2 /\ i \in 1..u) \/ i \in (u + 1)..n
            BY <1>1
        <3>2. s[2] = Flagship
            BY <1>1, <1>3, <1>6, <1>14
        <3>3. s[i] \in Int
            BY <1>9, <2>1
        <3> QED
            BY <1>5, <1>7, <1>8, <3>1, <3>2, <3>3
    <2>4. p[2] <= Flagship
        BY <1>1, <1>5, <1>6, <1>12, <2>1, <2>2, AscendingAtMost
    <2>5. p[2] >= Flagship
        BY <1>1, <1>5, <1>6, <1>12, <2>1, <2>3, AscendingAtLeast
    <2> QED
        BY <1>5, <1>11, <2>1, <2>4, <2>5
<1>15. ASSUME NEW m \in 1..n, m > 2 \/ (m = 2 /\ u < 2) PROVE Flagship < p[m]
    <2>1. \A i \in m..n : s[i] >= Flagship + 1
        <3> TAKE i \in m..n
        <3>1. (i > 2 /\ i \in 1..u) \/ i \in (u + 1)..n
            BY <1>1, <1>15
        <3>2. s[i] \in Int
            BY <1>1, <1>9, <1>15
        <3> QED
            BY <1>5, <1>7, <1>8, <3>1, <3>2
    <2>2. p[m] >= Flagship + 1
        <3>1. Flagship + 1 \in Int
            BY <1>5
        <3> QED
            BY <1>1, <1>6, <1>12, <2>1, <3>1, AscendingAtLeast
    <2> QED
        BY <1>5, <1>11, <2>2
<1>16. ASSUME NEW m \in 1..n, m <= u PROVE p[m] <= USFirstEraEnd
    <2>1. \A i \in 1..m : s[i] <= USFirstEraEnd
        BY <1>1, <1>8, <1>16
    <2> QED
        BY <1>1, <1>5, <1>6, <1>12, <2>1, AscendingAtMost
<1>17. \A i \in 1..n :
          /\ Entry(1) <= p[i] /\ p[i] <= ExpansionEnd
          /\ i > 2 \/ (i = 2 /\ u < 2) => Flagship < p[i]
          /\ i = 1 => p[i] = Founding
          /\ i = 2 /\ u >= 2 => p[i] = Flagship
          /\ i <= u => p[i] <= USFirstEraEnd
    BY <1>5, <1>11, <1>13, <1>14, <1>15, <1>16
<1> QED
    BY <1>10, <1>17 DEF PoolOK, DateOK, n, u

\* ... and of every country, are as DateOK has them.
LEMMA PoolsAreOK ==
    ASSUME NEW k \in D0, NEW p \in DatePools(k)
    PROVE  PoolOK(k, p)
<1> DEFINE n == Allocation[k]
           e == Entry(k)
<1>1. n \in Nat /\ e \in Nat
    BY AllocationAddsUp, CountriesAre DEF Entry
<1>2. CASE k = 1
    BY <1>2, USPool
<1>3. CASE k # 1
    <2>1. Flagship \in Int /\ ExpansionEnd \in Int /\ Flagship < e /\ e < ExpansionEnd
        BY <1>3, CountriesAre, EstateDays DEF Entry
    <2>2. SUFFICES p \in [1..n -> e..ExpansionEnd]
        <3>1. p \in [1..n -> Int] /\ \A i \in 1..n : e <= p[i] /\ p[i] <= ExpansionEnd /\ Flagship < p[i]
            BY <1>1, <2>1, <2>2
        <3> QED
            BY <1>3, <3>1 DEF PoolOK, DateOK
    <2>3. CASE n = 0
        <3>1. p = << >>
            BY <2>3 DEF DatePools
        <3> HIDE DEF n, e
        <3> QED
            BY <2>3, <3>1
    <2>4. CASE n # 0 /\ Countries[k] = "GB"
        <3>1. PICK r \in SampleDates(e, ExpansionEnd, n - 1) : p = Ascending(Append(r, e))
            BY <1>3, <2>4 DEF DatePools, Entry
        <3>2. n - 1 \in Nat
            BY <1>1, <2>4
        <3> HIDE DEF n, e
        <3>3. r \in [1..(n - 1) -> e..ExpansionEnd]
            BY <1>1, <2>1, <3>1, <3>2, SampledWithin
        <3>4. Append(r, e) \in [1..n -> e..ExpansionEnd]
            <4>1. r \in Seq(e..ExpansionEnd) /\ Len(r) = n - 1 /\ e \in e..ExpansionEnd
                BY <1>1, <2>1, <3>2, <3>3
            <4>2. Append(r, e) \in Seq(e..ExpansionEnd) /\ Len(Append(r, e)) = Len(r) + 1
                BY <4>1, AppendProperties
            <4>3. Append(r, e) \in [1..Len(Append(r, e)) -> e..ExpansionEnd]
                BY <4>2, LenProperties
            <4> QED
                BY <1>1, <3>2, <4>1, <4>2, <4>3
        <3>5. Append(r, e) \in [1..n -> Int]
            BY <1>1, <2>1, <3>4
        <3> DEFINE s == Append(r, e)
        <3> HIDE DEF s
        <3>6. p \in [1..n -> Int] /\ \A i \in 1..n : \E j \in 1..n : p[i] = s[j]
            BY <1>1, <3>1, <3>5, AscendingType DEF s
        <3> QED
            BY <3>4, <3>6 DEF s
    <2>5. CASE n # 0 /\ Countries[k] # "GB"
        <3>1. p \in SampleDates(e, ExpansionEnd, n)
            BY <1>3, <2>5 DEF DatePools, Entry
        <3> HIDE DEF n, e
        <3> QED
            BY <1>1, <2>1, <3>1, SampledWithin
    <2> QED
        BY <2>3, <2>4, <2>5
<1> QED
    BY <1>2, <1>3

-----------------------------------------------------------------------------
(* The estate until it is numbered.                                        *)

\* The fields of a shop, and why it may close.
Reasons ==
    {"none", "lease_expiry", "underperformance",
     "restructuring_2014", "restructuring_2015", "liquidation_2016"}

\* Shops, with whatever dates.
ShopSet ==
    [country : D0, brief : BOOLEAN, number : Nat, opened : Int, closed : Int, reason : Reasons]

\* A shop of the peak estate, still open.
Lasting(s) ==
    /\ s.number \in 1..Allocation[s.country] /\ DateOK(s.country, s.number, s.opened)
    /\ s.closed = NoDay

\* A short-lived shop: its whole life lies in the expansion, before the peak.
Brief(s) ==
    /\ ExpansionStart <= s.opened /\ s.opened <= ChurnOpenEnd
    /\ s.opened < s.closed /\ s.closed < PeakDay

\* A shop before the closings.
ShopOK(s) == s \in ShopSet /\ IF s.brief THEN Brief(s) ELSE Lasting(s)

\* Two shops with one code.
SameCode(s, t) == s.country = t.country /\ s.brief = t.brief /\ s.number = t.number

\* What the shops have in common until they are numbered.
EstateSet(S) ==
    /\ IsFiniteSet(S) /\ \A s \in S : ShopOK(s)
    /\ \A s, t \in S : SameCode(s, t) => s = t
    /\ Cardinality({s \in S : ~s.brief}) = Total
    /\ \A i \in 1..Min({2, usFirstCount}) : \E s \in S : s.country = 1 /\ ~s.brief /\ s.number = i

\* The first two places of the founding country.
LEMMA FirstTwo ==
    ASSUME NEW i \in 1..Min({2, usFirstCount})
    PROVE  i \in 1..2 /\ i <= usFirstCount /\ (i = 2 => usFirstCount >= 2)
<1>1. Min({2, usFirstCount}) = IF 2 <= usFirstCount THEN 2 ELSE usFirstCount
    BY UsFirst, OfPair
<1> QED
    BY <1>1, UsFirst

\* A slot is an entry and one of its places.
LEMMA SlotsAre ==
    ASSUME NEW D, NEW n \in [D -> Nat], NEW x
    PROVE  x \in Slots(n) <=> \E k \in D : \E i \in 1..n[k] : x = <<k, i>>
<1>1. x \in Slots(n) <=> \E k \in D : x \in {k} \X (1..n[k])
    BY DEF Slots
<1>2. \A k \in D : x \in {k} \X (1..n[k]) <=> \E i \in 1..n[k] : x = <<k, i>>
    OBVIOUS
<1> QED
    BY <1>1, <1>2

\* Placing the peak estate.
LEMMA Placed ==
    ASSUME NEW pool, \A k \in D0 : pool[k] \in DatePools(k)
    PROVE  EstateSet({Shop(x[1], FALSE, x[2], pool[x[1]][x[2]], NoDay, "none") : x \in Slots(Allocation)})
<1> DEFINE N == Slots(Allocation)
           shopAt(x) == Shop(x[1], FALSE, x[2], pool[x[1]][x[2]], NoDay, "none")
           S == {shopAt(x) : x \in N}
           f == [x \in N |-> shopAt(x)]
<1>1. IsFiniteSet(N) /\ Cardinality(N) = Total
    BY AllocationAddsUp, CountriesAre, SlotsCount
<1>2. \A x : x \in N <=> \E k \in D0 : \E i \in 1..Allocation[k] : x = <<k, i>>
    BY AllocationAddsUp, SlotsAre
<1>3. \A x \in N : /\ ShopOK(shopAt(x)) /\ ~shopAt(x).brief
                   /\ shopAt(x).country = x[1] /\ shopAt(x).number = x[2]
    <2> TAKE x \in N
    <2>0. PICK k \in D0 : \E i \in 1..Allocation[k] : x = <<k, i>>
        BY <1>2
    <2>1. PICK i \in 1..Allocation[k] : x = <<k, i>>
        BY <2>0
    <2>2. PoolOK(k, pool[k])
        BY PoolsAreOK
    <2>3. pool[k][i] \in Int /\ DateOK(k, i, pool[k][i])
        BY <2>2 DEF PoolOK
    <2>4. i \in Nat
        BY AllocationAddsUp
    <2>5. shopAt(x) = Shop(k, FALSE, i, pool[k][i], NoDay, "none") /\ NoDay \in Int
        BY <2>1 DEF NoDay
    <2> HIDE DEF shopAt
    <2>6. /\ shopAt(x) \in ShopSet /\ shopAt(x).country = k /\ ~shopAt(x).brief
          /\ shopAt(x).number = i /\ shopAt(x).opened = pool[k][i] /\ shopAt(x).closed = NoDay
        <3> DEFINE d == pool[k][i]
                   sh == Shop(k, FALSE, i, d, NoDay, "none")
        <3>1. d \in Int /\ "none" \in Reasons /\ shopAt(x) = sh
            BY <2>3, <2>5 DEF Reasons
        <3> HIDE DEF d
        <3>2. /\ sh \in ShopSet /\ sh.country = k /\ ~sh.brief
              /\ sh.number = i /\ sh.opened = d /\ sh.closed = NoDay
            BY <2>4, <2>5, <3>1 DEF Shop, ShopSet
        <3> HIDE DEF sh
        <3> QED
            BY <3>1, <3>2 DEF d
    <2>7. Lasting(shopAt(x))
        BY <2>3, <2>6 DEF Lasting
    <2> QED
        <3>1. x[1] = k /\ x[2] = i
            BY <2>1
        <3> QED
            <4>1. ShopOK(shopAt(x))
                BY <2>6, <2>7 DEF ShopOK
            <4> QED
                BY <2>6, <3>1, <4>1
<1> HIDE DEF shopAt, N
<1>4. \A x, y \in N : shopAt(x).country = shopAt(y).country /\ shopAt(x).number = shopAt(y).number => x = y
    <2>1. \A x \in N : x = <<x[1], x[2]>>
        BY <1>2
    <2> QED
        BY <1>3, <2>1
<1>5. f \in [N -> S] /\ \A x \in N : f[x] = shopAt(x)
    OBVIOUS
<1>6. \A s : s \in S <=> \E x \in N : s = shopAt(x)
    OBVIOUS
<1> HIDE DEF f, S
<1>7. \A x, y \in N : f[x] = f[y] => x = y
    BY <1>4, <1>5
<1>8. \A s \in S : \E x \in N : f[x] = s
    BY <1>5, <1>6
<1>9. IsFiniteSet(S) /\ Cardinality(S) = Total
    BY <1>1, <1>5, <1>7, <1>8, SameSize
<1>10. {s \in S : ~s.brief} = S
    BY <1>3, <1>6
<1>11. \A s, t \in S : SameCode(s, t) => s = t
    BY <1>4, <1>6 DEF SameCode
<1>12. ASSUME NEW i \in 1..Min({2, usFirstCount})
       PROVE  \E s \in S : s.country = 1 /\ ~s.brief /\ s.number = i
    <2>1. i \in 1..Allocation[1] /\ 1 \in D0
        <3>1. 1 \in D0 /\ Allocation[1] \in Nat
            BY AllocationAddsUp, CountriesAre
        <3>2. i \in 1..2 /\ i <= usFirstCount
            BY <1>12, FirstTwo
        <3> QED
            BY <3>1, <3>2, AllocationAddsUp, UsFirst
    <2>2. <<1, i>> \in N
        BY <1>2, <2>1
    <2>3. shopAt(<<1, i>>) \in S
        BY <1>6, <2>2
    <2> QED
        BY <1>3, <2>2, <2>3
<1>13. \A s \in S : ShopOK(s)
    BY <1>3, <1>6
<1>14. EstateSet(S)
    BY <1>9, <1>10, <1>11, <1>12, <1>13 DEF EstateSet
<1> QED
    BY <1>14 DEF S, shopAt, N

\* Adding the short-lived shops.
LEMMA Churned ==
    ASSUME NEW S, EstateSet(S), \A s \in S : ~s.brief, NEW n \in [D0 -> Nat],
           NEW opened \in [Slots(n) -> Within(ExpansionStart, ChurnOpenEnd)],
           NEW life \in [Slots(n) -> LifeDraws]
    PROVE  EstateSet(S \cup {ChurnShop(x[1], x[2], opened[x], life[x]) : x \in Slots(n)})
<1> DEFINE N == Slots(n)
           shopAt(x) == ChurnShop(x[1], x[2], opened[x], life[x])
           T == {shopAt(x) : x \in N}
           f == [x \in N |-> shopAt(x)]
<1>1. IsFiniteSet(N)
    BY CountriesAre, SlotsCount
<1>2. \A x : x \in N <=> \E k \in D0 : \E i \in 1..n[k] : x = <<k, i>>
    BY SlotsAre
<1>3. \A x \in N : /\ ShopOK(shopAt(x)) /\ shopAt(x).brief
                   /\ shopAt(x).country = x[1] /\ shopAt(x).number = x[2]
    <2> TAKE x \in N
    <2>0. PICK k \in D0 : \E i \in 1..n[k] : x = <<k, i>>
        BY <1>2
    <2>1. PICK i \in 1..n[k] : x = <<k, i>>
        BY <2>0
    <2>2. ExpansionStart \in Int /\ ChurnOpenEnd \in Int /\ PeakDay \in Int
          /\ ExpansionStart < ChurnOpenEnd /\ ChurnOpenEnd < PeakDay - 1
        BY EstateAssumption, EstateDays
    <2>3. opened[x] \in ExpansionStart..ChurnOpenEnd
        <3>1. opened[x] \in Within(ExpansionStart, ChurnOpenEnd)
            OBVIOUS
        <3> QED
            BY <2>2, <3>1, DrawnWithin
    <2>4. life[x] \in Nat /\ life[x] > 0
        <3>1. life[x] \in LifeDraws /\ LifeDraws \subseteq Nat \ {0}
            BY EstateAssumption
        <3>2. life[x] \in Nat \ {0}
            BY <3>1
        <3> QED
            BY <3>2
    <2> DEFINE o == opened[x]
               c == Min({o + life[x], PeakDay - 1})
    <2>5. c \in Int /\ o < c /\ c < PeakDay
        <3> DEFINE l == o + life[x]
        <3>1. l \in Int /\ o < l
            BY <2>2, <2>3, <2>4
        <3> HIDE DEF l
        <3>2. Min({l, PeakDay - 1}) = IF l <= PeakDay - 1 THEN l ELSE PeakDay - 1
            BY <2>2, <3>1, OfPair
        <3> QED
            BY <2>2, <2>3, <3>1, <3>2 DEF l
    <2>6. shopAt(x) = Shop(k, TRUE, i, o, c, "lease_expiry")
        BY <2>1 DEF ChurnShop
    <2>7. i \in Nat
        OBVIOUS
    <2> HIDE DEF shopAt, c, o
    <2>8. o \in Int /\ ExpansionStart <= o /\ o <= ChurnOpenEnd
        BY <2>2, <2>3 DEF o
    <2>9. /\ shopAt(x) \in ShopSet /\ shopAt(x).country = k /\ shopAt(x).brief
          /\ shopAt(x).number = i /\ shopAt(x).opened = o /\ shopAt(x).closed = c
        <3> DEFINE sh == Shop(k, TRUE, i, o, c, "lease_expiry")
        <3>1. "lease_expiry" \in Reasons /\ shopAt(x) = sh
            BY <2>6 DEF Reasons
        <3>2. /\ sh \in ShopSet /\ sh.country = k /\ sh.brief
              /\ sh.number = i /\ sh.opened = o /\ sh.closed = c
            BY <2>5, <2>7, <2>8, <3>1 DEF Shop, ShopSet
        <3> HIDE DEF sh
        <3> QED
            BY <3>1, <3>2
    <2>10. Brief(shopAt(x))
        BY <2>5, <2>8, <2>9 DEF Brief
    <2> QED
        BY <2>1, <2>9, <2>10 DEF ShopOK
<1> HIDE DEF shopAt, N
<1>4. \A x, y \in N : shopAt(x).country = shopAt(y).country /\ shopAt(x).number = shopAt(y).number => x = y
    <2>1. \A x \in N : x = <<x[1], x[2]>>
        BY <1>2
    <2> QED
        BY <1>3, <2>1
<1>5. f \in [N -> T] /\ \A x \in N : f[x] = shopAt(x)
    OBVIOUS
<1>6. \A s : s \in T <=> \E x \in N : s = shopAt(x)
    OBVIOUS
<1> HIDE DEF f, T
<1>7. IsFiniteSet(T)
    <2>1. \A x, y \in N : f[x] = f[y] => x = y
        BY <1>4, <1>5
    <2>2. \A s \in T : \E x \in N : f[x] = s
        BY <1>5, <1>6
    <2> QED
        BY <1>1, <1>5, <2>1, <2>2, SameSize
<1>8. IsFiniteSet(S) /\ IsFiniteSet(S \cup T)
    BY <1>7, FS_Union DEF EstateSet
<1>9. \A s \in T : ShopOK(s) /\ s.brief
    BY <1>3, <1>6
<1>10. {s \in S \cup T : ~s.brief} = {s \in S : ~s.brief}
    BY <1>9
<1>11. \A s, t \in S \cup T : SameCode(s, t) => s = t
    <2> SUFFICES ASSUME NEW s \in S \cup T, NEW t \in S \cup T, SameCode(s, t) PROVE s = t
        OBVIOUS
    <2>1. CASE s \in T /\ t \in T
        <3>1. PICK x \in N, y \in N : s = shopAt(x) /\ t = shopAt(y)
            BY <1>6, <2>1
        <3> QED
            BY <1>4, <3>1 DEF SameCode
    <2>2. CASE s \in S /\ t \in S
        BY <2>2 DEF EstateSet
    <2>3. CASE s \in T /\ t \in S
        BY <1>9, <2>3 DEF SameCode
    <2>4. CASE s \in S /\ t \in T
        BY <1>9, <2>4 DEF SameCode
    <2> QED
        BY <2>1, <2>2, <2>3, <2>4
<1>12. EstateSet(S \cup T)
    BY <1>8, <1>9, <1>10, <1>11 DEF EstateSet
<1> QED
    BY <1>12 DEF T, shopAt, N

-----------------------------------------------------------------------------
(* Numbering.                                                              *)

\* The fields that order shops, with their types.
LEMMA ShopFields ==
    ASSUME NEW s, ShopOK(s)
    PROVE  /\ s.country \in D0 /\ s.brief \in BOOLEAN /\ s.number \in Nat /\ s.opened \in Int
           /\ Alphabetical[s.country] \in Nat
    BY EstateAssumption DEF ShopOK, ShopSet, D0

\* Codes are ordered as their strings: strictly, and any two that differ.
LEMMA CodesOrdered ==
    ASSUME NEW s, ShopOK(s), NEW t, ShopOK(t)
    PROVE  /\ ~CodeBefore(s, s)
           /\ SameCode(s, t) \/ CodeBefore(s, t) \/ CodeBefore(t, s)
<1>1. /\ s.brief \in BOOLEAN /\ s.number \in Nat /\ Alphabetical[s.country] \in Nat /\ s.country \in D0
      /\ t.brief \in BOOLEAN /\ t.number \in Nat /\ Alphabetical[t.country] \in Nat /\ t.country \in D0
    BY ShopFields
<1>2. Alphabetical[s.country] = Alphabetical[t.country] => s.country = t.country
    BY <1>1, EstateDays DEF D0
<1>3. ~CodeBefore(s, s)
    BY <1>1 DEF CodeBefore
<1>4. CASE s.country # t.country
    BY <1>1, <1>2, <1>4 DEF CodeBefore
<1>5. CASE s.country = t.country /\ s.brief # t.brief
    BY <1>1, <1>5 DEF CodeBefore
<1>6. CASE s.country = t.country /\ s.brief = t.brief
    BY <1>1, <1>6 DEF CodeBefore, SameCode
<1> QED
    BY <1>3, <1>4, <1>5, <1>6

\* ... and transitively.
LEMMA CodesTransitive ==
    ASSUME NEW s, ShopOK(s), NEW t, ShopOK(t), NEW u, ShopOK(u),
           CodeBefore(s, t), CodeBefore(t, u)
    PROVE  CodeBefore(s, u)
<1>1. /\ s.brief \in BOOLEAN /\ s.number \in Nat /\ Alphabetical[s.country] \in Nat
      /\ t.brief \in BOOLEAN /\ t.number \in Nat /\ Alphabetical[t.country] \in Nat
      /\ u.brief \in BOOLEAN /\ u.number \in Nat /\ Alphabetical[u.country] \in Nat
    BY ShopFields
<1>2. CASE s.country # t.country \/ t.country # u.country
    BY <1>1, <1>2 DEF CodeBefore
<1>3. CASE s.country = t.country /\ t.country = u.country
    BY <1>1, <1>3 DEF CodeBefore
<1> QED
    BY <1>2, <1>3

\* The order of numbering ...
InOpening(S) == {p \in S \X S : OpenedBefore(p[1], p[2])}

\* ... orders any shops no two of which share a code.
LEMMA OpeningOrder ==
    ASSUME NEW S, EstateSet(S)
    PROVE  /\ StrictOrder(S, InOpening(S))
           /\ \A s, t \in S : <<s, t>> \in InOpening(S) <=> OpenedBefore(s, t)
<1> DEFINE R == InOpening(S)
<1>1. \A s, t \in S : <<s, t>> \in R <=> OpenedBefore(s, t)
    BY DEF InOpening
<1>2. \A s \in S : ShopOK(s) /\ s.opened \in Int
    BY ShopFields DEF EstateSet
<1>3. \A s \in S : <<s, s>> \notin R
    BY <1>1, <1>2, CodesOrdered DEF OpenedBefore
<1>4. ASSUME NEW s \in S, NEW t \in S, NEW u \in S, <<s, t>> \in R, <<t, u>> \in R
      PROVE  <<s, u>> \in R
    <2>1. OpenedBefore(s, t) /\ OpenedBefore(t, u)
        BY <1>1, <1>4
    <2>2. CASE s.opened = t.opened /\ t.opened = u.opened
        <3>1. CodeBefore(s, t) /\ CodeBefore(t, u)
            BY <1>2, <2>1, <2>2 DEF OpenedBefore
        <3>2. CodeBefore(s, u)
            BY <1>2, <3>1, CodesTransitive
        <3> QED
            BY <1>1, <2>2, <3>2 DEF OpenedBefore
    <2>3. CASE ~(s.opened = t.opened /\ t.opened = u.opened)
        <3>1. s.opened < u.opened
            BY <1>2, <2>1, <2>3 DEF OpenedBefore
        <3> QED
            BY <1>1, <3>1 DEF OpenedBefore
    <2> QED
        BY <2>2, <2>3
<1>5. ASSUME NEW s \in S, NEW t \in S
      PROVE  s = t \/ <<s, t>> \in R \/ <<t, s>> \in R
    <2>1. CASE s.opened # t.opened
        BY <1>1, <1>2, <2>1 DEF OpenedBefore
    <2>2. CASE s.opened = t.opened
        <3>1. SameCode(s, t) \/ CodeBefore(s, t) \/ CodeBefore(t, s)
            BY <1>2, CodesOrdered
        <3>2. SameCode(s, t) => s = t
            BY DEF EstateSet
        <3> QED
            BY <1>1, <2>2, <3>1, <3>2 DEF OpenedBefore
    <2> QED
        BY <2>1, <2>2
<1> HIDE DEF R
<1>6. StrictOrder(S, R)
    BY <1>3, <1>4, <1>5 DEF StrictOrder
<1> QED
    BY <1>1, <1>6 DEF R

\* The founding shop opens before every other, and the flagship before every
\* other but that one.
LEMMA FirstOpened ==
    ASSUME NEW S, EstateSet(S), NEW i \in 1..Min({2, usFirstCount}),
           NEW s \in S, s.country = 1, ~s.brief, s.number = i
    PROVE  /\ s.opened = IF i = 1 THEN Founding ELSE Flagship
           /\ \A t \in S : \/ t = s \/ s.opened < t.opened
                           \/ i = 2 /\ t.country = 1 /\ ~t.brief /\ t.number = 1
           /\ \A t \in S : i = 2 /\ t.country = 1 /\ ~t.brief /\ t.number = 1 => t.opened < s.opened
<1>1. i \in 1..2 /\ i <= usFirstCount /\ (i = 2 => usFirstCount >= 2)
    BY FirstTwo
<1>2. /\ Founding \in Int /\ Flagship \in Int /\ ExpansionStart \in Int
      /\ Founding < Flagship /\ Flagship < ExpansionStart /\ usFirstCount \in Nat
    BY UsFirst, EstateAssumption, EstateDays
<1>3. \A t \in S : ~t.brief => t.number \in 1..Allocation[t.country] /\ DateOK(t.country, t.number, t.opened)
    BY DEF EstateSet, ShopOK, Lasting
<1>4. \A t \in S : t.brief => ExpansionStart <= t.opened
    BY DEF EstateSet, ShopOK, Brief
<1>5. \A t \in S : t.opened \in Int /\ t.number \in Nat
    BY ShopFields DEF EstateSet
<1>6. s.opened = IF i = 1 THEN Founding ELSE Flagship
    <2>1. DateOK(1, i, s.opened)
        BY <1>3
    <2> QED
        <3>1. CASE i = 1
            BY <2>1, <3>1 DEF DateOK
        <3>2. CASE i = 2
            BY <1>1, <2>1, <3>2 DEF DateOK
        <3> QED
            BY <1>1, <3>1, <3>2
<1>7. \A t \in S : t.country = 1 /\ ~t.brief /\ t.number = i => t = s
    <2>1. \A t \in S : t.brief \in BOOLEAN
        BY ShopFields DEF EstateSet
    <2>2. \A t \in S : SameCode(t, s) => t = s
        BY DEF EstateSet
    <2> QED
        BY <2>1, <2>2 DEF SameCode
<1>8. ASSUME NEW t \in S, t # s, ~(i = 2 /\ t.country = 1 /\ ~t.brief /\ t.number = 1)
      PROVE  s.opened < t.opened
    <2>1. CASE t.brief
        BY <1>1, <1>2, <1>4, <1>5, <1>6, <2>1
    <2>2. CASE ~t.brief
        <3>1. DateOK(t.country, t.number, t.opened) /\ t.number >= 1
            BY <1>3, <1>5, <2>2, AllocationAddsUp, ShopFields DEF EstateSet
        <3>2. CASE t.country = 1 /\ t.number = 2 /\ usFirstCount >= 2
            BY <1>1, <1>2, <1>6, <1>7, <1>8, <2>2, <3>1, <3>2 DEF DateOK
        <3>3. CASE t.country # 1 \/ t.number > 2 \/ (t.number = 2 /\ usFirstCount < 2)
            BY <1>1, <1>2, <1>5, <1>6, <3>1, <3>3 DEF DateOK
        <3>4. CASE t.country = 1 /\ t.number = 1
            BY <1>1, <1>7, <1>8, <2>2, <3>4
        <3> QED
            BY <1>2, <1>5, <3>1, <3>2, <3>3, <3>4
    <2> QED
        BY <2>1, <2>2
<1>9. \A t \in S : i = 2 /\ t.country = 1 /\ ~t.brief /\ t.number = 1 => t.opened = Founding
    BY <1>3 DEF DateOK
<1> QED
    BY <1>2, <1>6, <1>8, <1>9

\* Numbering keeps every shop, in order of opening.
LEMMA NumberedAre ==
    ASSUME NEW S, EstateSet(S)
    PROVE  LET q == Numbered(S)
               n == Cardinality(S)
           IN  /\ n \in Nat /\ q \in [1..n -> S]
               /\ \A i, j \in 1..n : i < j => q[i].opened <= q[j].opened
               /\ IsFiniteSet({i \in 1..n : ~q[i].brief})
               /\ Cardinality({i \in 1..n : ~q[i].brief}) = Total
               /\ \A i \in 1..Min({2, usFirstCount}) :
                     /\ q[i].country = 1 /\ ~q[i].brief /\ q[i].number = i
                     /\ q[i].opened = IF i = 1 THEN Founding ELSE Flagship
<1> DEFINE q == Numbered(S)
           n == Cardinality(S)
           R == InOpening(S)
           I == {i \in 1..n : ~q[i].brief}
           L == {s \in S : ~s.brief}
           f == [i \in I |-> q[i]]
<1>1. q = Sorted(S, R) /\ StrictOrder(S, R) /\ IsFiniteSet(S)
    BY OpeningOrder DEF Numbered, InOpening, EstateSet
<1>2. \A s, t \in S : <<s, t>> \in R <=> OpenedBefore(s, t)
    BY OpeningOrder
<1> HIDE DEF q, R
<1>3. n \in Nat /\ q \in [1..n -> S]
    BY <1>1, SortedType
<1>4. \A i, j \in 1..n : (q[i] = q[j] => i = j) /\ (i < j <=> <<q[i], q[j]>> \in R)
    BY <1>1, SortedOrder
<1>5. \A s \in S : \E i \in 1..n : q[i] = s
    BY <1>1, SortedPlace
<1> HIDE DEF n
<1>6. \A i, j \in 1..n : i < j => q[i].opened <= q[j].opened
    <2> SUFFICES ASSUME NEW i \in 1..n, NEW j \in 1..n, i < j PROVE q[i].opened <= q[j].opened
        OBVIOUS
    <2>1. q[i] \in S /\ q[j] \in S /\ OpenedBefore(q[i], q[j])
        BY <1>2, <1>3, <1>4
    <2>2. q[i].opened \in Int /\ q[j].opened \in Int
        BY <2>1, ShopFields DEF EstateSet
    <2> QED
        BY <2>1, <2>2 DEF OpenedBefore
<1>7. IsFiniteSet(I) /\ Cardinality(I) = Total
    <2>1. IsFiniteSet(L) /\ Cardinality(L) = Total
        BY <1>1, FS_Subset DEF EstateSet
    <2>2. IsFiniteSet(I)
        <3>1. IsFiniteSet(1..n) /\ I \subseteq 1..n
            BY <1>3, FS_Interval
        <3> QED
            BY <3>1, FS_Subset
    <2>3. f \in [I -> L] /\ \A i \in I : f[i] = q[i]
        BY <1>3
    <2>4. \A i, j \in I : f[i] = f[j] => i = j
        BY <1>4, <2>3
    <2>5. \A s \in L : \E i \in I : f[i] = s
        BY <1>5, <2>3
    <2> HIDE DEF f, I, L
    <2> QED
        BY <2>1, <2>2, <2>3, <2>4, <2>5, SameSize
<1>8. ASSUME NEW i \in 1..Min({2, usFirstCount})
      PROVE  /\ q[i].country = 1 /\ ~q[i].brief /\ q[i].number = i
             /\ q[i].opened = IF i = 1 THEN Founding ELSE Flagship
    <2>1. PICK s \in S : s.country = 1 /\ ~s.brief /\ s.number = i
        BY <1>8 DEF EstateSet
    <2>2. /\ s.opened = IF i = 1 THEN Founding ELSE Flagship
          /\ \A t \in S : \/ t = s \/ s.opened < t.opened
                          \/ i = 2 /\ t.country = 1 /\ ~t.brief /\ t.number = 1
          /\ \A t \in S : i = 2 /\ t.country = 1 /\ ~t.brief /\ t.number = 1 => t.opened < s.opened
        BY <1>8, <2>1, FirstOpened
    <2>3. i \in 1..2 /\ i <= usFirstCount
        BY <1>8, FirstTwo
    <2>4. \A t \in S : t.opened \in Int
        BY ShopFields DEF EstateSet
    <2>5. PICK m \in 1..n : q[m] = s
        BY <1>5
    <2>6. CASE i = 1
        <3>1. m = 1
            <4>1. 1 \in 1..n /\ q[1] \in S
                BY <1>3
            <4>2. ~(1 < m)
                <5> SUFFICES ASSUME 1 < m PROVE FALSE
                    OBVIOUS
                <5>1. <<q[1], q[m]>> \in R /\ q[1] # q[m]
                    BY <1>3, <1>4, <4>1
                <5>2. OpenedBefore(q[1], s)
                    BY <1>2, <2>5, <4>1, <5>1
                <5>3. s.opened < q[1].opened
                    BY <2>2, <2>5, <2>6, <4>1, <5>1
                <5> QED
                    BY <2>4, <4>1, <5>2, <5>3 DEF OpenedBefore
            <4> QED
                BY <1>3, <4>2
        <3> QED
            BY <2>1, <2>2, <2>5, <2>6, <3>1
    <2>7. CASE i = 2
        <3>1. PICK r \in S : r.country = 1 /\ ~r.brief /\ r.number = 1
            <4>1. 1 \in 1..Min({2, usFirstCount})
                <5>1. Min({2, usFirstCount}) \in Int
                    <6>1. Min({2, usFirstCount}) = IF 2 <= usFirstCount THEN 2 ELSE usFirstCount
                        BY UsFirst, OfPair
                    <6> QED
                        BY <6>1, UsFirst
                <5> QED
                    BY <1>8, <2>7, <5>1
            <4> QED
                BY <4>1 DEF EstateSet
        <3>2. r.opened < s.opened /\ r # s
            BY <2>2, <2>4, <2>7, <3>1
        <3>3. \A t \in S : t = s \/ t = r \/ s.opened < t.opened
            <4> TAKE t \in S
            <4>1. CASE t.country = 1 /\ ~t.brief /\ t.number = 1
                <5>1. SameCode(t, r)
                    <6>1. t.brief \in BOOLEAN /\ r.brief \in BOOLEAN
                        BY ShopFields DEF EstateSet
                    <6> QED
                        BY <3>1, <4>1, <6>1 DEF SameCode
                <5> QED
                    BY <5>1 DEF EstateSet
            <4> QED
                BY <2>2, <4>1
        <3>4. PICK k \in 1..n : q[k] = r
            BY <1>5
        <3>5. k < m
            BY <1>2, <1>4, <2>5, <3>2, <3>4 DEF OpenedBefore
        <3>6. \A j \in 1..n : j < m => j = k
            <4> SUFFICES ASSUME NEW j \in 1..n, j < m PROVE j = k
                OBVIOUS
            <4>1. q[j] \in S /\ q[m] \in S /\ <<q[j], q[m]>> \in R /\ q[j] # q[m]
                BY <1>3, <1>4
            <4>2. OpenedBefore(q[j], s)
                BY <1>2, <2>5, <4>1
            <4>3. q[j].opened \in Int /\ s.opened \in Int
                BY <2>4, <4>1
            <4>4. ~(s.opened < q[j].opened)
                BY <4>2, <4>3 DEF OpenedBefore
            <4>5. q[j] = r
                BY <2>5, <3>3, <4>1, <4>4
            <4> QED
                BY <1>4, <3>4, <4>5
        <3>7. m = 2
            <4>1. 1 \in 1..n /\ (m > 2 => 2 \in 1..n)
                BY <1>3
            <4>2. k = 1
                BY <1>3, <3>5, <3>6, <4>1
            <4>3. ~(m > 2)
                BY <1>3, <3>6, <4>1, <4>2
            <4> QED
                BY <1>3, <3>5, <4>2, <4>3
        <3> QED
            BY <2>1, <2>2, <2>5, <2>7, <3>7
    <2> QED
        BY <2>3, <2>6, <2>7
<1> QED
    BY <1>3, <1>6, <1>7, <1>8 DEF q, n

-----------------------------------------------------------------------------
(* The inductive invariant of the estate.                                  *)

\* A shop of the peak estate once its closing is scheduled: after the peak, and
\* no later than the company's.
Ended(s) ==
    /\ s \in ShopSet
    /\ IF s.brief THEN Brief(s)
       ELSE /\ s.number \in 1..Allocation[s.country] /\ DateOK(s.country, s.number, s.opened)
            /\ PeakDay < s.closed /\ s.closed <= ClosureDay

\* What the numbered shops have in common.
Listed(q) ==
    \E n \in Nat :
        /\ q \in [1..n -> ShopSet]
        /\ \A i, j \in 1..n : i < j => q[i].opened <= q[j].opened
        /\ IsFiniteSet({i \in 1..n : ~q[i].brief})
        /\ Cardinality({i \in 1..n : ~q[i].brief}) = Total
        /\ \A i \in 1..Min({2, usFirstCount}) :
              /\ q[i].country = 1 /\ ~q[i].brief /\ q[i].number = i
              /\ q[i].opened = IF i = 1 THEN Founding ELSE Flagship

\* The inductive invariant of the estate.
EstateInv ==
    /\ built \in {"none", "peak", "churned", "numbered", "closed"}
    /\ built \in {"peak", "churned"} => EstateSet(shops)
    /\ built = "peak" => \A s \in shops : ~s.brief
    /\ built \in {"numbered", "closed"} => Listed(shops)
    /\ built = "numbered" => \A i \in DOMAIN shops : ShopOK(shops[i])
    /\ built = "closed" => \A i \in DOMAIN shops : Ended(shops[i])

\* A shop of the peak estate closes after the peak and no later than the company.
LEMMA ClosesAfterThePeak ==
    ASSUME NEW s, s.opened \in Int, s.opened <= PeakDay,
           NEW k \in DOMAIN ClosureYears, NEW f \in Draws
    PROVE  /\ ClosingDate(s, ClosureYears[k], f) \in Int
           /\ PeakDay < ClosingDate(s, ClosureYears[k], f)
           /\ ClosingDate(s, ClosureYears[k], f) <= ClosureDay
<1> DEFINE y == ClosureYears[k]
           start == FirstOf(y)
           end == FirstOf(y + 1) - 1
           last == Min({end, ClosureDay})
           first == IF s.opened > start THEN Min({s.opened + 1, last}) ELSE start
<1>1. y \in Nat /\ YearLength \in Nat /\ YearLength > 0 /\ ClosureDay \in Nat /\ PeakDay \in Nat
    <2>1. YearLength \in Nat /\ YearLength > 0 /\ ClosureDay \in Nat /\ PeakDay \in Nat
        BY EstateDays
    <2>2. y \in Nat
        BY EstateDays
    <2> HIDE DEF y
    <2> QED
        BY <2>1, <2>2
<1>2. start \in Nat /\ PeakDay < start /\ start <= ClosureDay
    <2>1. PeakDay < y * YearLength /\ y * YearLength <= ClosureDay
        BY EstateAssumption, EstateDays
    <2>2. y * YearLength \in Nat
        BY <1>1
    <2> QED
        BY <2>1, <2>2 DEF FirstOf
<1>3. end \in Int /\ start <= end
    <2>1. (y + 1) * YearLength = y * YearLength + YearLength /\ y * YearLength \in Nat
        BY <1>1
    <2> HIDE DEF y
    <2> QED
        BY <1>1, <2>1 DEF FirstOf
<1> HIDE DEF y, start, end
<1>4. last \in Int /\ start <= last /\ last <= ClosureDay
    <2>1. last = IF end <= ClosureDay THEN end ELSE ClosureDay
        BY <1>1, <1>3, OfPair
    <2> QED
        BY <1>1, <1>2, <1>3, <2>1
<1>5. first = start
    BY <1>1, <1>2
<1>6. f \in 0..99
    BY EstateAssumption
<1>7. last - first \in Nat
    <2> HIDE DEF last, first
    <2> QED
        BY <1>2, <1>4, <1>5
<1>8. ((last - first) * f) \div 100 \in 0..(last - first)
    <2> HIDE DEF last, first
    <2> QED
        BY <1>6, <1>7, Fraction
<1>9. ClosingDate(s, y, f) = first + ((last - first) * f) \div 100
    BY DEF ClosingDate, start, end
<1> DEFINE d == ((last - first) * f) \div 100
<1>10. d \in 0..(last - first) /\ ClosingDate(s, y, f) = first + d
    BY <1>8, <1>9
<1> HIDE DEF last, first, d
<1>11. /\ ClosingDate(s, y, f) \in Int /\ PeakDay < ClosingDate(s, y, f)
       /\ ClosingDate(s, y, f) <= ClosureDay
    BY <1>1, <1>2, <1>4, <1>5, <1>7, <1>10
<1> QED
    BY <1>11 DEF y

\* It holds at the start, ...
LEMMA EstateStart == EstateInit => EstateInv
    BY DEF EstateInit, EstateInv

\* ... placing the peak estate establishes the set of shops, ...
LEMMA EstatePlaced == EstateInv /\ PlacePeakEstate => EstateInv'
<1> SUFFICES ASSUME EstateInv, PlacePeakEstate PROVE EstateInv'
    OBVIOUS
<1> DEFINE of(pool) ==
        {Shop(x[1], FALSE, x[2], pool[x[1]][x[2]], NoDay, "none") : x \in Slots(Allocation)}
<1>1. PICK pool : (\A k \in D0 : pool[k] \in DatePools(k)) /\ shops' = of(pool)
    BY DEF PlacePeakEstate, D0
<1>2. EstateSet(of(pool))
    BY <1>1, Placed
<1>3. \A s \in of(pool) : ~s.brief
    BY DEF Shop
<1> HIDE DEF of
<1>4. built' = "peak" /\ EstateSet(shops') /\ \A s \in shops' : ~s.brief
    BY <1>1, <1>2, <1>3 DEF PlacePeakEstate
<1> QED
    BY <1>4 DEF EstateInv, EstateSet

\* ... the short-lived shops join it, ...
LEMMA EstateChurned == EstateInv /\ AppendTransients => EstateInv'
<1> SUFFICES ASSUME EstateInv, AppendTransients PROVE EstateInv'
    OBVIOUS
<1> DEFINE n == LargestRemainder(ChurnCount, Shares)
           with(o, l) == {ChurnShop(x[1], x[2], o[x], l[x]) : x \in Slots(n)}
<1>1. n \in [D0 -> Nat]
    BY ChurnShares
<1> HIDE DEF n
<1>2. PICK o \in [Slots(n) -> Within(ExpansionStart, ChurnOpenEnd)], l \in [Slots(n) -> LifeDraws] :
        shops' = shops \cup with(o, l)
    BY DEF AppendTransients, n
<1>3. EstateSet(shops) /\ \A s \in shops : ~s.brief
    BY DEF EstateInv, AppendTransients
<1>4. EstateSet(shops \cup with(o, l))
    BY <1>1, <1>3, Churned
<1> HIDE DEF with
<1>5. built' = "churned" /\ EstateSet(shops')
    BY <1>2, <1>4 DEF AppendTransients
<1> QED
    BY <1>5 DEF EstateInv, EstateSet

\* ... numbering makes it a sequence, ...
LEMMA EstateNumbered == EstateInv /\ NumberShops => EstateInv'
<1> SUFFICES ASSUME EstateInv, NumberShops PROVE EstateInv'
    OBVIOUS
<1> DEFINE q == Numbered(shops)
           n == Cardinality(shops)
<1>1. EstateSet(shops) /\ shops' = q /\ built' = "numbered"
    BY DEF EstateInv, NumberShops
<1>2. /\ n \in Nat /\ q \in [1..n -> shops]
      /\ \A i, j \in 1..n : i < j => q[i].opened <= q[j].opened
      /\ IsFiniteSet({i \in 1..n : ~q[i].brief})
      /\ Cardinality({i \in 1..n : ~q[i].brief}) = Total
      /\ \A i \in 1..Min({2, usFirstCount}) :
            /\ q[i].country = 1 /\ ~q[i].brief /\ q[i].number = i
            /\ q[i].opened = IF i = 1 THEN Founding ELSE Flagship
    BY <1>1, NumberedAre
<1> HIDE DEF q, n
<1>3. \A s \in shops : ShopOK(s) /\ s \in ShopSet
    BY <1>1 DEF EstateSet, ShopOK
<1>4. q \in [1..n -> ShopSet] /\ \A i \in DOMAIN q : ShopOK(q[i])
    BY <1>2, <1>3
<1>5. Listed(q)
    BY <1>2, <1>4 DEF Listed
<1>6. Listed(shops') /\ \A i \in DOMAIN shops' : ShopOK(shops'[i])
    BY <1>1, <1>4, <1>5
<1> QED
    BY <1>1, <1>6 DEF EstateInv

\* ... and closing ends every shop of the peak estate.
LEMMA EstateClosed == EstateInv /\ CloseShops => EstateInv'
<1> SUFFICES ASSUME EstateInv, CloseShops PROVE EstateInv'
    OBVIOUS
<1> DEFINE live == Survivors(shops)
           with(year, f) == [i \in DOMAIN shops |->
               IF i \in live
               THEN [shops[i] EXCEPT !.closed = ClosingDate(shops[i], ClosureYears[year[i]], f[i]),
                                     !.reason = ClosureReason(year[i])]
               ELSE shops[i]]
<1>1. PICK year \in [live -> DOMAIN ClosureYears], f \in [live -> Draws] : shops' = with(year, f)
    BY DEF CloseShops
<1>2. built = "numbered" /\ built' = "closed" /\ Listed(shops) /\ \A i \in DOMAIN shops : ShopOK(shops[i])
    BY DEF CloseShops, EstateInv
<1>3. PICK n \in Nat :
        /\ shops \in [1..n -> ShopSet]
        /\ \A i, j \in 1..n : i < j => shops[i].opened <= shops[j].opened
        /\ IsFiniteSet({i \in 1..n : ~shops[i].brief})
        /\ Cardinality({i \in 1..n : ~shops[i].brief}) = Total
        /\ \A i \in 1..Min({2, usFirstCount}) :
              /\ shops[i].country = 1 /\ ~shops[i].brief /\ shops[i].number = i
              /\ shops[i].opened = IF i = 1 THEN Founding ELSE Flagship
    BY <1>2 DEF Listed
<1> DEFINE q == with(year, f)
<1>4. DOMAIN q = 1..n
    BY <1>3
<1>5. \A i \in 1..n : i \in live <=> ~shops[i].brief
    <2> TAKE i \in 1..n
    <2>1. ShopOK(shops[i]) /\ (i \in live <=> shops[i].closed = -1)
        BY <1>2, <1>3 DEF Survivors, NoDay
    <2>2. shops[i].opened \in Int /\ ExpansionStart \in Nat /\ shops[i].closed \in Int
        BY <1>3, EstateDays DEF ShopSet
    <2> QED
        BY <2>1, <2>2 DEF ShopOK, Brief, Lasting, NoDay
<1>6. ASSUME NEW i \in 1..n
      PROVE  /\ Ended(q[i])
             /\ q[i].brief = shops[i].brief /\ q[i].opened = shops[i].opened
             /\ q[i].country = shops[i].country /\ q[i].number = shops[i].number
    <2> DEFINE s == shops[i]
    <2>1. s \in ShopSet /\ ShopOK(s)
        BY <1>2, <1>3
    <2>2. CASE ~s.brief
        <3> DEFINE c == ClosingDate(s, ClosureYears[year[i]], f[i])
                   why == ClosureReason(year[i])
        <3>1. i \in live /\ year[i] \in DOMAIN ClosureYears /\ f[i] \in Draws
            BY <1>5, <2>2
        <3>2. q[i] = [s EXCEPT !.closed = c, !.reason = why]
            BY <1>3, <3>1
        <3>3. s.opened \in Int /\ s.opened <= PeakDay
            <4>1. DateOK(s.country, s.number, s.opened) /\ s.opened \in Int
                BY <2>1, <2>2 DEF ShopOK, Lasting, ShopSet
            <4>2. s.opened <= ExpansionEnd /\ ExpansionEnd <= PeakDay
                BY <4>1, EstateAssumption DEF DateOK
            <4>3. ExpansionEnd \in Nat /\ PeakDay \in Nat
                BY EstateDays
            <4> QED
                BY <4>1, <4>2, <4>3
        <3>4. c \in Int /\ PeakDay < c /\ c <= ClosureDay
            <4> HIDE DEF s
            <4> QED
                BY <3>1, <3>3, ClosesAfterThePeak
        <3>5. why \in Reasons
            BY DEF ClosureReason, Reasons
        <3> HIDE DEF c, why, s, q
        <3>6. /\ q[i] \in ShopSet /\ q[i].brief = s.brief /\ q[i].opened = s.opened
              /\ q[i].country = s.country /\ q[i].number = s.number /\ q[i].closed = c
            BY <2>1, <3>2, <3>4, <3>5 DEF ShopSet
        <3>7. s.number \in 1..Allocation[s.country] /\ DateOK(s.country, s.number, s.opened)
            BY <2>1, <2>2 DEF ShopOK, Lasting
        <3>8. Ended(q[i])
            BY <2>2, <3>4, <3>6, <3>7 DEF Ended
        <3> QED
            BY <3>6, <3>8 DEF s
    <2>3. CASE s.brief
        <3>1. q[i] = s
            BY <1>3, <1>5, <2>3
        <3> HIDE DEF q, s
        <3>2. Ended(s)
            BY <2>1, <2>3 DEF Ended, ShopOK
        <3> QED
            BY <3>1, <3>2 DEF s
    <2> QED
        BY <2>2, <2>3
<1> HIDE DEF q
<1>7. q \in [1..n -> ShopSet]
    <2>1. \A i \in 1..n : q[i] \in ShopSet
        BY <1>6 DEF Ended
    <2>2. q = [i \in 1..n |-> q[i]]
        BY <1>4 DEF q
    <2> QED
        BY <2>1, <2>2
<1>8. {i \in 1..n : ~q[i].brief} = {i \in 1..n : ~shops[i].brief}
    BY <1>6
<1>9. \A i \in 1..Min({2, usFirstCount}) : i \in 1..n
    <2> DEFINE I == {i \in 1..n : ~shops[i].brief}
    <2>1. IsFiniteSet(1..n) /\ Cardinality(1..n) = n
        BY <1>3, FS_Interval
    <2>2. I \subseteq 1..n /\ Cardinality(I) = Total
        BY <1>3
    <2> HIDE DEF I
    <2>3. Total <= n
        BY <2>1, <2>2, FS_Subset
    <2> TAKE i \in 1..Min({2, usFirstCount})
    <2>4. i \in 1..2 /\ i <= usFirstCount
        BY FirstTwo
    <2> QED
        BY <1>3, <2>3, <2>4, UsFirst
<1>10. Listed(q)
    <2>1. \A i, j \in 1..n : i < j => q[i].opened <= q[j].opened
        BY <1>3, <1>6
    <2>2. /\ IsFiniteSet({i \in 1..n : ~q[i].brief})
          /\ Cardinality({i \in 1..n : ~q[i].brief}) = Total
        BY <1>3, <1>8
    <2>3. \A i \in 1..Min({2, usFirstCount}) :
              /\ q[i].country = 1 /\ ~q[i].brief /\ q[i].number = i
              /\ q[i].opened = IF i = 1 THEN Founding ELSE Flagship
        <3> TAKE i \in 1..Min({2, usFirstCount})
        <3>1. i \in 1..n
            BY <1>9
        <3>2. /\ shops[i].country = 1 /\ ~shops[i].brief /\ shops[i].number = i
              /\ shops[i].opened = IF i = 1 THEN Founding ELSE Flagship
            BY <1>3
        <3> QED
            BY <1>6, <3>1, <3>2
    <2> QED
        BY <1>7, <2>1, <2>2, <2>3 DEF Listed
<1>11. Listed(shops') /\ \A i \in DOMAIN shops' : Ended(shops'[i])
    BY <1>1, <1>4, <1>6, <1>10 DEF q
<1> QED
    BY <1>2, <1>11 DEF EstateInv

\* Every step keeps it.
LEMMA EstateSteps == EstateInv /\ [EstateNext]_estateVars => EstateInv'
<1>1. EstateInv /\ UNCHANGED estateVars => EstateInv'
    <2> SUFFICES ASSUME EstateInv, UNCHANGED estateVars PROVE EstateInv'
        OBVIOUS
    <2>1. built' = built /\ shops' = shops
        BY DEF estateVars
    <2> QED
        BY <2>1 DEF EstateInv
<1> QED
    BY <1>1, EstatePlaced, EstateChurned, EstateNumbered, EstateClosed DEF EstateNext

\* So it always holds.
LEMMA EstateHolds == EstateSpec => []EstateInv
    BY EstateStart, EstateSteps, PTL DEF EstateSpec

-----------------------------------------------------------------------------
(* What the runs check of the estate, for every estate.                    *)

\* PeakEstate of every estate: on the day of the peak exactly the planned
\* number of shops is open, whatever was drawn (shops.go:126-131).
THEOREM PeakIsAsPlanned == EstateSpec => []PeakEstate
<1>1. EstateInv => PeakEstate
    <2> SUFFICES ASSUME EstateInv, built = "closed" PROVE Cardinality(OpenOn(PeakDay)) = Total
        BY DEF PeakEstate
    <2>1. Listed(shops) /\ \A i \in DOMAIN shops : Ended(shops[i])
        BY DEF EstateInv
    <2>2. PICK n \in Nat :
            /\ shops \in [1..n -> ShopSet]
            /\ Cardinality({i \in 1..n : ~shops[i].brief}) = Total
        BY <2>1 DEF Listed
    <2>3. ASSUME NEW i \in 1..n
          PROVE  ~shops[i].brief <=> shops[i].opened <= PeakDay /\ PeakDay < shops[i].closed
        <3>1. Ended(shops[i]) /\ shops[i].opened \in Int /\ shops[i].closed \in Int
            BY <2>1, <2>2 DEF ShopSet
        <3>2. ExpansionEnd \in Nat /\ PeakDay \in Nat /\ ExpansionEnd <= PeakDay
            BY EstateAssumption, EstateDays
        <3>3. CASE shops[i].brief
            BY <3>1, <3>2, <3>3 DEF Ended, Brief
        <3>4. CASE ~shops[i].brief
            BY <3>1, <3>2, <3>4 DEF Ended, DateOK
        <3> QED
            BY <3>3, <3>4
    <2>4. OpenOn(PeakDay) = {i \in 1..n : ~shops[i].brief}
        BY <2>2, <2>3 DEF OpenOn
    <2> QED
        BY <2>2, <2>4
<1> QED
    BY <1>1, EstateHolds, PTL

\* FoundingShops of every estate: the founding shop and the flagship are the
\* first two by number, on their days (policy.go:160-181).
THEOREM FoundersComeFirst == EstateSpec => []FoundingShops
<1>1. EstateInv => FoundingShops
    BY DEF EstateInv, Listed, FoundingShops
<1> QED
    BY <1>1, EstateHolds, PTL

\* LivesWithinTheBusiness of every estate: each shop's life lies within the
\* company's, on its side of the peak (policy.go:215-217).
THEOREM LivesAreWithin == EstateSpec => []LivesWithinTheBusiness
<1>1. EstateInv => LivesWithinTheBusiness
    <2> SUFFICES ASSUME EstateInv, built = "closed", NEW i \in DOMAIN shops
                 PROVE  LET s == shops[i] IN
                        /\ s.opened < s.closed /\ s.closed <= ClosureDay
                        /\ IF s.brief THEN s.closed < PeakDay ELSE PeakDay < s.closed
                        /\ s.brief \/ s.opened >= MarketEntry[Countries[s.country]]
        BY DEF LivesWithinTheBusiness
    <2> DEFINE s == shops[i]
    <2>1. Ended(s)
        BY DEF EstateInv
    <2>2. s.opened \in Int /\ s.closed \in Int /\ Entry(s.country) \in Nat
        BY <2>1, CountriesAre DEF Ended, ShopSet, Entry
    <2>3. /\ ExpansionEnd \in Nat /\ PeakDay \in Nat /\ ClosureDay \in Nat /\ ExpansionEnd <= PeakDay
          /\ PeakDay < ClosureDay
        <3>1. ClosureYears[1] \in Nat /\ 1 \in DOMAIN ClosureYears
            BY EstateDays
        <3>2. PeakDay < ClosureYears[1] * YearLength /\ ClosureYears[1] * YearLength <= ClosureDay
            BY <3>1, EstateAssumption, EstateDays
        <3>3. ClosureYears[1] * YearLength \in Nat
            BY <3>1, EstateDays
        <3> QED
            BY <3>2, <3>3, EstateAssumption, EstateDays
    <2> HIDE DEF s
    <2>4. /\ s.opened < s.closed /\ s.closed <= ClosureDay
          /\ IF s.brief THEN s.closed < PeakDay ELSE PeakDay < s.closed
          /\ s.brief \/ s.opened >= Entry(s.country)
        <3>1. CASE s.brief
            BY <2>1, <2>2, <2>3, <3>1 DEF Ended, Brief
        <3>2. CASE ~s.brief
            BY <2>1, <2>2, <2>3, <3>2 DEF Ended, DateOK
        <3> QED
            BY <3>1, <3>2
    <2> QED
        BY <2>4 DEF s, Entry
<1> QED
    BY <1>1, EstateHolds, PTL

USE DEF EstateAssumption, EstateDays, StaffAssumption, StaffDays

-----------------------------------------------------------------------------
(* The estate as the staff generator finds it.                             *)

\* A finished estate as the staff generator finds it.
Finished ==
    /\ \E n \in Nat : shops \in [1..n -> ShopSet]
    /\ \A i \in DOMAIN shops :
          /\ shops[i].country \in D0
          /\ shops[i].opened \in Nat /\ shops[i].closed \in Nat
          /\ shops[i].opened < shops[i].closed /\ shops[i].closed <= ClosureDay
          /\ shops[i].opened <= ExpansionEnd
    /\ \E i \in DOMAIN shops : shops[i].country = 1
    /\ \A i \in FraudShops : shops[i].opened <= ManagerFrom /\ ManagerTo <= shops[i].closed

\* The estate the staff generator starts from is finished; the founding shop is in
\* the US, and the fraud shop, one of the US-first ones, is open for its manager.
LEMMA EstateIsFinished ==
    ASSUME EstateInv, built = "closed"
    PROVE  Finished
<1>1. Listed(shops) /\ \A i \in DOMAIN shops : Ended(shops[i])
    BY DEF EstateInv
<1>2. PICK n \in Nat :
        /\ shops \in [1..n -> ShopSet]
        /\ IsFiniteSet({i \in 1..n : ~shops[i].brief})
        /\ Cardinality({i \in 1..n : ~shops[i].brief}) = Total
        /\ \A i \in 1..Min({2, usFirstCount}) : shops[i].country = 1
    BY <1>1 DEF Listed
<1>3. /\ ExpansionStart \in Nat /\ ExpansionEnd \in Nat /\ PeakDay \in Nat /\ ClosureDay \in Nat
      /\ ChurnOpenEnd \in Nat /\ ChurnOpenEnd <= ExpansionEnd /\ ExpansionEnd <= PeakDay
      /\ PeakDay < ClosureDay
    <2>1. ClosureYears[1] \in Nat /\ 1 \in DOMAIN ClosureYears
        BY EstateDays
    <2>2. PeakDay < ClosureYears[1] * YearLength /\ ClosureYears[1] * YearLength <= ClosureDay
        BY <2>1, EstateAssumption, EstateDays
    <2>3. ClosureYears[1] * YearLength \in Nat
        BY <2>1, EstateDays
    <2>4. PeakDay \in Nat /\ ClosureDay \in Nat
        BY EstateDays
    <2>5. PeakDay < ClosureDay
        BY <2>2, <2>3, <2>4
    <2>6. ExpansionStart \in Nat /\ ExpansionEnd \in Nat /\ ChurnOpenEnd \in Nat
        BY EstateDays
    <2>7. ChurnOpenEnd <= ExpansionEnd /\ ExpansionEnd <= PeakDay
        BY EstateAssumption, StaffDays
    <2> QED
        BY <2>4, <2>5, <2>6, <2>7
<1>4. ASSUME NEW i \in DOMAIN shops
      PROVE  /\ shops[i].country \in D0
             /\ shops[i].opened \in Nat /\ shops[i].closed \in Nat
             /\ shops[i].opened < shops[i].closed /\ shops[i].closed <= ClosureDay
             /\ shops[i].opened <= ExpansionEnd
    <2> DEFINE s == shops[i]
    <2>1. Ended(s)
        BY <1>1
    <2>2. s.opened \in Int /\ s.closed \in Int /\ s.country \in D0 /\ Entry(s.country) \in Nat
        BY <2>1, CountriesAre DEF Ended, ShopSet, Entry
    <2> HIDE DEF s
    <2>3. CASE s.brief
        BY <1>3, <2>1, <2>2, <2>3 DEF Ended, Brief, s
    <2>4. CASE ~s.brief
        BY <1>3, <2>1, <2>2, <2>4 DEF Ended, DateOK, s
    <2> QED
        BY <2>3, <2>4
<1>5. \E i \in DOMAIN shops : shops[i].country = 1
    <2>1. usFirstCount \in Nat /\ usFirstCount > 0
        BY UsFirst
    <2>2. Min({2, usFirstCount}) = IF 2 <= usFirstCount THEN 2 ELSE usFirstCount
        BY <2>1, OfPair
    <2>3. 1 \in 1..Min({2, usFirstCount})
        BY <2>1, <2>2
    <2>4. n > 0
        <3>1. CASE n = 0
            <4>1. {i \in 1..n : ~shops[i].brief} = {}
                BY <3>1
            <4> QED
                BY <1>2, <4>1, FS_EmptySet, UsFirst
        <3> QED
            BY <1>2, <3>1
    <2> QED
        BY <1>2, <2>3, <2>4
<1>6. ASSUME NEW i \in FraudShops
      PROVE  shops[i].opened <= ManagerFrom /\ ManagerTo <= shops[i].closed
    <2> DEFINE s == shops[i]
    <2>1. s.country = 1 /\ ~s.brief /\ s.number = FraudNumber /\ i \in DOMAIN shops
        BY DEF FraudShops
    <2>2. Ended(s) /\ s.opened \in Nat /\ s.closed \in Nat
        BY <1>1, <1>4, <2>1
    <2>3. FraudNumber \in 1..Allocation[1] /\ DateOK(1, FraudNumber, s.opened) /\ PeakDay < s.closed
        BY <2>1, <2>2 DEF Ended
    <2>4. FraudNumber <= usFirstCount
        <3>1. Allocation[1] <= Total
            <4>1. Allocation \in [D0 -> Nat] /\ 1 \in D0 /\ IsFiniteSet(D0)
                BY AllocationAddsUp, CountriesAre
            <4>2. SumFunctionOnSet(Allocation, D0) = Allocation[1] + SumFunctionOnSet(Allocation, D0 \ {1})
                BY <4>1, SumSplit
            <4>3. SumFunctionOnSet(Allocation, D0 \ {1}) \in Nat
                BY <4>1, FS_Subset, SumNonNegative
            <4> QED
                BY <4>1, <4>2, <4>3, AllocationAddsUp, UsFirst
        <3>2. Allocation[1] \in Nat
            BY AllocationAddsUp, CountriesAre
        <3>3. Total \in Int /\ USFirstShopCount \in Int /\ FraudNumber \in Int
              /\ FraudNumber <= USFirstShopCount
            BY EstateAssumption, StaffDays
        <3>4. usFirstCount = IF Total <= USFirstShopCount THEN Total ELSE USFirstShopCount
            BY <3>3, OfPair DEF usFirstCount
        <3> QED
            BY <2>3, <3>1, <3>2, <3>3, <3>4
    <2>5. s.opened <= USFirstEraEnd
        BY <2>3, <2>4 DEF DateOK
    <2>6. /\ USFirstEraEnd \in Nat /\ ManagerFrom \in Nat /\ ManagerTo \in Nat /\ PeakDay \in Nat
          /\ USFirstEraEnd <= ManagerFrom /\ ManagerTo <= PeakDay
        BY EstateDays, StaffDays
    <2> HIDE DEF s
    <2>7. s.opened <= ManagerFrom /\ ManagerTo <= s.closed
        BY <2>2, <2>3, <2>5, <2>6
    <2> QED
        BY <2>7 DEF s
<1> QED
    BY <1>2, <1>4, <1>5, <1>6 DEF Finished

-----------------------------------------------------------------------------
(* Shifts.                                                                 *)

\* Shifts within an employment: at most one a day, none across midnight.
Rota(shifts, from, to) ==
    /\ IsFiniteSet(shifts)
    /\ \A x \in shifts : /\ x.day \in Nat /\ from <= x.day /\ x.day <= to
                         /\ x.start \in Nat /\ x.length \in 1..MaxShift /\ x.start + x.length <= Hours
    /\ \A x, y \in shifts : x.day = y.day => x = y

\* What Shifts lays out is a rota from the hiring to the closing of the shop.
LEMMA ShiftsAreARota ==
    ASSUME NEW started \in Nat, NEW close \in Nat, NEW shifts \in Shifts(started, close)
    PROVE  Rota(shifts, started, close)
<1> DEFINE weeks == Weeks(started, close)
           first == ShiftStart(started, close)
           days == {ds \in SUBSET (0..Week - 1) : Cardinality(ds) \in {ShiftsPerWeek - 1, ShiftsPerWeek}}
           of(pick) == {y \in weeks \X (0..Week - 1) : y[2] \in pick[y[1]] /\ y[1] + y[2] <= close}
           on(x, time) == [day |-> x[1] + x[2], start |-> time[x].start, length |-> time[x].length]
<1>1. PICK pick \in [weeks -> days] :
        shifts \in {{on(x, time) : x \in of(pick)} : time \in [of(pick) -> ShiftTimes]}
    BY Zenon DEF Shifts
<1>a. PICK time \in [of(pick) -> ShiftTimes] : shifts = {on(x, time) : x \in of(pick)}
    <2> HIDE DEF of, on
    <2> QED
        BY <1>1
<1>2. Week \in Nat /\ Week > 0 /\ ShiftHistory \in Nat
    BY StaffDays
<1>3. first \in Nat /\ started <= first
    <2>1. first = IF started <= close - ShiftHistory THEN close - ShiftHistory ELSE started
        <3> DEFINE a == started
                   c == close - ShiftHistory
        <3>1. a \in Int /\ c \in Int
            BY <1>2
        <3>2. first = Max({a, c})
            BY DEF ShiftStart
        <3> HIDE DEF a, c, first
        <3>3. Max({a, c}) = IF a <= c THEN c ELSE a
            BY <3>1, OfPair
        <3> QED
            BY <3>2, <3>3 DEF a, c
    <2> HIDE DEF first
    <2> QED
        BY <1>2, <2>1
<1>4. weeks \subseteq first..close /\ \A w \in weeks : (w - first) % Week = 0
    BY <1>2, <1>3 DEF Weeks
<1>5. IsFiniteSet(of(pick))
    <2>1. IsFiniteSet(first..close) /\ IsFiniteSet(0..Week - 1)
        <3> HIDE DEF first
        <3> QED
            BY <1>2, <1>3, FS_Interval
    <2>2. IsFiniteSet(weeks) /\ IsFiniteSet(weeks \X (0..Week - 1))
        <3> HIDE DEF weeks, first
        <3>1. IsFiniteSet(weeks)
            BY <1>4, <2>1, FS_Subset
        <3> QED
            BY <2>1, <3>1, FS_Product
    <2>3. of(pick) \subseteq weeks \X (0..Week - 1)
        OBVIOUS
    <2> HIDE DEF of, weeks
    <2> QED
        BY <2>2, <2>3, FS_Subset
<1>6. \A x \in of(pick) : x[1] \in weeks /\ x[2] \in 0..Week - 1 /\ x[1] + x[2] <= close /\ x = <<x[1], x[2]>>
    OBVIOUS
<1>7. \A x \in of(pick) : /\ time[x].start \in Nat /\ time[x].length \in 1..MaxShift
                          /\ time[x].start + time[x].length <= Hours
    <2>1. \A t \in ShiftTimes : /\ t.start \in Nat /\ t.length \in 1..MaxShift
                                /\ t.start + t.length <= Hours
        BY StaffAssumption, StaffDays
    <2> HIDE DEF of
    <2> QED
        BY <2>1
<1> HIDE DEF weeks, first, of
<1>8. ASSUME NEW x \in of(pick)
      PROVE  LET s == on(x, time) IN
             /\ s.day \in Nat /\ started <= s.day /\ s.day <= close
             /\ s.start \in Nat /\ s.length \in 1..MaxShift /\ s.start + s.length <= Hours
    <2>1. x[1] \in first..close /\ x[2] \in 0..Week - 1 /\ x[1] + x[2] <= close
        BY <1>4, <1>6
    <2>2. on(x, time).day = x[1] + x[2]
        OBVIOUS
    <2> QED
        BY <1>2, <1>3, <1>6, <1>7, <2>1, <2>2
<1>9. ASSUME NEW x \in of(pick), NEW y \in of(pick), on(x, time).day = on(y, time).day
      PROVE  on(x, time) = on(y, time)
    <2>1. /\ x[1] \in first..close /\ x[2] \in 0..Week - 1 /\ (x[1] - first) % Week = 0
          /\ y[1] \in first..close /\ y[2] \in 0..Week - 1 /\ (y[1] - first) % Week = 0
          /\ x[1] + x[2] = y[1] + y[2]
        BY <1>4, <1>6, <1>9
    <2> DEFINE a == x[1] - first
               b == y[1] - first
    <2>2. a \in Nat /\ b \in Nat /\ a < b + Week /\ b < a + Week /\ a % Week = 0 /\ b % Week = 0
        <3>1. a % Week = 0 /\ b % Week = 0
            BY <2>1
        <3>2. a \in Nat /\ b \in Nat /\ a < b + Week /\ b < a + Week
            <4>1. \A u, p \in first..close, v, q \in 0..Week - 1 : u + v = p + q =>
                      /\ u - first \in Nat /\ p - first \in Nat
                      /\ u - first < p - first + Week /\ p - first < u - first + Week
                BY <1>2, <1>3
            <4> HIDE DEF on
            <4> QED
                BY <2>1, <4>1
        <3> QED
            BY <3>1, <3>2
    <2> HIDE DEF a, b
    <2>3. a = b
        BY <1>2, <2>2, SameMultiple
    <2>4. x[1] = y[1] /\ x[2] = y[2]
        BY <1>2, <1>3, <2>1, <2>3 DEF a, b
    <2>5. x = y
        <3>1. x = <<x[1], x[2]>> /\ y = <<y[1], y[2]>>
            BY <1>6
        <3> QED
            BY <2>4, <3>1
    <2> QED
        BY <2>5
<1> DEFINE f == [x \in of(pick) |-> on(x, time)]
<1>10. \A s : s \in shifts <=> \E x \in of(pick) : s = on(x, time)
    BY <1>a
<1> HIDE DEF on
<1>11. IsFiniteSet(shifts)
    <2>1. f \in [of(pick) -> shifts] /\ \A s \in shifts : \E x \in of(pick) : f[x] = s
        BY <1>10
    <2> HIDE DEF f
    <2>2. f \in Surjection(of(pick), shifts)
        BY <2>1 DEF Surjection
    <2> QED
        BY <1>5, <2>2, FS_Surjection
<1> QED
    BY <1>8, <1>9, <1>10, <1>11 DEF Rota

-----------------------------------------------------------------------------
(* Who is on duty.                                                         *)

\* The shifts of a shop's people, as spans of time: none longer than a shift,
\* and a person starts one at a time.
SpansOK(S) ==
    /\ IsFiniteSet(S)
    /\ \A x \in S : /\ x.spell \in Nat /\ x.from \in Nat /\ x.to \in Nat
                    /\ x.from < x.to /\ x.to <= x.from + MaxShift
    /\ \A x, y \in S : x.from = y.from /\ x.spell = y.spell => x = y

\* The order of the shift index ...
InStart == {p \in spans \X spans : InOrder(<<p[1].from, p[1].spell>>, <<p[2].from, p[2].spell>>)}

\* ... orders the spans, since nobody starts two at a time.
LEMMA StartOrder ==
    ASSUME SpansOK(spans)
    PROVE  /\ StrictOrder(spans, InStart)
           /\ \A x, y \in spans : <<x, y>> \in InStart <=>
                  x.from < y.from \/ (x.from = y.from /\ x.spell < y.spell)
<1>1. \A x, y \in spans : <<x, y>> \in InStart <=>
           x.from < y.from \/ (x.from = y.from /\ x.spell < y.spell)
    BY DEF InStart, InOrder
<1>2. \A x \in spans : x.from \in Nat /\ x.spell \in Nat
    BY DEF SpansOK
<1>3. \A x, y \in spans : x.from = y.from /\ x.spell = y.spell => x = y
    BY DEF SpansOK
<1> QED
    BY <1>1, <1>2, <1>3 DEF StrictOrder

\* OnDutyIsExact's second part: the search back from the last span started
\* finds every span over the instant (shiftindex.go:104-137).
LEMMA SearchIsExact ==
    ASSUME SpansOK(spans), NEW t \in Int
    PROVE  OnDuty(t) = {x.spell : x \in {y \in spans : y.from <= t /\ t < y.to}}
<1> DEFINE R == InStart
           n == Cardinality(spans)
           begun == {x \in spans : x.from <= t}
           hi == Cardinality(begun)
           stale == {i \in 1..hi : Roster[i].from < t - MaxShiftSpan}
           found == {j \in 1..hi : Roster[j].to > t /\ \A o \in stale : o < j}
           here == {y \in spans : y.from <= t /\ t < y.to}
<1>1. IsFiniteSet(spans) /\ StrictOrder(spans, R) /\ Roster = Sorted(spans, R)
    BY StartOrder DEF SpansOK, Roster, InStart
<1>2. \A x, y \in spans : <<x, y>> \in R <=> x.from < y.from \/ (x.from = y.from /\ x.spell < y.spell)
    BY StartOrder
<1> HIDE DEF R
<1>3. n \in Nat /\ Roster \in [1..n -> spans]
    BY <1>1, SortedType
<1>4. \A i, j \in 1..n : i < j <=> <<Roster[i], Roster[j]>> \in R
    BY <1>1, SortedOrder
<1>5. \A i \in 1..n : Rank(Roster[i], spans, R) = i - 1
    BY <1>1, SortedAt
<1>6. \A x \in spans : \E i \in 1..n : Roster[i] = x
    BY <1>1, SortedPlace
<1>7. \A x \in spans : /\ x.spell \in Nat /\ x.from \in Nat /\ x.to \in Nat
                       /\ x.from < x.to /\ x.to <= x.from + MaxShift
    BY DEF SpansOK
<1>8. MaxShift \in Nat /\ MaxShiftSpan \in Nat /\ MaxShift <= MaxShiftSpan
    BY StaffAssumption, StaffDays
<1>9. begun \subseteq spans /\ IsFiniteSet(begun) /\ hi \in Nat /\ hi <= n
    BY <1>1, FS_Subset, FS_CardinalityType
<1>10. ASSUME NEW i \in 1..n PROVE i <= hi <=> Roster[i].from <= t
    <2> DEFINE x == Roster[i]
               B == Before(x, spans, R)
    <2>1. x \in spans /\ Cardinality(B) = i - 1
        BY <1>3, <1>5 DEF Rank
    <2>2. \A y \in B : y \in spans /\ y # x /\ y.from <= x.from
        <3>1. \A y \in B : y \in spans /\ <<y, x>> \in R
            BY DEF Before
        <3> QED
            <4> HIDE DEF x, B
            <4> TAKE y \in B
            <4>1. y \in spans /\ (y.from < x.from \/ (y.from = x.from /\ y.spell < x.spell))
                BY <1>2, <2>1, <3>1
            <4>2. y.from \in Nat /\ y.spell \in Nat /\ x.from \in Nat /\ x.spell \in Nat
                BY <1>7, <2>1, <4>1
            <4> QED
                BY <4>1, <4>2
    <2>3. \A y \in spans : y.from < x.from => y \in B
        BY <1>2, <2>1 DEF Before
    <2>4. IsFiniteSet(B)
        BY <1>1, FS_Subset DEF Before
    <2> HIDE DEF x, B
    <2>5. ASSUME x.from <= t PROVE i <= hi
        <3>1. B \subseteq begun /\ x \in begun /\ x \notin B
            BY <1>7, <2>1, <2>2, <2>5
        <3>2. Cardinality(B) <= hi /\ (Cardinality(B) = hi => B = begun)
            BY <1>9, <3>1, FS_Subset
        <3>3. i - 1 < hi
            BY <1>9, <2>1, <3>1, <3>2
        <3> HIDE DEF hi
        <3> QED
            BY <1>9, <3>3
    <2>6. ASSUME ~(x.from <= t) PROVE ~(i <= hi)
        <3>1. begun \subseteq B
            BY <1>7, <2>1, <2>3, <2>6
        <3>2. hi <= Cardinality(B)
            BY <2>4, <3>1, FS_Subset
        <3> HIDE DEF hi
        <3> QED
            BY <1>9, <2>1, <3>2
    <2> QED
        BY <2>5, <2>6 DEF x
<1> HIDE DEF n, hi, begun
<1>11. OnDuty(t) = {Roster[i].spell : i \in found}
    BY DEF OnDuty, hi, begun
<1>12. ASSUME NEW i \in found PROVE Roster[i] \in here
    <2>1. i \in 1..n /\ i <= hi /\ Roster[i].to > t /\ Roster[i] \in spans
        BY <1>3, <1>9
    <2>2. Roster[i].from <= t
        BY <1>10, <2>1
    <2> QED
        BY <1>7, <2>1, <2>2
<1>13. ASSUME NEW x \in here PROVE \E i \in found : Roster[i] = x
    <2>1. x \in spans /\ x.from <= t /\ t < x.to
        OBVIOUS
    <2>2. PICK i \in 1..n : Roster[i] = x
        BY <1>6, <2>1
    <2>3. i \in 1..hi
        BY <1>3, <1>9, <1>10, <2>1, <2>2
    <2>4. ASSUME NEW o \in stale PROVE o < i
        <3>1. o \in 1..n /\ Roster[o] \in spans /\ Roster[o].from < t - MaxShiftSpan
            BY <1>3, <1>9
        <3>2. Roster[o].from < x.from
            BY <1>7, <1>8, <2>1, <3>1
        <3>3. <<Roster[o], Roster[i]>> \in R
            BY <1>2, <2>1, <2>2, <3>1, <3>2
        <3> QED
            BY <1>4, <3>1, <3>3
    <2>5. i \in found
        BY <1>7, <2>1, <2>2, <2>3, <2>4
    <2> QED
        BY <2>2, <2>5
<1> HIDE DEF found, here
<1>14. {Roster[i].spell : i \in found} = {x.spell : x \in here}
    <2>1. \A s : s \in {Roster[i].spell : i \in found} => s \in {x.spell : x \in here}
        BY <1>12
    <2>2. \A s : s \in {x.spell : x \in here} => s \in {Roster[i].spell : i \in found}
        BY <1>13
    <2> QED
        BY <2>1, <2>2
<1> QED
    BY <1>11, <1>14 DEF here

\* The span of time of a shift, in hours.
SpanOf(id, s) == [spell |-> id, from |-> s.day * Hours + s.start,
                  to |-> s.day * Hours + s.start + s.length]

\* The shifts of the next person join those of the shop.
LEMMA SpansGrow ==
    ASSUME NEW S, SpansOK(S), NEW id \in Nat, \A x \in S : x.spell < id,
           NEW shifts, NEW from, NEW to, Rota(shifts, from, to)
    PROVE  /\ SpansOK(S \cup {SpanOf(id, s) : s \in shifts})
           /\ \A x \in S \cup {SpanOf(id, s) : s \in shifts} : x.spell < id + 1
<1> DEFINE T == {SpanOf(id, s) : s \in shifts}
           f == [s \in shifts |-> SpanOf(id, s)]
<1>1. \A x : x \in T <=> \E s \in shifts : x = SpanOf(id, s)
    OBVIOUS
<1>2. Hours \in Nat /\ MaxShift \in Nat /\ Hours > 0
    BY StaffDays
<1>3. ASSUME NEW s \in shifts
      PROVE  /\ SpanOf(id, s).spell = id /\ SpanOf(id, s).from \in Nat /\ SpanOf(id, s).to \in Nat
             /\ SpanOf(id, s).from = s.day * Hours + s.start
             /\ SpanOf(id, s).from < SpanOf(id, s).to
             /\ SpanOf(id, s).to <= SpanOf(id, s).from + MaxShift
    <2>1. s.day \in Nat /\ s.start \in Nat /\ s.length \in 1..MaxShift
        BY DEF Rota
    <2> DEFINE m == s.day * Hours
    <2>2. m \in Nat
        BY <1>2, <2>1
    <2>3. SpanOf(id, s) = [spell |-> id, from |-> m + s.start, to |-> m + s.start + s.length]
        BY DEF SpanOf
    <2>4. m = s.day * Hours
        OBVIOUS
    <2> HIDE DEF m
    <2> QED
        BY <1>2, <2>1, <2>2, <2>3, <2>4
<1>4. ASSUME NEW s \in shifts, NEW r \in shifts, SpanOf(id, s).from = SpanOf(id, r).from
      PROVE  s = r
    <2>1. /\ s.day \in Nat /\ s.start \in Nat /\ s.start < Hours
          /\ r.day \in Nat /\ r.start \in Nat /\ r.start < Hours
        BY <1>2 DEF Rota
    <2> DEFINE a == s.day * Hours
               b == r.day * Hours
    <2>2. a \in Nat /\ b \in Nat /\ a + s.start = b + r.start
        BY <1>2, <1>3, <1>4, <2>1
    <2>3. a = Hours * s.day /\ b = Hours * r.day
        BY <1>2, <2>1
    <2> HIDE DEF a, b
    <2>4. ~(s.day < r.day)
        <3> SUFFICES ASSUME s.day < r.day PROVE FALSE
            OBVIOUS
        <3>1. Hours * r.day >= Hours * s.day + Hours
            <4>1. PICK d \in Nat : r.day = s.day + 1 + d
                <5>1. r.day - s.day - 1 \in Nat /\ r.day = s.day + 1 + (r.day - s.day - 1)
                    BY <2>1
                <5> QED
                    BY <5>1
            <4>2. Hours * r.day = Hours * s.day + Hours + Hours * d /\ Hours * d \in Nat
                BY <1>2, <2>1, <4>1
            <4> QED
                BY <1>2, <2>2, <2>3, <4>2
        <3> QED
            BY <1>2, <2>1, <2>2, <2>3, <3>1
    <2>5. ~(r.day < s.day)
        <3> SUFFICES ASSUME r.day < s.day PROVE FALSE
            OBVIOUS
        <3>1. Hours * s.day >= Hours * r.day + Hours
            <4>1. PICK d \in Nat : s.day = r.day + 1 + d
                <5>1. s.day - r.day - 1 \in Nat /\ s.day = r.day + 1 + (s.day - r.day - 1)
                    BY <2>1
                <5> QED
                    BY <5>1
            <4>2. Hours * s.day = Hours * r.day + Hours + Hours * d /\ Hours * d \in Nat
                BY <1>2, <2>1, <4>1
            <4> QED
                BY <1>2, <2>2, <2>3, <4>2
        <3> QED
            BY <1>2, <2>1, <2>2, <2>3, <3>1
    <2>6. s.day = r.day
        BY <2>1, <2>4, <2>5
    <2> QED
        BY <2>6 DEF Rota
<1>5. f \in [shifts -> T] /\ \A s \in shifts : f[s] = SpanOf(id, s)
    BY <1>1
<1> HIDE DEF T, f
<1>6. IsFiniteSet(T)
    <2>1. \A s, r \in shifts : f[s] = f[r] => s = r
        BY <1>4, <1>5
    <2>2. \A x \in T : \E s \in shifts : f[s] = x
        BY <1>1, <1>5
    <2>3. IsFiniteSet(shifts)
        BY DEF Rota
    <2> QED
        BY <1>5, <2>1, <2>2, <2>3, SameSize
<1>7. IsFiniteSet(S \cup T)
    BY <1>6, FS_Union DEF SpansOK
<1>8. \A x \in T : /\ x.spell = id /\ x.from \in Nat /\ x.to \in Nat
                   /\ x.from < x.to /\ x.to <= x.from + MaxShift
    BY <1>1, <1>3
<1>9. \A x \in S : /\ x.spell \in Nat /\ x.from \in Nat /\ x.to \in Nat
                   /\ x.from < x.to /\ x.to <= x.from + MaxShift
    BY DEF SpansOK
<1>10. ASSUME NEW x \in S \cup T, NEW y \in S \cup T, x.from = y.from, x.spell = y.spell
       PROVE  x = y
    <2>1. CASE x \in T /\ y \in T
        <3>1. PICK s \in shifts, r \in shifts : x = SpanOf(id, s) /\ y = SpanOf(id, r)
            BY <1>1, <2>1
        <3> QED
            BY <1>4, <1>10, <3>1
    <2>2. CASE x \in S /\ y \in S
        BY <1>10, <2>2 DEF SpansOK
    <2>3. CASE (x \in S /\ y \in T) \/ (x \in T /\ y \in S)
        BY <1>8, <1>9, <1>10, <2>3
    <2> QED
        BY <2>1, <2>2, <2>3
<1>11. SpansOK(S \cup T)
    BY <1>7, <1>8, <1>9, <1>10 DEF SpansOK
<1>12. \A x \in S \cup T : x.spell < id + 1
    BY <1>8, <1>9
<1> QED
    BY <1>11, <1>12 DEF T

-----------------------------------------------------------------------------
(* Pay.                                                                    *)

\* The country runs payroll: a shop of it ever opened.
Open(k) == k \in D0 /\ \E i \in DOMAIN shops : shops[i].country = k

\* Its first opening is a day.
LEMMA EarliestIsADay ==
    ASSUME Finished, NEW k, Open(k)
    PROVE  earliestShopByCountry(k) \in Nat
<1> DEFINE S == {shops[i].opened : i \in {j \in DOMAIN shops : shops[j].country = k}}
<1>1. S \in SUBSET Nat /\ S # {}
    BY DEF Finished, Open
<1> HIDE DEF S
<1>2. Min(S) \in S
    BY <1>1, MinIsLeast
<1> QED
    BY <1>1, <1>2 DEF earliestShopByCountry, S

\* PaidWhileEmployed's second part: the payroll runs partition the days from
\* the first opening of the country on.
LEMMA PaidOnce ==
    ASSUME Finished, NEW k, Open(k), NEW started \in Nat, NEW ended \in Nat, ended <= ClosureDay,
           NEW d \in Max({started, earliestShopByCountry(k)})..ended
    PROVE  Cardinality({r \in {s \in buildRunsForCountry(k) : started <= s.to /\ s.from <= ended} :
                            r.from <= d /\ d <= r.to}) = 1
<1> DEFINE e == earliestShopByCountry(k)
           P == PayPeriod[k]
           c == d - e
           q == c \div P
           m == P * q
           f == e + m
           run(g) == [from |-> g, to |-> Min({g + P - 1, AsOf})]
           days == {g \in e..AsOf : (g - e) % P = 0}
           paid == {r \in {s \in buildRunsForCountry(k) : started <= s.to /\ s.from <= ended} :
                            r.from <= d /\ d <= r.to}
<1>1. e \in Nat
    BY EarliestIsADay
<1>2. P \in Nat /\ P > 0
    BY StaffDays DEF Open, D0
<1>3. AsOf \in Nat /\ ClosureDay \in Nat /\ ClosureDay <= AsOf
    BY EstateDays, StaffAssumption, StaffDays
<1> HIDE DEF e, P
<1>4. d \in Nat /\ e <= d /\ started <= d /\ d <= ended /\ d <= AsOf
    <2> DEFINE late == Max({started, e})
    <2>1. late = IF started <= e THEN e ELSE started
        <3> DEFINE a == started
        <3>1. a \in Int
            OBVIOUS
        <3> HIDE DEF a
        <3>2. Max({a, e}) = IF a <= e THEN e ELSE a
            BY <1>1, <3>1, OfPair
        <3> QED
            BY <3>2 DEF a
    <2>2. d \in late..ended
        BY DEF e
    <2> HIDE DEF late
    <2> QED
        BY <1>1, <1>3, <2>1, <2>2
<1>5. c \in Nat /\ d = e + c
    BY <1>1, <1>4
<1> HIDE DEF c
<1> DEFINE rest == c % P
<1>6. q \in Nat /\ rest \in 0..(P - 1) /\ c = m + rest
    <2>1. c \div P \in Nat /\ c % P \in 0..(P - 1) /\ c = P * (c \div P) + (c % P)
        BY <1>2, <1>5, NatDivision
    <2> QED
        BY <2>1
<1> HIDE DEF q, rest
<1>7. m \in Nat /\ m % P = 0
    BY <1>2, <1>6, MultipleOf
<1> HIDE DEF m
<1>8. f \in e..AsOf /\ f <= d /\ d <= f + P - 1 /\ f - e = m
    <2>1. f = e + m
        OBVIOUS
    <2> HIDE DEF f
    <2> QED
        BY <1>1, <1>2, <1>3, <1>4, <1>5, <1>6, <1>7, <2>1
<1> HIDE DEF f
<1>9. f \in days
    BY <1>7, <1>8
<1>10. \A r : r \in buildRunsForCountry(k) <=> \E g \in days : r = run(g)
    BY DEF buildRunsForCountry, e, P
<1>11. ASSUME NEW g \in days
       PROVE  run(g).from = g /\ run(g).to \in Int /\ run(g).to <= g + P - 1
              /\ (d <= g + P - 1 => d <= run(g).to)
    <2> DEFINE b == g + P - 1
    <2>1. b \in Int /\ g \in Int
        BY <1>1, <1>2, <1>3
    <2>2. run(g).from = g /\ run(g).to = Min({b, AsOf})
        OBVIOUS
    <2> HIDE DEF b, run
    <2>3. Min({b, AsOf}) = IF b <= AsOf THEN b ELSE AsOf
        BY <1>3, <2>1, OfPair
    <2>4. run(g).to \in Int /\ run(g).to <= b /\ (d <= b => d <= run(g).to)
        BY <1>3, <1>4, <2>1, <2>2, <2>3
    <2> QED
        BY <2>2, <2>4 DEF b
<1> HIDE DEF run
<1>12. run(f) \in paid
    <2>1. run(f) \in buildRunsForCountry(k)
        BY <1>9, <1>10
    <2>2. run(f).from = f /\ run(f).to \in Int /\ d <= run(f).to
        BY <1>8, <1>9, <1>11
    <2>3. started <= run(f).to /\ f <= ended /\ f <= d
        BY <1>1, <1>3, <1>4, <1>8, <2>2
    <2> QED
        BY <2>1, <2>2, <2>3
<1>13. ASSUME NEW r \in paid PROVE r = run(f)
    <2>1. PICK g \in days : r = run(g)
        BY <1>10
    <2>2. g \in e..AsOf /\ (g - e) % P = 0 /\ g <= d /\ d <= g + P - 1
        <3>1. r.from <= d /\ d <= r.to
            OBVIOUS
        <3> QED
            BY <1>1, <1>2, <1>3, <1>4, <1>11, <2>1, <3>1
    <2> DEFINE a == g - e
               b == f - e
    <2>3. a \in Nat /\ b \in Nat /\ a < b + P /\ b < a + P
        BY <1>1, <1>2, <1>3, <1>4, <1>8, <2>2
    <2>4. a % P = 0 /\ b % P = 0
        BY <1>9, <2>2
    <2> HIDE DEF a, b
    <2>5. a = b
        BY <1>2, <2>3, <2>4, SameMultiple
    <2>6. g = f
        BY <1>1, <1>3, <1>8, <2>2, <2>5 DEF a, b
    <2> QED
        BY <2>1, <2>6
<1> HIDE DEF paid
<1>14. paid = {run(f)}
    BY <1>12, <1>13
<1>15. Cardinality(paid) = 1
    BY <1>14, FS_Singleton
<1> QED
    BY <1>15 DEF paid

\* The pay lines of a spell.
Lines(k, from, to) == {r \in buildRunsForCountry(k) : from <= r.to /\ r.from <= to}

-----------------------------------------------------------------------------
(* Emission.                                                               *)

\* A finished person.
PersonInv(p) ==
    /\ p.started \in Nat /\ p.ended \in Nat /\ p.started <= p.ended /\ p.ended <= ClosureDay
    /\ p.shop # 0 => /\ p.shop \in DOMAIN shops
                     /\ shops[p.shop].opened <= p.started /\ p.ended <= shops[p.shop].closed
    /\ Open(p.country) /\ p.lines = Lines(p.country, p.started, p.ended)
    /\ Rota(p.shifts, p.started, p.ended)

\* What the assumptions say of the dates of the business.
LEMMA DaysAre ==
    /\ ClosureDay \in Nat /\ ExpansionEnd \in Nat /\ Extension \in Nat /\ HQJitter \in Nat
    /\ FoundingSpan \in Nat /\ MaxTenure \in Nat /\ LeaderEnd \in Nat /\ LeaderEnd <= ClosureDay
    /\ Extension + HQJitter + ExpansionEnd <= ClosureDay
    BY EstateDays, StaffAssumption, StaffDays

\* hqTermination: nobody outlasts the company, ...
LEMMA HQLeavesInTime ==
    ASSUME NEW started \in Nat, started <= ClosureDay, NEW grade,
           grade >= 8 \/ started + Extension <= ClosureDay,
           NEW e \in hqTermination(started, grade)
    PROVE  e.day \in Int /\ e.day <= ClosureDay
<1>1. CASE grade >= 8
    <2>1. LeaderExits \subseteq 0..ClosureDay
        BY StaffDays
    <2>2. (\E d \in LeaderExits : e.day = d) \/ e.day = ClosureDay
        BY <1>1 DEF hqTermination
    <2> QED
        BY <2>1, <2>2, DaysAre
<1>2. CASE ~(grade >= 8)
    <2>1. /\ AttritionDays \subseteq 0..ClosureDay /\ Restructuring \in 0..ClosureDay
          /\ Layoffs \in 0..ClosureDay /\ Chapter11 \in 0..ClosureDay
        BY StaffDays
    <2>2. \/ \E d \in AttritionDays : e.day = IF d < started THEN started + Extension ELSE d
          \/ \E d \in {Restructuring, Layoffs, Chapter11} : e.day = Max({d, started})
          \/ e.day = ClosureDay
        BY <1>2 DEF hqTermination, ensureAfter
    <2>3. \A d \in 0..ClosureDay : Max({d, started}) \in {d, started}
        <3> TAKE d \in 0..ClosureDay
        <3> DEFINE a == d
                   b == started
        <3>1. a \in Int /\ b \in Int
            BY DaysAre
        <3> HIDE DEF a, b
        <3>2. Max({a, b}) = IF a <= b THEN b ELSE a
            BY <3>1, OfPair
        <3> QED
            BY <3>2 DEF a, b
    <2>4. CASE \E d \in {Restructuring, Layoffs, Chapter11} : e.day = Max({d, started})
        <3>1. PICK d \in 0..ClosureDay : e.day = Max({d, started})
            BY <2>1, <2>4
        <3>2. e.day = d \/ e.day = started
            BY <2>3, <3>1
        <3> QED
            BY <3>2, DaysAre
    <2>5. CASE \E d \in AttritionDays : e.day = IF d < started THEN started + Extension ELSE d
        <3>1. PICK d \in 0..ClosureDay : e.day = IF d < started THEN started + Extension ELSE d
            BY <2>1, <2>5
        <3> QED
            BY <1>2, <3>1, DaysAre
    <2> QED
        BY <2>2, <2>4, <2>5, DaysAre
<1> QED
    BY <1>1, <1>2

\* ... nor a shop's people their shop.
LEMMA RetailLeavesInTime ==
    ASSUME Finished, NEW i \in DOMAIN shops, NEW started \in Nat,
           NEW e \in retailTermination(started, shops[i])
    PROVE  e.day \in Int /\ e.day <= shops[i].closed
<1> DEFINE c == shops[i].closed
           stay(t) == started + Max({1, Min({t, MaxTenure})})
<1>1. c \in Int
    BY DEF Finished
<1>2. e.day = c \/ \E t \in Tenures : e.day = Min({stay(t), c})
    <2>1. \/ e = [day |-> c, reason |-> shops[i].reason]
          \/ \E t \in Tenures : e = [day |-> Min({stay(t), c}), reason |-> "resignation"]
        BY DEF retailTermination
    <2> HIDE DEF c, stay
    <2> QED
        BY <2>1
<1>3. ASSUME NEW t \in Tenures PROVE Min({stay(t), c}) \in Int /\ Min({stay(t), c}) <= c
    <2> DEFINE a == t
               m == Min({a, MaxTenure})
               l == Max({1, m})
    <2>1. a \in Int /\ MaxTenure \in Int
        BY StaffDays, DaysAre
    <2> HIDE DEF a
    <2>2. m = IF a <= MaxTenure THEN a ELSE MaxTenure
        BY <2>1, OfPair
    <2>3. m \in Int
        BY <2>1, <2>2
    <2> HIDE DEF m
    <2>4. l = IF 1 <= m THEN m ELSE 1
        BY <2>3, OfPair
    <2>5. l \in Int
        BY <2>3, <2>4
    <2>6. stay(t) = started + l
        BY DEF a, m
    <2> HIDE DEF l
    <2> DEFINE s == started + l
    <2>7. s \in Int /\ s = stay(t)
        BY <2>5, <2>6
    <2> HIDE DEF s, c, stay
    <2>8. Min({s, c}) = IF s <= c THEN s ELSE c
        BY <1>1, <2>7, OfPair
    <2> QED
        BY <1>1, <2>7, <2>8
<1> HIDE DEF c, stay
<1>4. e.day \in Int /\ e.day <= c
    <2>1. CASE e.day = c
        BY <1>1, <2>1
    <2>2. CASE \E t \in Tenures : e.day = Min({stay(t), c})
        <3>1. PICK t \in Tenures : e.day = Min({stay(t), c})
            BY <2>2
        <3> QED
            BY <1>3, <3>1
    <2> QED
        BY <1>2, <2>1, <2>2
<1> QED
    BY <1>4 DEF c

\* HiringDays: people are hired while their shop is open.
LEMMA HiredWhileOpen ==
    ASSUME Finished, NEW i \in DOMAIN shops, NEW n, NEW d \in HiringDays(shops[i], n)
    PROVE  d \in Nat /\ shops[i].opened <= d /\ d <= shops[i].closed
<1> DEFINE o == shops[i].opened
           c == shops[i].closed
           life == c - o
           span == Min({FoundingSpan, life})
           from == IF n < FoundingCrew THEN o ELSE o + span
           over == IF n < FoundingCrew THEN span ELSE c - from
<1>1. o \in Nat /\ c \in Nat /\ o < c
    BY DEF Finished
<1>2. PICK f \in HireDraws : d = from + (over * f) \div 100
    BY DEF HiringDays
<1> HIDE DEF o, c
<1>3. life \in Nat
    BY <1>1
<1> HIDE DEF life
<1>4. span = IF FoundingSpan <= life THEN FoundingSpan ELSE life
    BY <1>3, DaysAre, OfPair
<1>5. span \in 0..life
    BY <1>3, <1>4, DaysAre
<1> HIDE DEF span
<1>6. from \in o..c /\ over \in 0..(c - from)
    BY <1>1, <1>5 DEF life
<1> HIDE DEF from, over
<1>7. from \in Nat /\ over \in Nat /\ f \in 0..99
    BY <1>1, <1>6, StaffDays
<1> DEFINE m == (over * f) \div 100
<1>8. m \in 0..over
    BY <1>7, Fraction
<1>9. d = from + m
    BY <1>2
<1> HIDE DEF m
<1>10. d \in Nat /\ o <= d /\ d <= c
    BY <1>1, <1>6, <1>7, <1>8, <1>9
<1> QED
    BY <1>10 DEF o, c

\* Who is emitted is a finished person, trimmed to the spell.
LEMMA EmittedIsFinished ==
    ASSUME Finished, NEW shop, NEW k, Open(k), NEW grade, NEW started \in Nat, NEW ended, NEW reason,
           NEW shifts, NEW last, Rota(shifts, started, last),
           NEW bound \in Nat, started <= bound, bound <= ClosureDay,
           ended = NoDay \/ (ended \in Nat /\ started <= ended /\ ended <= bound),
           shop # 0 => /\ shop \in DOMAIN shops
                       /\ shops[shop].opened <= started /\ bound <= shops[shop].closed,
           NEW e, e.day \in Int, e.day <= bound, ended # NoDay => e.day = ended
    PROVE  LET p == trimOpsToTermination(applyClosure(
                        Draft(shop, k, grade, started, ended, reason, shifts), e))
           IN  /\ PersonInv(p) /\ p.spell = spell /\ p.shop = shop /\ p.started = started
               /\ ended # NoDay => p.ended = ended
<1> DEFINE draft == Draft(shop, k, grade, started, ended, reason, shifts)
           end == Max({e.day, started})
           p == trimOpsToTermination(applyClosure(draft, e))
<1>1. /\ p.spell = spell /\ p.shop = shop /\ p.country = k /\ p.started = started /\ p.ended = end
      /\ p.shifts = {s \in shifts : s.day <= end}
      /\ p.lines = {r \in generatePayrollLines(k, started, ended) : r.from <= end}
    BY DEF trimOpsToTermination, applyClosure, Draft
<1>2. end = IF e.day <= started THEN started ELSE e.day
    <2> DEFINE a == e.day
               b == started
    <2>1. a \in Int /\ b \in Int
        OBVIOUS
    <2> HIDE DEF a, b
    <2>2. Max({a, b}) = IF a <= b THEN b ELSE a
        BY <2>1, OfPair
    <2> QED
        BY <2>2 DEF a, b
<1> HIDE DEF end, p
<1>3. end \in Nat /\ started <= end /\ end <= bound /\ (ended # NoDay => end = ended)
    BY <1>2
<1>4. p.lines = Lines(k, started, end)
    <2>1. \A r : r \in generatePayrollLines(k, started, ended) /\ r.from <= end <=>
              r \in buildRunsForCountry(k) /\ started <= r.to /\ r.from <= end
        BY <1>3 DEF generatePayrollLines
    <2>2. \A r : r \in p.lines <=> r \in generatePayrollLines(k, started, ended) /\ r.from <= end
        BY <1>1
    <2>3. \A r : r \in Lines(k, started, end) <=>
              r \in buildRunsForCountry(k) /\ started <= r.to /\ r.from <= end
        BY DEF Lines
    <2>4. p.lines = {r \in generatePayrollLines(k, started, ended) : r.from <= end}
        BY <1>1
    <2> QED
        BY <2>1, <2>3, <2>4 DEF Lines
<1>5. Rota(p.shifts, started, end)
    <2>1. p.shifts \subseteq shifts /\ \A x \in p.shifts : x.day <= end
        BY <1>1
    <2>2. IsFiniteSet(p.shifts)
        BY <2>1, FS_Subset DEF Rota
    <2> QED
        BY <2>1, <2>2 DEF Rota
<1>6. end <= ClosureDay
    BY <1>3, DaysAre
<1>7. shop # 0 => /\ shop \in DOMAIN shops /\ shops[shop].opened <= started /\ end <= shops[shop].closed
    BY <1>3 DEF Finished
<1>8. PersonInv(p)
    BY <1>1, <1>3, <1>4, <1>5, <1>6, <1>7 DEF PersonInv
<1> QED
    BY <1>1, <1>3, <1>8 DEF p

-----------------------------------------------------------------------------
(* The inductive invariant of the staff.                                   *)

\* A sequence that is not empty has a first place.
LEMMA NonEmptySeq ==
    ASSUME NEW X, NEW s \in Seq(X), s # << >>
    PROVE  Len(s) \in Nat /\ Len(s) > 0 /\ DOMAIN s = 1..Len(s) /\ \A i \in 1..Len(s) : s[i] \in X
    OBVIOUS

\* The senior leaders, of all cohorts.
Seats == LeaderCount(Len(Leaders))

\* Every seat of the leaders has a grade of 8 or above.
LEMMA LeaderSeats ==
    /\ Seats \in Nat /\ Seats > 0
    /\ \A i \in 1..Seats : LeaderGrade(i) >= 8
<1> DEFINE n == Len(Leaders)
           c == [j \in DOMAIN Leaders |-> Leaders[j].count]
<1>1. n \in Nat /\ n > 0 /\ DOMAIN Leaders = 1..n /\ IsFiniteSet(1..n)
    <2> DEFINE X == [count : Nat \ {0}, grade : Nat]
    <2>1. Leaders \in Seq(X) /\ Leaders # << >>
        BY StaffDays
    <2> HIDE DEF X
    <2>2. n \in Nat /\ n > 0 /\ DOMAIN Leaders = 1..n
        BY <2>1, NonEmptySeq
    <2> HIDE DEF n
    <2> QED
        BY <2>2, FS_Interval
<1>2. \A j \in 1..n : c[j] \in Nat /\ c[j] > 0
    <2> DEFINE X == [count : Nat \ {0}, grade : Nat]
    <2>1. Leaders \in Seq(X) /\ Leaders # << >>
        BY StaffDays
    <2> HIDE DEF X
    <2>2. \A j \in 1..n : Leaders[j] \in X
        BY <2>1, NonEmptySeq
    <2>3. \A j \in 1..n : Leaders[j].count \in Nat /\ Leaders[j].count > 0
        BY <2>2 DEF X
    <2> QED
        BY <1>1, <2>3
<1>3. Seats = SumFunctionOnSet(c, 1..n)
    BY DEF Seats, LeaderCount
<1> HIDE DEF n, c
<1>4. 1 \in 1..n /\ IsFiniteSet((1..n) \ {1}) /\ \A j \in (1..n) \ {1} : c[j] \in Nat
    BY <1>1, <1>2, FS_Subset
<1>5. SumFunctionOnSet(c, 1..n) = c[1] + SumFunctionOnSet(c, (1..n) \ {1})
    BY <1>1, <1>2, <1>4, SumSplit
<1>6. SumFunctionOnSet(c, (1..n) \ {1}) \in Nat
    BY <1>4, SumNonNegative
<1>7. Seats \in Nat /\ Seats > 0
    BY <1>2, <1>3, <1>4, <1>5, <1>6
<1>8. ASSUME NEW i \in 1..Seats PROVE LeaderGrade(i) >= 8
    <2> DEFINE S == {k \in DOMAIN Leaders : i <= LeaderCount(k)}
    <2>1. S \in SUBSET Nat /\ S # {}
        <3>1. n \in S
            BY <1>1, <1>8 DEF Seats, n
        <3>2. S \subseteq 1..n
            BY <1>1
        <3> QED
            BY <3>1, <3>2
    <2>2. S \subseteq DOMAIN Leaders
        OBVIOUS
    <2>3. LeaderGrade(i) = Leaders[Min(S)].grade
        BY DEF LeaderGrade
    <2> HIDE DEF S
    <2>4. Min(S) \in S
        BY <2>1, MinIsLeast
    <2> QED
        BY <2>2, <2>3, <2>4, StaffAssumption
<1> QED
    BY <1>7, <1>8

\* The fraud manager, once emitted.
ManagerInv ==
    /\ manager.spell = FraudManagerSpellID /\ manager.shop \in FraudShops
    /\ manager.started = ManagerFrom /\ manager.ended = ManagerTo

\* The inductive invariant of the staff.  The spell counts the cast, so that the
\* manager of the fraud shop takes the id that the keyed refunds name.
StaffInv ==
    /\ EstateInv
    /\ built # "closed" => StaffInit
    /\ spell \in Nat
    /\ group = "founders" => seat \in Nat /\ seat < Len(Founders) /\ spell = seat + 1
    /\ group = "execs" => seat \in Nat /\ seat < Len(Execs) /\ spell = Len(Founders) + seat + 1
    /\ group = "manager" => spell = FraudManagerSpellID
    /\ group = "leaders" => seat \in Nat /\ seat < Seats
    /\ person = Nobody \/ PersonInv(person)
    /\ canon /\ group \notin {"founders", "execs", "manager"} /\ FraudShops # {} => ManagerInv
    /\ SpansOK(spans) /\ \A x \in spans : x.spell < spell

\* The dates of the named cast.
LEMMA CastIs ==
    ASSUME NEW cast \in {Founders, Execs}
    PROVE  /\ Len(cast) \in Nat /\ Len(cast) > 0
           /\ \A n \in Nat : n < Len(cast) =>
                 /\ cast[n + 1].started \in Nat /\ cast[n + 1].ended \in Nat
                 /\ cast[n + 1].started <= cast[n + 1].ended /\ cast[n + 1].ended <= ClosureDay
<1> DEFINE X == [started : Nat, ended : Nat, reason : STRING, grade : Nat]
<1>1. cast \in Seq(X) /\ cast # << >>
    BY StaffDays
<1>2. \A i \in DOMAIN cast : cast[i].started <= cast[i].ended /\ cast[i].ended <= ClosureDay
    BY StaffDays
<1> HIDE DEF X
<1>3. Len(cast) \in Nat /\ Len(cast) > 0 /\ DOMAIN cast = 1..Len(cast)
      /\ \A i \in 1..Len(cast) : cast[i] \in X
    BY <1>1, NonEmptySeq
<1>4. \A i \in 1..Len(cast) : cast[i].started \in Nat /\ cast[i].ended \in Nat
    BY <1>3 DEF X
<1>5. \A n \in Nat : n < Len(cast) => n + 1 \in 1..Len(cast)
    BY <1>3
<1> QED
    BY <1>2, <1>3, <1>4, <1>5

\* It holds at the start.
LEMMA StaffStart == Init => StaffInv
<1> SUFFICES ASSUME Init PROVE StaffInv
    OBVIOUS
<1>1. EstateInv /\ built # "closed"
    BY EstateStart DEF Init, EstateInit
<1>2. StaffInit /\ group = "founders" /\ seat = 0 /\ spell = 1 /\ person = Nobody /\ spans = {}
    BY DEF Init, StaffInit
<1>3. SpansOK(spans)
    BY <1>2, FS_EmptySet DEF SpansOK
<1>4. 0 < Len(Founders)
    BY CastIs
<1> QED
    BY <1>1, <1>2, <1>3, <1>4 DEF StaffInv

\* What is said of a person and of the fraud shop rests on the shops alone.
LEMMA ShopsStay ==
    ASSUME shops' = shops
    PROVE  /\ PersonInv(person') => PersonInv(person)'
           /\ FraudShops' = FraudShops
<1>1. \A k : earliestShopByCountry(k)' = earliestShopByCountry(k)
    BY DEF earliestShopByCountry
<1>2. \A k : buildRunsForCountry(k)' = buildRunsForCountry(k)
    BY <1>1 DEF buildRunsForCountry
<1>3. Lines(person.country, person.started, person.ended)'
          = Lines(person'.country, person'.started, person'.ended)
    BY <1>2 DEF Lines
<1>4. Open(person.country)' <=> Open(person'.country)
    BY DEF Open
<1> QED
    BY <1>3, <1>4 DEF PersonInv, FraudShops

\* An emission keeps the invariant if it does what the cohorts' emissions do.
LEMMA StepKeeps ==
    ASSUME StaffInv, built = "closed", UNCHANGED estateVars,
           canon' = canon, spell' \in Nat, spell' >= spell,
           group' = "founders" => seat' \in Nat /\ seat' < Len(Founders) /\ spell' = seat' + 1,
           group' = "execs" => seat' \in Nat /\ seat' < Len(Execs) /\ spell' = Len(Founders) + seat' + 1,
           group' = "manager" => spell' = FraudManagerSpellID,
           group' = "leaders" => seat' \in Nat /\ seat' < Seats,
           person' = Nobody \/ PersonInv(person') \/ person' = person,
           canon' /\ group' \notin {"founders", "execs", "manager"} /\ FraudShops # {} => ManagerInv',
           SpansOK(spans'), \A x \in spans' : x.spell < spell'
    PROVE  StaffInv'
<1>1. shops' = shops /\ built' = built
    BY DEF estateVars
<1>2. FraudShops' = FraudShops /\ (PersonInv(person') => PersonInv(person)')
    BY <1>1, ShopsStay
<1>3. EstateInv'
    BY EstateSteps DEF StaffInv
<1>4. (person = Nobody)' \/ PersonInv(person)'
    <2>1. CASE person' = person
        <3>1. person = Nobody \/ PersonInv(person')
            BY <2>1 DEF StaffInv
        <3> QED
            BY <1>2, <2>1, <3>1
    <2> QED
        BY <1>2, <2>1
<1>5. SpansOK(spans)'
    BY DEF SpansOK
<1> QED
    BY <1>1, <1>2, <1>3, <1>4, <1>5 DEF StaffInv

\* The staff are generated over a finished estate.
LEMMA EstateIsThere ==
    ASSUME StaffInv, built = "closed"
    PROVE  Finished /\ Open(1)
<1>1. Finished
    BY EstateIsFinished DEF StaffInv
<1>2. Open(1)
    BY <1>1, CountriesAre DEF Finished, Open
<1> QED
    BY <1>1, <1>2

\* No shifts are a rota.
LEMMA NoShifts == \A from, to : Rota({}, from, to)
    BY FS_EmptySet DEF Rota

\* The decided end of a draft is a day up to the bound, the hand-set one if any.
EndsBy(d, bound) ==
    \A e \in Leavings(d) : /\ e.day \in Int /\ e.day <= bound
                           /\ d.ended # NoDay => e.day = d.ended

\* The circumstances of an emission.
Fits(shop, k, started, ended, shifts, bound) ==
    /\ Open(k) /\ started \in Nat /\ bound \in Nat /\ started <= bound /\ bound <= ClosureDay
    /\ ended = NoDay \/ (ended \in Nat /\ started <= ended /\ ended <= bound)
    /\ shop # 0 => /\ shop \in DOMAIN shops
                   /\ shops[shop].opened <= started /\ bound <= shops[shop].closed
    /\ \E last : Rota(shifts, started, last)

\* So an emission yields a finished person under the next spell.
LEMMA Emits ==
    ASSUME Finished, NEW shop, NEW k, NEW grade, NEW started, NEW ended, NEW reason, NEW shifts,
           NEW bound, Fits(shop, k, started, ended, shifts, bound),
           EndsBy(Draft(shop, k, grade, started, ended, reason, shifts), bound),
           Emit(Draft(shop, k, grade, started, ended, reason, shifts))
    PROVE  /\ PersonInv(person') /\ spell' = spell + 1
           /\ person'.spell = spell /\ person'.shop = shop /\ person'.started = started
           /\ ended # NoDay => person'.ended = ended
<1> DEFINE d == Draft(shop, k, grade, started, ended, reason, shifts)
<1>1. PICK e \in Leavings(d) : person' = trimOpsToTermination(applyClosure(d, e))
    BY DEF Emit
<1>2. spell' = spell + 1
    BY DEF Emit
<1>3. d.ended = ended
    BY DEF Draft
<1>4. e.day \in Int /\ e.day <= bound /\ (ended # NoDay => e.day = ended)
    <2>1. EndsBy(d, bound)
        OBVIOUS
    <2> HIDE DEF d
    <2> QED
        BY <1>1, <1>3, <2>1 DEF EndsBy
<1>5. PICK last : Rota(shifts, started, last)
    BY DEF Fits
<1>6. /\ Open(k) /\ started \in Nat /\ bound \in Nat /\ started <= bound /\ bound <= ClosureDay
      /\ ended = NoDay \/ (ended \in Nat /\ started <= ended /\ ended <= bound)
      /\ shop # 0 => /\ shop \in DOMAIN shops
                     /\ shops[shop].opened <= started /\ bound <= shops[shop].closed
    BY DEF Fits
<1>7. LET p == trimOpsToTermination(applyClosure(d, e))
      IN  /\ PersonInv(p) /\ p.spell = spell /\ p.shop = shop /\ p.started = started
          /\ ended # NoDay => p.ended = ended
    BY <1>4, <1>5, <1>6, EmittedIsFinished, SMTT(30)
<1> QED
    BY <1>1, <1>2, <1>7

\* A day is not the missing one.
LEMMA NoDayIsNoDay == \A d \in Nat : d # NoDay
    BY DEF NoDay

\* The named cast leave on their hand-set days.
LEMMA CastEmitted ==
    ASSUME Finished, Open(1), NEW cast \in {Founders, Execs}, NEW n \in Nat, n < Len(cast),
           Emit(Draft(0, 1, cast[n + 1].grade, cast[n + 1].started, cast[n + 1].ended,
                      cast[n + 1].reason, {}))
    PROVE  PersonInv(person') /\ spell' = spell + 1
<1> DEFINE grade == cast[n + 1].grade
           from == cast[n + 1].started
           to == cast[n + 1].ended
           why == cast[n + 1].reason
           d == Draft(0, 1, grade, from, to, why, {})
<1>1. from \in Nat /\ to \in Nat /\ from <= to /\ to <= ClosureDay
    BY CastIs
<1>2. Emit(d)
    OBVIOUS
<1> HIDE DEF grade, from, to, why
<1>3. Fits(0, 1, from, to, {}, ClosureDay)
    BY <1>1, NoShifts, DaysAre DEF Fits
<1>4. EndsBy(d, ClosureDay)
    <2>1. d.ended = to /\ to # NoDay
        BY <1>1, NoDayIsNoDay DEF Draft
    <2> HIDE DEF d
    <2>2. Leavings(d) = {[day |-> to, reason |-> d.reason]}
        BY <2>1 DEF Leavings
    <2>3. \A e \in Leavings(d) : e.day = to
        BY <2>2
    <2> QED
        BY <1>1, <2>1, <2>3 DEF EndsBy
<1> QED
    BY <1>2, <1>3, <1>4, Emits

-----------------------------------------------------------------------------
(* Its steps.                                                              *)

\* The steps, one cohort after the other.
LEMMA FounderStep ==
    ASSUME StaffInv, built = "closed", EmitFounder, UNCHANGED estateVars
    PROVE  StaffInv'
<1> DEFINE n == Len(Founders)
           m == Len(Execs)
<1>1. seat \in Nat /\ seat < n /\ spell = seat + 1 /\ group = "founders" /\ spell \in Nat
    BY DEF StaffInv, EmitFounder, EmitCast
<1>2. PersonInv(person') /\ spell' = spell + 1
    BY <1>1, EstateIsThere, CastEmitted DEF EmitFounder, EmitCast
<1>3. /\ group' = IF seat + 1 < n THEN group ELSE "execs"
      /\ seat' = IF seat + 1 < n THEN seat + 1 ELSE 0
      /\ canon' = canon /\ spans' = spans
    BY DEF EmitFounder, EmitCast, Advance
<1>4. n \in Nat /\ m \in Nat /\ m > 0
    BY CastIs
<1> HIDE DEF n, m
<1>5. /\ spell' \in Nat /\ spell' >= spell
      /\ group' = "founders" => seat' \in Nat /\ seat' < n /\ spell' = seat' + 1
      /\ group' = "execs" => seat' \in Nat /\ seat' < m /\ spell' = n + seat' + 1
      /\ group' \in {"founders", "execs"}
    BY <1>1, <1>2, <1>3, <1>4
<1>6. SpansOK(spans') /\ \A x \in spans' : x.spell < spell'
    <2>1. \A x \in spans : x.spell \in Nat /\ x.spell < spell
        BY DEF StaffInv, SpansOK
    <2> QED
        BY <1>1, <1>2, <1>3, <2>1 DEF StaffInv
<1> QED
    BY <1>2, <1>3, <1>5, <1>6, StepKeeps DEF n, m

\* An executive follows the founders.
LEMMA ExecStep ==
    ASSUME StaffInv, built = "closed", EmitExec, UNCHANGED estateVars
    PROVE  StaffInv'
<1> DEFINE n == Len(Founders)
           m == Len(Execs)
<1>1. seat \in Nat /\ seat < m /\ spell = n + seat + 1 /\ group = "execs" /\ spell \in Nat
    BY DEF StaffInv, EmitExec, EmitCast
<1>2. PersonInv(person') /\ spell' = spell + 1
    BY <1>1, EstateIsThere, CastEmitted DEF EmitExec, EmitCast
<1>3. /\ group' = IF seat + 1 < m THEN group ELSE "manager"
      /\ seat' = IF seat + 1 < m THEN seat + 1 ELSE 0
      /\ canon' = canon /\ spans' = spans
    BY DEF EmitExec, EmitCast, Advance
<1>4. n \in Nat /\ m \in Nat /\ FraudManagerSpellID = n + m + 1
    BY CastIs, StaffAssumption
<1> HIDE DEF n, m
<1>5. /\ spell' \in Nat /\ spell' >= spell
      /\ group' = "execs" => seat' \in Nat /\ seat' < m /\ spell' = n + seat' + 1
      /\ group' = "manager" => spell' = FraudManagerSpellID
      /\ group' \in {"execs", "manager"}
    BY <1>1, <1>2, <1>3, <1>4
<1>6. SpansOK(spans') /\ \A x \in spans' : x.spell < spell'
    <2>1. \A x \in spans : x.spell \in Nat /\ x.spell < spell
        BY DEF StaffInv, SpansOK
    <2> QED
        BY <1>1, <1>2, <1>3, <2>1 DEF StaffInv
<1> QED
    BY <1>2, <1>3, <1>5, <1>6, StepKeeps DEF n, m

\* A place in the estate is not 0, which stands for no shop.
LEMMA ShopPlaces == ASSUME Finished, NEW i \in DOMAIN shops PROVE i \in Nat /\ i # 0
<1>1. PICK n \in Nat : shops \in [1..n -> ShopSet]
    BY DEF Finished
<1> QED
    BY <1>1

\* The fraud manager takes the spell after the cast.
LEMMA FraudManagerStep ==
    ASSUME StaffInv, built = "closed", EmitFraudManager, UNCHANGED estateVars
    PROVE  StaffInv'
<1>1. /\ group = "manager" /\ spell = FraudManagerSpellID /\ spell \in Nat
      /\ group' = "retail" /\ canon' = canon /\ spans' = spans /\ manager' = person'
    BY DEF StaffInv, EmitFraudManager
<1>2. Finished
    BY EstateIsThere
<1>3. PICK i \in FraudShops :
          Emit(Draft(i, shops[i].country, 5, ManagerFrom, ManagerTo, "resignation", {}))
    BY DEF EmitFraudManager
<1> DEFINE k == shops[i].country
           why == "resignation"
           d == Draft(i, k, 5, ManagerFrom, ManagerTo, why, {})
<1>4. i \in DOMAIN shops /\ k \in D0 /\ shops[i].opened <= ManagerFrom /\ ManagerTo <= shops[i].closed
      /\ shops[i].closed \in Nat /\ shops[i].closed <= ClosureDay
    BY <1>2, <1>3 DEF Finished, FraudShops
<1>5. i # 0
    BY <1>2, <1>4, ShopPlaces
<1>6. Open(k)
    BY <1>4 DEF Open
<1>7. Emit(d)
    BY <1>3
<1> HIDE DEF k, why
<1>8. ManagerFrom \in Nat /\ ManagerTo \in Nat /\ ManagerFrom <= ManagerTo /\ ClosureDay \in Nat
    <2>1. /\ ManagerFrom \in Nat /\ ManagerTo \in Nat /\ FraudWindowStart \in Nat /\ FraudWindowEnd \in Nat
          /\ ManagerFrom <= FraudWindowStart /\ FraudWindowStart <= FraudWindowEnd
          /\ FraudWindowEnd <= ManagerTo
        BY StaffAssumption, StaffDays
    <2> QED
        BY <2>1, DaysAre
<1>9. Fits(i, k, ManagerFrom, ManagerTo, {}, ManagerTo)
    <2>1. ManagerTo <= ClosureDay
        BY <1>4, <1>8
    <2> QED
        BY <1>4, <1>6, <1>8, <2>1, NoShifts DEF Fits
<1>10. EndsBy(d, ManagerTo)
    <2>1. d.ended = ManagerTo /\ ManagerTo # NoDay
        BY <1>8, NoDayIsNoDay DEF Draft
    <2> HIDE DEF d
    <2>2. Leavings(d) = {[day |-> ManagerTo, reason |-> d.reason]}
        BY <2>1 DEF Leavings
    <2>3. \A e \in Leavings(d) : e.day = ManagerTo
        BY <2>2
    <2> QED
        BY <1>8, <2>1, <2>3 DEF EndsBy
<1>11. /\ PersonInv(person') /\ spell' = spell + 1
       /\ person'.spell = spell /\ person'.shop = i /\ person'.started = ManagerFrom
       /\ ManagerTo # NoDay => person'.ended = ManagerTo
    BY <1>2, <1>7, <1>9, <1>10, Emits
<1>12. person'.ended = ManagerTo
    BY <1>8, <1>11, NoDayIsNoDay
<1>13. FraudShops' = FraudShops
    BY ShopsStay DEF estateVars
<1>14. ManagerInv'
    BY <1>1, <1>3, <1>11, <1>12, <1>13 DEF ManagerInv
<1>15. spell' \in Nat /\ spell' >= spell
    BY <1>1, <1>11
<1>16. SpansOK(spans') /\ \A x \in spans' : x.spell < spell'
    <2>1. \A x \in spans : x.spell \in Nat /\ x.spell < spell
        BY DEF StaffInv, SpansOK
    <2> QED
        BY <1>1, <1>11, <2>1 DEF StaffInv
<1> QED
    BY <1>1, <1>11, <1>14, <1>15, <1>16, StepKeeps

\* No manager where there is no fraud pocket.
LEMMA SkipStep ==
    ASSUME StaffInv, built = "closed", SkipFraudManager, UNCHANGED estateVars
    PROVE  StaffInv'
<1>1. /\ group' = "retail" /\ canon' = canon /\ spans' = spans /\ person' = person /\ spell' = spell
      /\ ~canon \/ FraudShops = {}
    BY DEF SkipFraudManager
<1>2. spell \in Nat /\ SpansOK(spans) /\ \A x \in spans : x.spell < spell
    BY DEF StaffInv
<1>3. spell' \in Nat /\ spell' >= spell
    BY <1>1, <1>2
<1> QED
    BY <1>1, <1>2, <1>3, StepKeeps

\* Once the manager's turn is over only the person and the seats change.
LEMMA LateStep ==
    ASSUME StaffInv, built = "closed", UNCHANGED estateVars, UNCHANGED <<canon, manager>>,
           group \in {"retail", "hq", "leaders"}, group' \in {"retail", "hq", "leaders", "done"},
           group' = "leaders" => seat' \in Nat /\ seat' < Seats,
           spell' \in {spell, spell + 1}, person' = person \/ PersonInv(person'),
           SpansOK(spans'), \A x \in spans' : x.spell < spell'
    PROVE  StaffInv'
<1>1. spell \in Nat
    BY DEF StaffInv
<1>2. spell' \in Nat /\ spell' >= spell
    BY <1>1
<1>3. canon' = canon /\ manager' = manager
    OBVIOUS
<1>4. FraudShops' = FraudShops
    BY ShopsStay DEF estateVars
<1>5. canon' /\ group' \notin {"founders", "execs", "manager"} /\ FraudShops # {} => ManagerInv'
    BY <1>3, <1>4 DEF StaffInv, ManagerInv
<1> QED
    BY <1>2, <1>3, <1>5, StepKeeps

\* Spans that stay are still those of earlier spells.
LEMMA SpansStay ==
    ASSUME StaffInv, spans' = spans, spell' \in {spell, spell + 1}
    PROVE  SpansOK(spans') /\ \A x \in spans' : x.spell < spell'
<1>1. \A x \in spans : x.spell \in Nat /\ x.spell < spell
    BY DEF StaffInv, SpansOK
<1>2. spell \in Nat
    BY DEF StaffInv
<1> QED
    BY <1>1, <1>2 DEF StaffInv

\* Head office is complete; the leaders are next.
LEMMA LeaveHQStep ==
    ASSUME StaffInv, built = "closed", LeaveHQ, UNCHANGED estateVars
    PROVE  StaffInv'
<1>1. /\ group = "hq" /\ group' = "leaders" /\ seat' = 0 /\ spell' = spell /\ person' = person
      /\ spans' = spans /\ UNCHANGED <<canon, manager>>
    BY DEF LeaveHQ
<1>2. SpansOK(spans') /\ \A x \in spans' : x.spell < spell'
    BY <1>1, SpansStay
<1>3. seat' \in Nat /\ seat' < Seats
    BY <1>1, LeaderSeats
<1> QED
    BY <1>1, <1>2, <1>3, LateStep

\* The next shop starts with an empty index.
LEMMA NextShopStep ==
    ASSUME StaffInv, built = "closed", NextShop, UNCHANGED estateVars
    PROVE  StaffInv'
<1>1. /\ group = "retail" /\ group' \in {"hq", "retail"} /\ spell' = spell /\ person' = person
      /\ spans' = {} /\ UNCHANGED <<canon, manager>>
    BY DEF NextShop
<1>2. SpansOK(spans') /\ \A x \in spans' : x.spell < spell'
    BY <1>1, FS_EmptySet DEF SpansOK
<1> QED
    BY <1>1, <1>2, LateStep

\* A spell of head office or of a leader ends as hqTermination decides.
LEMMA OfficeEmits ==
    ASSUME Finished, Open(1), NEW grade, NEW started \in Nat, started <= ClosureDay,
           grade >= 8 \/ started + Extension <= ClosureDay,
           Emit(Draft(0, 1, grade, started, NoDay, "none", {}))
    PROVE  PersonInv(person') /\ spell' = spell + 1
<1> DEFINE why == "none"
           d == Draft(0, 1, grade, started, NoDay, why, {})
<1>1. Emit(d)
    OBVIOUS
<1> HIDE DEF why
<1>2. Fits(0, 1, started, NoDay, {}, ClosureDay)
    BY NoShifts, DaysAre DEF Fits
<1>3. EndsBy(d, ClosureDay)
    <2>1. d.ended = NoDay /\ d.shop = 0 /\ d.started = started /\ d.grade = grade
        BY DEF Draft
    <2> HIDE DEF d
    <2>2. Leavings(d) = hqTermination(started, grade)
        BY <2>1 DEF Leavings
    <2>3. \A e \in Leavings(d) : e.day \in Int /\ e.day <= ClosureDay
        BY <2>2, HQLeavesInTime
    <2> QED
        BY <2>1, <2>3 DEF EndsBy
<1> QED
    BY <1>1, <1>2, <1>3, Emits

\* Head office is hired early enough for the extension of a spell to end in time.
LEMMA HQStep ==
    ASSUME StaffInv, built = "closed", EmitHQ, UNCHANGED estateVars
    PROVE  StaffInv'
<1>1. PICK i \in DOMAIN shops, f \in HireDraws, g \in HQGrades :
          Emit(Draft(0, 1, g, Min({shops[i].opened + (HQJitter * f) \div 100, ClosureDay}), NoDay, "none", {}))
    BY DEF EmitHQ
<1> DEFINE o == shops[i].opened
           m == (HQJitter * f) \div 100
           a == o + m
           started == Min({a, ClosureDay})
<1>2. Finished /\ Open(1)
    BY EstateIsThere
<1>3. o \in Nat /\ o <= ExpansionEnd
    BY <1>2 DEF Finished
<1> HIDE DEF o
<1>4. f \in 0..99
    BY StaffDays
<1>5. m \in 0..HQJitter
    BY <1>4, DaysAre, Fraction
<1> HIDE DEF m
<1>6. a \in Nat /\ a <= ExpansionEnd + HQJitter
    BY <1>3, <1>5, DaysAre
<1> HIDE DEF a
<1>7. started = IF a <= ClosureDay THEN a ELSE ClosureDay
    BY <1>6, DaysAre, OfPair
<1>8. started \in Nat /\ started <= ClosureDay /\ started + Extension <= ClosureDay
    BY <1>6, <1>7, DaysAre
<1>9. Emit(Draft(0, 1, g, started, NoDay, "none", {}))
    BY <1>1 DEF a, m, o
<1> HIDE DEF started
<1>10. PersonInv(person') /\ spell' = spell + 1
    BY <1>2, <1>8, <1>9, OfficeEmits
<1>11. group = "hq" /\ group' = "hq" /\ spans' = spans /\ UNCHANGED <<canon, manager>>
    BY DEF EmitHQ
<1>12. SpansOK(spans') /\ \A x \in spans' : x.spell < spell'
    BY <1>10, <1>11, SpansStay
<1> QED
    BY <1>10, <1>11, <1>12, LateStep

\* A leader starts by the peak of the business and leaves with the company at the latest.
LEMMA LeaderStep ==
    ASSUME StaffInv, built = "closed", EmitLeader, UNCHANGED estateVars
    PROVE  StaffInv'
<1>1. group = "leaders" /\ seat \in Nat /\ seat < Seats
    BY DEF StaffInv, EmitLeader
<1>2. PICK f \in HireDraws :
          Emit(Draft(0, 1, LeaderGrade(seat + 1), (LeaderEnd * f) \div 100, NoDay, "none", {}))
    BY DEF EmitLeader
<1> DEFINE grade == LeaderGrade(seat + 1)
           started == (LeaderEnd * f) \div 100
<1>3. Seats \in Nat /\ grade >= 8
    BY <1>1, LeaderSeats
<1>4. f \in 0..99
    BY StaffDays
<1>5. started \in 0..LeaderEnd
    BY <1>4, DaysAre, Fraction
<1>6. Emit(Draft(0, 1, grade, started, NoDay, "none", {}))
    BY <1>2
<1> HIDE DEF grade, started
<1>7. started \in Nat /\ started <= ClosureDay
    BY <1>5, DaysAre
<1>8. PersonInv(person') /\ spell' = spell + 1
    BY <1>3, <1>6, <1>7, EstateIsThere, OfficeEmits
<1>9. /\ group' = IF seat + 1 < Seats THEN group ELSE "done"
      /\ seat' = IF seat + 1 < Seats THEN seat + 1 ELSE 0
      /\ spans' = spans /\ UNCHANGED <<canon, manager>>
    BY DEF EmitLeader, Advance, Seats
<1>10. SpansOK(spans') /\ \A x \in spans' : x.spell < spell'
    BY <1>8, <1>9, SpansStay
<1>11. group' = "leaders" => seat' \in Nat /\ seat' < Seats
    BY <1>1, <1>3, <1>9
<1>12. group' \in {"leaders", "done"}
    BY <1>1, <1>9
<1> QED
    BY <1>1, <1>8, <1>9, <1>10, <1>11, <1>12, LateStep

\* The staff of a shop, with their shifts.
LEMMA RetailStep ==
    ASSUME StaffInv, built = "closed", EmitRetail, UNCHANGED estateVars
    PROVE  StaffInv'
<1>1. PICK heads \in HeadcountsForShop(shops[at]), started \in HiringDays(shops[at], seat) :
        \E shifts \in Shifts(started, shops[at].closed) :
            Emit(Draft(at, shops[at].country, RetailGrade(seat, heads), started, NoDay, "none", shifts))
    BY DEF EmitRetail
<1>2. PICK shifts \in Shifts(started, shops[at].closed) :
            Emit(Draft(at, shops[at].country, RetailGrade(seat, heads), started, NoDay, "none", shifts))
    BY <1>1
<1> DEFINE i == at
           k == shops[i].country
           c == shops[i].closed
           grade == RetailGrade(seat, heads)
           why == "none"
           d == Draft(i, k, grade, started, NoDay, why, shifts)
<1>3. Finished /\ i \in DOMAIN shops
    BY EstateIsThere DEF EmitRetail
<1>4. i # 0
    BY <1>3, ShopPlaces
<1>5. k \in D0 /\ c \in Nat /\ c <= ClosureDay
    BY <1>3 DEF Finished
<1>6. Open(k)
    BY <1>3, <1>5 DEF Open
<1>7. started \in Nat /\ shops[i].opened <= started /\ started <= c
    BY <1>1, <1>3, HiredWhileOpen
<1>8. Rota(shifts, started, c)
    BY <1>2, <1>5, <1>7, ShiftsAreARota
<1>9. Emit(d)
    BY <1>2
<1>10. /\ group = "retail" /\ group' = "retail" /\ UNCHANGED <<canon, manager>>
       /\ spans' = spans \cup {SpanOf(spell, s) : s \in person'.shifts}
    BY DEF EmitRetail, SpanOf
<1> HIDE DEF k, grade, why
<1>11. Fits(i, k, started, NoDay, shifts, c)
    BY <1>3, <1>5, <1>6, <1>7, <1>8 DEF Fits
<1>12. EndsBy(d, c)
    <2>1. d.ended = NoDay /\ d.shop = i /\ d.started = started
        BY DEF Draft
    <2> HIDE DEF d
    <2>2. Leavings(d) = retailTermination(started, shops[i])
        BY <1>4, <2>1 DEF Leavings
    <2>3. \A e \in Leavings(d) : e.day \in Int /\ e.day <= c
        BY <1>3, <1>7, <2>2, RetailLeavesInTime
    <2> QED
        BY <2>1, <2>3 DEF EndsBy
<1>13. PersonInv(person') /\ spell' = spell + 1
    BY <1>3, <1>9, <1>11, <1>12, Emits
<1>14. SpansOK(spans') /\ \A x \in spans' : x.spell < spell'
    <2>1. SpansOK(spans) /\ spell \in Nat /\ \A x \in spans : x.spell < spell
        BY DEF StaffInv
    <2>2. Rota(person'.shifts, person'.started, person'.ended)
        BY <1>13 DEF PersonInv
    <2> DEFINE T == spans \cup {SpanOf(spell, s) : s \in person'.shifts}
    <2>3. SpansOK(T) /\ \A x \in T : x.spell < spell + 1
        BY <2>1, <2>2, SpansGrow
    <2>4. spans' = T
        BY <1>10
    <2> HIDE DEF T
    <2> QED
        BY <1>13, <2>3, <2>4
<1> QED
    BY <1>10, <1>13, <1>14, LateStep

\* No staff are there while the estate is built.
LEMMA EstateStep ==
    ASSUME StaffInv, EstateNext, UNCHANGED staffVars
    PROVE  StaffInv'
<1>1. built # "closed"
    BY DEF EstateNext, PlacePeakEstate, AppendTransients, NumberShops, CloseShops
<1>2. StaffInit
    BY <1>1 DEF StaffInv
<1>3. StaffInit'
    BY <1>2 DEF StaffInit, staffVars, Nobody
<1>4. EstateInv'
    BY EstateSteps DEF StaffInv
<1>5. /\ group' = "founders" /\ seat' = 0 /\ spell' = 1 /\ spans' = {}
      /\ (person = Nobody)'
    BY <1>3 DEF StaffInit
<1>6. SpansOK(spans)'
    BY <1>5, FS_EmptySet DEF SpansOK
<1>7. 0 < Len(Founders)
    BY CastIs
<1> QED
    BY <1>3, <1>4, <1>5, <1>6, <1>7 DEF StaffInv

\* Nor does stuttering disturb it.
LEMMA StaffStays ==
    ASSUME StaffInv, UNCHANGED <<estateVars, staffVars>>
    PROVE  StaffInv'
<1>1. /\ shops' = shops /\ built' = built /\ canon' = canon /\ group' = group /\ seat' = seat
      /\ at' = at /\ spell' = spell /\ person' = person /\ manager' = manager /\ spans' = spans
    BY DEF estateVars, staffVars
<1>2. FraudShops' = FraudShops /\ (PersonInv(person') => PersonInv(person)')
    BY <1>1, ShopsStay
<1>3. EstateInv'
    BY EstateSteps DEF StaffInv
<1>4. (person = Nobody)' <=> person = Nobody
    BY <1>1 DEF Nobody
<1>5. PersonInv(person) => PersonInv(person')
    BY <1>1
<1>6. SpansOK(spans)' /\ (\A x \in spans : x.spell < spell)'
    BY <1>1 DEF StaffInv, SpansOK
<1>7. StaffInit => StaffInit'
    BY <1>1 DEF StaffInit, Nobody
<1> QED
    BY <1>1, <1>2, <1>3, <1>4, <1>5, <1>6, <1>7 DEF StaffInv, ManagerInv

\* Every step keeps the invariant.
LEMMA StaffSteps == StaffInv /\ [Next]_<<estateVars, staffVars>> => StaffInv'
<1> SUFFICES ASSUME StaffInv, [Next]_<<estateVars, staffVars>> PROVE StaffInv'
    OBVIOUS
<1>1. CASE UNCHANGED <<estateVars, staffVars>>
    BY <1>1, StaffStays
<1>2. CASE EstateNext /\ UNCHANGED staffVars
    BY <1>2, EstateStep
<1>3. CASE built = "closed" /\ StaffNext /\ UNCHANGED estateVars
    BY <1>3, FounderStep, ExecStep, FraudManagerStep, SkipStep, RetailStep, NextShopStep,
       HQStep, LeaveHQStep, LeaderStep DEF StaffNext
<1> QED
    BY <1>1, <1>2, <1>3 DEF Next

\* So it always holds.
LEMMA StaffHolds == Spec => []StaffInv
    BY StaffStart, StaffSteps, PTL DEF Spec

-----------------------------------------------------------------------------
(* What the runs check of the staff, for every staff.                      *)

\* Whoever is emitted is finished, over a finished estate.
LEMMA WhoIsEmitted ==
    ASSUME StaffInv, Emitted
    PROVE  PersonInv(person) /\ Finished
<1>1. PersonInv(person)
    BY DEF StaffInv, Emitted
<1>2. built = "closed"
    BY DEF StaffInv, StaffInit, Emitted
<1> QED
    BY <1>1, <1>2, EstateIsThere

\* SpellsWithinTheBusiness of every staff: nobody outlasts the company, nor a
\* shop's people their shop (hr.go:96-100, closure.go:74-104).
THEOREM SpellsAreWithin == Spec => []SpellsWithinTheBusiness
<1>1. StaffInv => SpellsWithinTheBusiness
    BY WhoIsEmitted DEF SpellsWithinTheBusiness, PersonInv
<1> QED
    BY <1>1, StaffHolds, PTL

\* PaidWhileEmployed of every staff: each day of an employment lies in exactly
\* one paid period, and none begins after it (closure.go:159-206).
THEOREM EveryDayIsPaidOnce == Spec => []PaidWhileEmployed
<1>1. StaffInv => PaidWhileEmployed
    <2> SUFFICES ASSUME StaffInv, Emitted
                 PROVE  /\ \A r \in person.lines : r.from <= person.ended /\ person.started <= r.to
                        /\ \A d \in Max({person.started, earliestShopByCountry(person.country)})..person.ended :
                               Cardinality({r \in person.lines : r.from <= d /\ d <= r.to}) = 1
        BY DEF PaidWhileEmployed
    <2> DEFINE k == person.country
               from == person.started
               to == person.ended
               paid == {s \in buildRunsForCountry(k) : from <= s.to /\ s.from <= to}
    <2>1. Finished /\ Open(k) /\ from \in Nat /\ to \in Nat /\ to <= ClosureDay /\ person.lines = paid
        BY WhoIsEmitted DEF PersonInv, Lines
    <2>2. \A r \in paid : r.from <= to /\ from <= r.to
        OBVIOUS
    <2> HIDE DEF k, from, to
    <2>3. \A d \in Max({from, earliestShopByCountry(k)})..to :
             Cardinality({r \in paid : r.from <= d /\ d <= r.to}) = 1
        BY <2>1, PaidOnce
    <2> HIDE DEF paid
    <2> QED
        BY <2>1, <2>2, <2>3 DEF k, from, to
<1> QED
    BY <1>1, StaffHolds, PTL

\* OnDutyIsExact of every staff: whoever is found on duty has a shift over the
\* instant and the other way round (shiftindex.go:104-137).
THEOREM DutyIsExact == Spec => []OnDutyIsExact
<1>1. StaffInv => OnDutyIsExact
    <2> SUFFICES ASSUME StaffInv PROVE OnDutyIsExact
        OBVIOUS
    <2>1. \A x \in person.shifts : person.started <= x.day /\ x.day <= person.ended
        <3>1. CASE person = Nobody
            BY <3>1 DEF Nobody
        <3>2. CASE PersonInv(person)
            BY <3>2 DEF PersonInv, Rota
        <3> QED
            BY <3>1, <3>2 DEF StaffInv
    <2>2. SpansOK(spans)
        BY DEF StaffInv
    <2>3. \A t \in {x.from : x \in spans} \cup {x.to : x \in spans} : t \in Int
        BY <2>2 DEF SpansOK
    <2>4. \A t \in {x.from : x \in spans} \cup {x.to : x \in spans} :
             OnDuty(t) = {x.spell : x \in {y \in spans : y.from <= t /\ t < y.to}}
        BY <2>2, <2>3, SearchIsExact
    <2> QED
        BY <2>1, <2>4 DEF OnDutyIsExact
<1> QED
    BY <1>1, StaffHolds, PTL

\* KeyedRefundsHaveTheirManager of every staff: the spell the keyed refunds name
\* is the manager of the fraud shop, there all through the window
\* (policy.go:1016-1024).
THEOREM RefundsHaveTheirManager == Spec => []KeyedRefundsHaveTheirManager
<1>1. StaffInv => KeyedRefundsHaveTheirManager
    <2> SUFFICES ASSUME StaffInv, canon, group \notin {"founders", "execs", "manager"}, FraudShops # {}
                 PROVE  /\ manager.spell = FraudManagerSpellID
                        /\ manager.shop \in FraudShops
                        /\ manager.started <= FraudWindowStart /\ FraudWindowEnd <= manager.ended
                        /\ shops[manager.shop].opened <= manager.started
                        /\ manager.ended <= shops[manager.shop].closed
        BY DEF KeyedRefundsHaveTheirManager
    <2>1. ManagerInv
        BY DEF StaffInv
    <2>2. built = "closed"
        BY DEF StaffInv, StaffInit
    <2>3. Finished
        BY <2>2, EstateIsThere
    <2>4. ManagerFrom <= FraudWindowStart /\ FraudWindowEnd <= ManagerTo
        BY StaffAssumption
    <2> QED
        BY <2>1, <2>3, <2>4 DEF ManagerInv, Finished
<1> QED
    BY <1>1, StaffHolds, PTL

-----------------------------------------------------------------------------
(* Wages.                                                                  *)

\* The events of a spell from s to t.
EventsOK(E, s, t) ==
    /\ IsFiniteSet(E) /\ s \in Nat /\ t \in Nat
    /\ \A e \in E : e.date \in Nat /\ s <= e.date /\ e.date <= t /\ e.rank \in Nat
    /\ \E e \in E : e.date = s
    /\ \A e, f \in E : e.date = f.date /\ e.rank = f.rank => e = f

\* The first day of a later year is later.
LEMMA YearsFollow ==
    ASSUME NEW s \in Nat, NEW y \in Int, y >= YearOf(s) + 1
    PROVE  FirstOf(y) \in Nat /\ s <= FirstOf(y)
<1> DEFINE w == YearLength
           q == s \div w
           r == s % w
<1>1. w \in Nat /\ w > 0
    BY EstateDays
<1> HIDE DEF w
<1>2. q \in Nat /\ r \in 0..(w - 1)
    BY <1>1, NatDivision
<1>3. s = w * q + r
    BY <1>1, NatDivision
<1>4. y >= q + 1
    BY DEF YearOf, w
<1> HIDE DEF q, r
<1>5. w * (y - q - 1) >= 0
    BY <1>1, <1>2, <1>4
<1>6. w * (y - q - 1) = w * y - w * q - w
    BY <1>1, <1>2
<1>7. w * y \in Int /\ w * q \in Int
    BY <1>1, <1>2
<1>8. w * y >= s
    BY <1>1, <1>2, <1>3, <1>5, <1>6, <1>7
<1>9. FirstOf(y) = w * y
    BY <1>1 DEF FirstOf, w
<1> QED
    BY <1>7, <1>8, <1>9

\* The events of a spell lie within it, the hiring first, no two alike.
LEMMA EventsAre ==
    ASSUME NEW p, p.started \in Nat, p.ended \in Nat, p.started <= p.ended, p.ended <= ClosureDay,
           NEW retained \in BOOLEAN
    PROVE  EventsOK(Events(p, retained), p.started, p.ended) /\ EndWalk(p) = p.ended
<1> DEFINE s == p.started
           t == p.ended
           E == Events(p, retained)
           last == EndWalk(p)
           hire == Event(s, "hire", 0)
           retention == Event(RetentionDay, "retention", 2)
           winddown == Event(WindDownDay, "winddown", 3)
           rise(y) == Event(FirstOf(y), "cola", 1)
           years == {z \in (YearOf(s) + 1)..YearOf(last) : FirstOf(z) <= last}
           rises == {rise(y) : y \in years}
<1>1. s \in Nat /\ t \in Nat /\ s <= t /\ t <= ClosureDay /\ ClosureDay \in Nat
    BY DaysAre
<1>2. last = t
    <2> HIDE DEF t
    <2>1. Min({t, ClosureDay}) = t
        BY <1>1, OfPair
    <2> QED
        BY <2>1 DEF t, EndWalk
<1>3. hire \in E
    BY DEF Events
<1>4. \A e \in E : \/ e = hire
                   \/ e \in rises
                   \/ e = retention /\ s <= e.date /\ e.date <= last
                   \/ e = winddown /\ s <= e.date /\ e.date <= last
    BY DEF Events
<1> HIDE DEF s, t, E, last, years
<1>5. hire.date = s /\ hire.rank = 0
    BY DEF Event
<1>6. /\ retention.date = RetentionDay /\ retention.rank = 2
      /\ winddown.date = WindDownDay /\ winddown.rank = 3
      /\ RetentionDay \in Nat /\ WindDownDay \in Nat
    BY WagesAssumption DEF Event
<1>7. \A e \in rises : \E y \in years : e = rise(y)
    OBVIOUS
<1>8. \A y \in years : rise(y).date = FirstOf(y) /\ rise(y).rank = 1
    BY DEF Event
<1>9. YearOf(s) \in Nat /\ YearOf(last) \in Nat
    <2>1. YearLength \in Nat /\ YearLength > 0
        BY EstateDays
    <2> QED
        BY <1>1, <1>2, <2>1, NatDivision DEF YearOf
<1>10. \A y \in years : y \in Int /\ y >= YearOf(s) + 1 /\ FirstOf(y) <= last
    BY <1>9 DEF years
<1>11. \A y \in years : FirstOf(y) \in Nat /\ s <= FirstOf(y)
    BY <1>1, <1>10, YearsFollow
<1>12. \A e \in rises : e.date \in Nat /\ s <= e.date /\ e.date <= t /\ e.rank = 1
                        /\ e = Event(e.date, "cola", 1)
    BY <1>2, <1>7, <1>8, <1>10, <1>11
<1>13. IsFiniteSet(rises)
    <2>1. IsFiniteSet((YearOf(s) + 1)..YearOf(last))
        BY <1>9, FS_Interval
    <2>2. IsFiniteSet(years)
        BY <2>1, FS_Subset DEF years
    <2> DEFINE f == [y \in years |-> rise(y)]
    <2>3. f \in Surjection(years, rises)
        BY DEF Surjection
    <2> QED
        BY <2>2, <2>3, FS_Surjection
<1> HIDE DEF hire, retention, winddown, rises
<1>14. IsFiniteSet(E)
    <2>1. IsFiniteSet({hire}) /\ IsFiniteSet({retention}) /\ IsFiniteSet({winddown})
        BY FS_Singleton
    <2>2. IsFiniteSet({hire} \cup rises)
        BY <1>13, <2>1, FS_Union
    <2>3. IsFiniteSet({retention} \cup {winddown})
        BY <2>1, FS_Union
    <2>4. IsFiniteSet(({hire} \cup rises) \cup ({retention} \cup {winddown}))
        BY <2>2, <2>3, FS_Union
    <2>5. E \subseteq ({hire} \cup rises) \cup ({retention} \cup {winddown})
        BY <1>4
    <2> QED
        BY <2>4, <2>5, FS_Subset
<1>15. \A e \in E : e.date \in Nat /\ s <= e.date /\ e.date <= t /\ e.rank \in Nat
    BY <1>1, <1>2, <1>4, <1>5, <1>6, <1>12
<1>16. \A e, f \in E : e.date = f.date /\ e.rank = f.rank => e = f
    BY <1>4, <1>5, <1>6, <1>12
<1>17. \E e \in E : e.date = s
    BY <1>3, <1>5
<1>18. EventsOK(E, s, t) /\ last = t
    BY <1>1, <1>2, <1>14, <1>15, <1>16, <1>17 DEF EventsOK
<1> QED
    BY <1>18 DEF s, t, E, last

\* The events in order, as a sequence ...
LEMMA EventsInARow ==
    ASSUME NEW E, NEW s, NEW t, EventsOK(E, s, t)
    PROVE  LET n == Cardinality(E)
               ev == EventsInOrder(E)
           IN  /\ n \in Nat /\ ev \in [1..n -> E] /\ Len(ev) = n
               /\ \A e \in E : \E i \in 1..n : ev[i] = e
               /\ \A i, j \in 1..n : i < j =>
                     ev[i].date < ev[j].date \/ (ev[i].date = ev[j].date /\ ev[i].rank < ev[j].rank)
<1> DEFINE R == {p \in E \X E : InOrder(<<p[1].date, p[1].rank>>, <<p[2].date, p[2].rank>>)}
           n == Cardinality(E)
           ev == EventsInOrder(E)
<1>1. \A x, y \in E : <<x, y>> \in R <=> x.date < y.date \/ (x.date = y.date /\ x.rank < y.rank)
    BY DEF InOrder
<1>2. ev = Sorted(E, R)
    BY DEF EventsInOrder
<1> HIDE DEF R
<1>3. IsFiniteSet(E) /\ StrictOrder(E, R)
    <2>1. \A x \in E : x.date \in Nat /\ x.rank \in Nat
        BY DEF EventsOK
    <2>2. \A x, y \in E : x.date = y.date /\ x.rank = y.rank => x = y
        BY DEF EventsOK
    <2>3. IsFiniteSet(E)
        BY DEF EventsOK
    <2> QED
        BY <1>1, <2>1, <2>2, <2>3 DEF StrictOrder
<1>4. n \in Nat /\ ev \in [1..n -> E]
    BY <1>2, <1>3, SortedType
<1>5. \A e \in E : \E i \in 1..n : ev[i] = e
    BY <1>2, <1>3, SortedPlace
<1>6. \A i, j \in 1..n : i < j <=> <<ev[i], ev[j]>> \in R
    BY <1>2, <1>3, SortedOrder
<1> HIDE DEF n, ev
<1>7. Len(ev) = n
    BY <1>4
<1>8. \A i, j \in 1..n : i < j =>
          ev[i].date < ev[j].date \/ (ev[i].date = ev[j].date /\ ev[i].rank < ev[j].rank)
    BY <1>1, <1>4, <1>6
<1> QED
    BY <1>4, <1>5, <1>7, <1>8 DEF n, ev

\* The base records of a sequence of events, up to t.
RecordsOf(ev, t) ==
    [i \in DOMAIN ev |->
        [kind |-> ev[i].kind, from |-> ev[i].date,
         to |-> IF i < Len(ev) THEN Max({ev[i].date, ev[i + 1].date - 1}) ELSE t]]

\* What the wage of a day rests on: events E from s to t stand in ev in order.
InARow(E, ev, n, s, t) ==
    /\ n \in Nat /\ n > 0 /\ ev \in [1..n -> E] /\ Len(ev) = n /\ s \in Nat /\ t \in Nat
    /\ \A e \in E : e.date \in Nat /\ s <= e.date /\ e.date <= t /\ e.rank \in Nat
    /\ \A e, f \in E : e.date = f.date /\ e.rank = f.rank => e = f
    /\ \E i \in 1..n : ev[i].date = s
    /\ \A e \in E : \E i \in 1..n : ev[i] = e
    /\ \A i, j \in 1..n : i < j =>
          ev[i].date < ev[j].date \/ (ev[i].date = ev[j].date /\ ev[i].rank < ev[j].rank)

\* The records lie within the spell, and each reaches up to the next.
LEMMA RecordsFollow ==
    ASSUME NEW E, NEW ev, NEW n, NEW s, NEW t, InARow(E, ev, n, s, t)
    PROVE  /\ DOMAIN RecordsOf(ev, t) = 1..n /\ Len(RecordsOf(ev, t)) = n
           /\ \A i \in 1..n :
                 /\ RecordsOf(ev, t)[i].from = ev[i].date /\ RecordsOf(ev, t)[i].kind = ev[i].kind
                 /\ RecordsOf(ev, t)[i].to \in Int
                 /\ ev[i].date <= RecordsOf(ev, t)[i].to /\ RecordsOf(ev, t)[i].to <= t
                 /\ i < n => ev[i + 1].date - 1 <= RecordsOf(ev, t)[i].to
                 /\ i = n => RecordsOf(ev, t)[i].to = t
<1> DEFINE recs == RecordsOf(ev, t)
<1>1. n \in Nat /\ ev \in [1..n -> E] /\ Len(ev) = n /\ DOMAIN ev = 1..n /\ t \in Nat
    BY DEF InARow
<1>2. DOMAIN recs = 1..n /\ Len(recs) = n
    BY <1>1 DEF RecordsOf
<1>3. ASSUME NEW i \in 1..n
      PROVE  /\ recs[i].from = ev[i].date /\ recs[i].kind = ev[i].kind
             /\ recs[i].to = IF i < n THEN Max({ev[i].date, ev[i + 1].date - 1}) ELSE t
    BY <1>1 DEF RecordsOf
<1>4. \A i \in 1..n : ev[i].date \in Nat /\ ev[i].date <= t
    BY <1>1 DEF InARow
<1> HIDE DEF recs
<1>5. ASSUME NEW i \in 1..n
      PROVE  /\ recs[i].to \in Int
             /\ ev[i].date <= recs[i].to /\ recs[i].to <= t
             /\ i < n => ev[i + 1].date - 1 <= recs[i].to
             /\ i = n => recs[i].to = t
    <2>1. CASE i < n
        <3> DEFINE a == ev[i].date
                   b == ev[i + 1].date - 1
        <3>1. a \in Int /\ b \in Int /\ a <= t /\ b <= t
            <4>1. i + 1 \in 1..n
                BY <1>1, <2>1
            <4> QED
                BY <1>1, <1>4, <4>1
        <3>2. recs[i].to = Max({a, b})
            BY <1>3, <2>1
        <3> HIDE DEF a, b
        <3>3. recs[i].to = IF a <= b THEN b ELSE a
            BY <3>1, <3>2, OfPair
        <3>4. recs[i].to \in Int /\ a <= recs[i].to /\ recs[i].to <= t /\ b <= recs[i].to
            BY <3>1, <3>3
        <3> QED
            BY <1>1, <2>1, <3>4 DEF a, b
    <2>2. CASE ~(i < n)
        <3>1. recs[i].to = t
            BY <1>3, <2>2
        <3> QED
            BY <1>1, <1>4, <2>2, <3>1
    <2> QED
        BY <2>1, <2>2
<1> QED
    BY <1>2, <1>3, <1>5 DEF recs

\* The place of the last event up to a day.
LEMMA LastPlace ==
    ASSUME NEW E, NEW ev, NEW n, NEW s, NEW t, InARow(E, ev, n, s, t), NEW d \in s..t
    PROVE  \E m \in 1..n :
              /\ ev[m].date <= d
              /\ \A i \in 1..n : ev[i].date <= d => i <= m
              /\ m < n => d < ev[m + 1].date
<1> DEFINE J == {i \in 1..n : ev[i].date <= d}
           m == Max(J)
<1>1. n \in Nat /\ \A i \in 1..n : ev[i].date \in Nat
    BY DEF InARow
<1>2. s \in Nat /\ t \in Nat
    BY DEF InARow
<1>3. J \in SUBSET Nat /\ J # {} /\ \A i \in J : i <= n
    <2>1. \E i \in 1..n : ev[i].date = s
        BY DEF InARow
    <2> QED
        BY <1>1, <1>2, <2>1
<1>4. \A i \in J : i \in 1..n /\ ev[i].date <= d
    OBVIOUS
<1>5. \A i \in 1..n : ev[i].date <= d => i \in J
    OBVIOUS
<1> HIDE DEF J
<1>6. m \in J /\ \A i \in J : i <= m
    BY <1>1, <1>3, MaxIsGreatest
<1> HIDE DEF m
<1>7. m \in 1..n /\ ev[m].date <= d /\ \A i \in 1..n : ev[i].date <= d => i <= m
    BY <1>4, <1>5, <1>6
<1>8. m < n => d < ev[m + 1].date
    <2> SUFFICES ASSUME m < n PROVE d < ev[m + 1].date
        OBVIOUS
    <2>1. m + 1 \in 1..n /\ ~(m + 1 <= m)
        BY <1>1, <1>7
    <2>2. ~(ev[m + 1].date <= d)
        BY <1>7, <2>1
    <2> QED
        BY <1>1, <1>2, <2>1, <2>2
<1> QED
    BY <1>7, <1>8

\* The wage in effect is that of the last event up to the day.
LEMMA WageOfADay ==
    ASSUME NEW E, NEW ev, NEW n, NEW s, NEW t, InARow(E, ev, n, s, t), NEW d \in s..t,
           NEW m \in 1..n, ev[m].date <= d, \A i \in 1..n : ev[i].date <= d => i <= m,
           m < n => d < ev[m + 1].date
    PROVE  WageInEffectAt(RecordsOf(ev, t), d) = m
<1> DEFINE recs == RecordsOf(ev, t)
           W == {0} \cup {i \in DOMAIN recs : recs[i].from <= d /\ d <= recs[i].to}
           w == Max(W)
<1>1. n \in Nat /\ s \in Nat /\ t \in Nat /\ \A i \in 1..n : ev[i].date \in Nat
    BY DEF InARow
<1>2. DOMAIN recs = 1..n
    BY RecordsFollow
<1>3. \A i \in 1..n :
          /\ recs[i].from = ev[i].date /\ recs[i].to \in Int
          /\ i < n => ev[i + 1].date - 1 <= recs[i].to
          /\ i = n => recs[i].to = t
    BY RecordsFollow
<1> HIDE DEF recs
<1>4. d <= recs[m].to
    <2>1. CASE m < n
        <3>1. m + 1 \in 1..n
            BY <1>1, <2>1
        <3>2. ev[m + 1].date \in Nat /\ d < ev[m + 1].date /\ ev[m + 1].date - 1 <= recs[m].to
            BY <1>1, <1>3, <2>1, <3>1
        <3>3. recs[m].to \in Int
            BY <1>3
        <3> QED
            BY <1>1, <3>2, <3>3
    <2>2. CASE m = n
        BY <1>1, <1>3, <2>2
    <2> QED
        BY <1>1, <2>1, <2>2
<1>5. m \in W
    BY <1>2, <1>3, <1>4
<1>6. \A i \in W : i \in 0..n /\ i <= m
    <2> TAKE i \in W
    <2>1. CASE i = 0
        BY <1>1, <2>1
    <2>2. CASE i \in 1..n /\ recs[i].from <= d
        BY <1>1, <1>3, <2>2
    <2> QED
        BY <1>2, <2>1, <2>2
<1>7. WageInEffectAt(recs, d) = w
    BY DEF WageInEffectAt
<1> HIDE DEF W
<1>8. w \in W /\ \A i \in W : i <= w
    <2>1. W \in SUBSET Nat /\ W # {} /\ \A i \in W : i <= n
        BY <1>1, <1>5, <1>6
    <2> QED
        BY <1>1, <2>1, MaxIsGreatest
<1> HIDE DEF w
<1>9. w \in 0..n /\ w <= m /\ m <= w
    BY <1>5, <1>6, <1>8
<1> QED
    BY <1>1, <1>7, <1>9 DEF recs

\* The last of some events.
LastOf(U) == CHOOSE e \in U : \A o \in U : o.date < e.date \/ (o.date = e.date /\ o.rank <= e.rank)

\* ... which is the event the property speaks of.
LEMMA LastEvent ==
    ASSUME NEW E, NEW ev, NEW n, NEW s, NEW t, InARow(E, ev, n, s, t), NEW d \in s..t,
           NEW m \in 1..n, ev[m].date <= d, \A i \in 1..n : ev[i].date <= d => i <= m
    PROVE  LastOf({e \in E : e.date <= d}) = ev[m]
<1> DEFINE U == {e \in E : e.date <= d}
           tops(e) == \A o \in U : o.date < e.date \/ (o.date = e.date /\ o.rank <= e.rank)
<1>1. n \in Nat /\ ev \in [1..n -> E] /\ \A e \in E : e.date \in Nat /\ e.rank \in Nat
    BY DEF InARow
<1>2. ev[m] \in U
    BY <1>1
<1>3. ASSUME NEW o \in U
      PROVE  o.date < ev[m].date \/ (o.date = ev[m].date /\ o.rank <= ev[m].rank)
    <2>1. PICK i \in 1..n : ev[i] = o
        BY DEF InARow
    <2>2. i <= m
        BY <2>1
    <2>3. CASE i = m
        BY <1>1, <2>1, <2>3
    <2>4. CASE i < m
        <3>1. ev[i].date < ev[m].date \/ (ev[i].date = ev[m].date /\ ev[i].rank < ev[m].rank)
            BY <2>4 DEF InARow
        <3> QED
            BY <1>1, <2>1, <3>1
    <2> QED
        BY <1>1, <2>2, <2>3, <2>4
<1>4. \A e \in U : e \in E
    OBVIOUS
<1> HIDE DEF U
<1> DEFINE l == CHOOSE e \in U : tops(e)
<1>5. tops(ev[m])
    BY <1>3
<1> HIDE DEF tops
<1>6. l \in U /\ tops(l)
    BY <1>2, <1>5
<1> HIDE DEF l
<1>7. l.date = ev[m].date /\ l.rank = ev[m].rank
    <2>1. l.date < ev[m].date \/ (l.date = ev[m].date /\ l.rank <= ev[m].rank)
        BY <1>5, <1>6 DEF tops
    <2>2. ev[m].date < l.date \/ (ev[m].date = l.date /\ ev[m].rank <= l.rank)
        BY <1>2, <1>6 DEF tops
    <2>3. l \in E /\ ev[m] \in E
        BY <1>2, <1>4, <1>6
    <2> QED
        BY <1>1, <2>1, <2>2, <2>3
<1>8. l = ev[m]
    BY <1>2, <1>4, <1>6, <1>7 DEF InARow
<1> QED
    BY <1>8 DEF U, LastOf, l, tops

\* The base records of a spell are those of its events in a row.
LEMMA WagesOf ==
    ASSUME NEW p, p.started \in Nat, p.ended \in Nat, p.started <= p.ended, p.ended <= ClosureDay,
           NEW retained \in BOOLEAN
    PROVE  \E n : /\ InARow(Events(p, retained), EventsInOrder(Events(p, retained)), n, p.started, p.ended)
                  /\ BaseRecords(p, retained) = RecordsOf(EventsInOrder(Events(p, retained)), p.ended)
<1> DEFINE E == Events(p, retained)
           s == p.started
           t == p.ended
           n == Cardinality(E)
           ev == EventsInOrder(E)
<1>1. EventsOK(E, s, t)
    BY EventsAre
<1>2. BaseRecords(p, retained) = RecordsOf(ev, t)
    BY DEF BaseRecords, RecordsOf
<1> HIDE DEF E, s, t
<1>3. /\ n \in Nat /\ ev \in [1..n -> E] /\ Len(ev) = n
      /\ \A e \in E : \E i \in 1..n : ev[i] = e
      /\ \A i, j \in 1..n : i < j =>
            ev[i].date < ev[j].date \/ (ev[i].date = ev[j].date /\ ev[i].rank < ev[j].rank)
    BY <1>1, EventsInARow
<1> HIDE DEF n, ev
<1>4. \E i \in 1..n : ev[i].date = s
    BY <1>1, <1>3 DEF EventsOK
<1>5. n > 0
    BY <1>3, <1>4
<1>6. InARow(E, ev, n, s, t)
    BY <1>1, <1>3, <1>4, <1>5 DEF InARow, EventsOK
<1> QED
    BY <1>2, <1>6 DEF E, s, t, n, ev

\* WageFollowsTheLastRise of every staff: the wage of each day of a spell is that
\* of the last rise up to it (compensation.go:41-50, 147-224).
THEOREM WagesFollow == Spec => []WageFollowsTheLastRise
<1>1. ASSUME PersonInv(person), NEW retained \in BOOLEAN
      PROVE  LET recs == BaseRecords(person, retained)
                 events == Events(person, retained)
             IN /\ \A i \in DOMAIN recs : recs[i].from <= recs[i].to /\ recs[i].to <= person.ended
                /\ \A d \in person.started..person.ended :
                       LET i == WageInEffectAt(recs, d)
                           upTo == {e \in events : e.date <= d}
                           last == CHOOSE e \in upTo : \A o \in upTo :
                                       o.date < e.date \/ (o.date = e.date /\ o.rank <= e.rank)
                       IN i # 0 /\ recs[i].from = last.date /\ recs[i].kind = last.kind
                /\ \A b \in Bonuses(person, recs) : b.of # 0 /\ b.day <= person.ended
                /\ Severed(person) => WageInEffectAt(recs, person.ended) = Len(recs)
    <2> DEFINE E == Events(person, retained)
               ev == EventsInOrder(E)
               s == person.started
               t == person.ended
               recs == BaseRecords(person, retained)
               upTo(d) == {e \in E : e.date <= d}
    <2>1. s \in Nat /\ t \in Nat /\ s <= t /\ t <= ClosureDay
        BY <1>1 DEF PersonInv
    <2>2. PICK n : InARow(E, ev, n, s, t) /\ recs = RecordsOf(ev, t)
        BY <2>1, WagesOf
    <2>3. EndWalk(person) = t
        BY <2>1, EventsAre
    <2>4. \A b \in Bonuses(person, recs) :
              \E d \in Nat : b.day = d /\ b.of = WageInEffectAt(recs, d) /\ s <= d /\ d <= t
        <3> TAKE b \in Bonuses(person, recs)
        <3>1. PICK d \in BonusDays(person) : b = [day |-> d, of |-> WageInEffectAt(recs, d)]
            BY DEF Bonuses
        <3>2. PICK y \in BonusYears : d = FirstOf(y) + BonusOffset
            BY <3>1 DEF BonusDays
        <3>3. s <= d /\ d <= t
            BY <2>3, <3>1 DEF BonusDays
        <3>4. FirstOf(y) \in Nat
            <4>1. y \in Nat /\ YearLength \in Nat
                BY WagesAssumption, EstateDays
            <4> QED
                BY <4>1 DEF FirstOf
        <3>5. BonusOffset \in Nat
            BY WagesAssumption
        <3>6. d \in Nat
            BY <3>2, <3>4, <3>5
        <3> QED
            BY <3>1, <3>3, <3>6
    <2> HIDE DEF E, ev, s, t, recs
    <2>5. n \in Nat /\ n > 0
        BY <2>2 DEF InARow
    <2>6. /\ DOMAIN recs = 1..n /\ Len(recs) = n
          /\ \A i \in 1..n : /\ recs[i].from = ev[i].date /\ recs[i].kind = ev[i].kind
                             /\ recs[i].from <= recs[i].to /\ recs[i].to <= t
        BY <2>2, RecordsFollow
    <2>7. ASSUME NEW d \in s..t
          PROVE  /\ WageInEffectAt(recs, d) \in 1..n
                 /\ recs[WageInEffectAt(recs, d)].from = LastOf(upTo(d)).date
                 /\ recs[WageInEffectAt(recs, d)].kind = LastOf(upTo(d)).kind
                 /\ \A i \in 1..n : ev[i].date <= d => i <= WageInEffectAt(recs, d)
        <3>1. PICK m \in 1..n :
                  /\ ev[m].date <= d
                  /\ \A i \in 1..n : ev[i].date <= d => i <= m
                  /\ m < n => d < ev[m + 1].date
            BY <2>2, LastPlace
        <3>2. WageInEffectAt(recs, d) = m
            BY <2>2, <3>1, WageOfADay
        <3>3. LastOf(upTo(d)) = ev[m]
            BY <2>2, <3>1, LastEvent
        <3> HIDE DEF upTo
        <3> QED
            BY <2>6, <3>1, <3>2, <3>3
    <2>8. ASSUME NEW d \in s..t PROVE WageInEffectAt(recs, d) # 0
        <3>1. WageInEffectAt(recs, d) \in 1..n
            BY <2>7
        <3> QED
            BY <3>1
    <2>9. \A b \in Bonuses(person, recs) : b.of # 0 /\ b.day <= t
        BY <2>1, <2>4, <2>8
    <2>10. WageInEffectAt(recs, t) = Len(recs)
        <3>1. t \in s..t
            BY <2>1
        <3>2. WageInEffectAt(recs, t) \in 1..n
              /\ \A i \in 1..n : ev[i].date <= t => i <= WageInEffectAt(recs, t)
            BY <2>7, <3>1
        <3>3. n \in 1..n /\ ev[n].date <= t
            BY <2>2, <2>5 DEF InARow
        <3> QED
            BY <2>5, <2>6, <3>2, <3>3
    <2>11. \A d \in s..t :
               LET i == WageInEffectAt(recs, d)
                   last == CHOOSE e \in upTo(d) : \A o \in upTo(d) :
                               o.date < e.date \/ (o.date = e.date /\ o.rank <= e.rank)
               IN i # 0 /\ recs[i].from = last.date /\ recs[i].kind = last.kind
        <3> TAKE d \in s..t
        <3>1. /\ WageInEffectAt(recs, d) # 0
              /\ recs[WageInEffectAt(recs, d)].from = LastOf(upTo(d)).date
              /\ recs[WageInEffectAt(recs, d)].kind = LastOf(upTo(d)).kind
            BY <2>7, <2>8
        <3> HIDE DEF upTo
        <3> QED
            BY <3>1 DEF LastOf
    <2>12. \A i \in DOMAIN recs : recs[i].from <= recs[i].to /\ recs[i].to <= t
        BY <2>6
    <2> QED
        BY <2>9, <2>10, <2>11, <2>12 DEF E, s, t, recs
<1>2. StaffInv => WageFollowsTheLastRise
    BY <1>1, WhoIsEmitted DEF WageFollowsTheLastRise
<1> QED
    BY <1>2, StaffHolds, PTL
===============================================================================
