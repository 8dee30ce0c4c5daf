--------------------------------- MODULE Sums ---------------------------------
(* Lemmas about the least and the greatest of a set, about products and    *)
(* quotients of whole numbers, and about sums over finite sets             *)
(* (SumFunctionOnSet), which the proofs of several components rest on.     *)
EXTENDS Integers, FiniteSetsExt, FiniteSetTheorems, WellFoundedInduction, TLAPS

-----------------------------------------------------------------------------
(* Induction over data, as the existence of minimal elements.              *)

\* Among subsets of a finite set there is one that contains no other.
LEMMA LeastSubset ==
    ASSUME NEW S, IsFiniteSet(S), NEW C \in SUBSET SUBSET S, C # {}
    PROVE  \E T \in C : \A U \in C : U \subseteq T => U = T
<1>1. C \subseteq FiniteSubsetsOf(S)
    BY FS_FiniteSubsetsOfFinite
<1>2. PICK T \in C : \A U \in C : ~(<<U, T>> \in StrictSubsetOrdering(S))
    BY <1>1, FS_StrictSubsetOrderingWellFounded, WFMin, Zenon
<1>3. QED BY <1>2 DEF StrictSubsetOrdering

\* Every nonempty set of naturals has a least element, ...
LEMMA LeastOfNaturals ==
    ASSUME NEW S \in SUBSET Nat, S # {}
    PROVE  \E m \in S : \A x \in S : m <= x
<1>1. PICK m \in S : \A y \in S : ~(<<y, m>> \in OpToRel(<, Nat))
    BY NatLessThanWellFounded, WFMin, Zenon
<1>2. ASSUME NEW x \in S PROVE m <= x
  <2>1. ~(x < m)
      BY <1>1 DEF OpToRel
  <2>2. QED BY <2>1
<1>3. QED BY <1>2

\* ... and, if there is an upper bound, a greatest.
LEMMA GreatestOfNaturals ==
    ASSUME NEW b \in Nat, NEW S \in SUBSET (0..b), S # {}
    PROVE  \E m \in S : \A x \in S : x <= m
<1> DEFINE T == {b - x : x \in S}
<1>1. T \in SUBSET Nat /\ T # {}
  <2>1. \A x \in S : b - x \in Nat
      OBVIOUS
  <2>2. QED BY <2>1
<1>2. PICK l \in T : \A y \in T : l <= y
  <2> HIDE DEF T
  <2>1. QED BY <1>1, LeastOfNaturals
<1>3. PICK m \in S : l = b - m
    OBVIOUS
<1>4. ASSUME NEW x \in S PROVE x <= m
  <2>1. b - x \in T /\ x \in 0..b /\ m \in 0..b
      OBVIOUS
  <2>2. l <= b - x
      BY <1>2, <2>1
  <2>3. QED BY <1>3, <2>1, <2>2
<1>5. QED BY <1>4

-----------------------------------------------------------------------------
(* The least and the greatest of a set (Min and Max).                      *)

LEMMA MinIsLeast ==
    ASSUME NEW S \in SUBSET Nat, S # {}
    PROVE  Min(S) \in S /\ \A y \in S : Min(S) <= y
BY LeastOfNaturals DEF Min

LEMMA MaxIsGreatest ==
    ASSUME NEW S \in SUBSET Nat, S # {}, NEW b \in Nat, \A x \in S : x <= b
    PROVE  Max(S) \in S /\ \A y \in S : y <= Max(S)
<1>1. S \in SUBSET (0..b)
    OBVIOUS
<1>2. \E x \in S : \A y \in S : y <= x
    BY <1>1, GreatestOfNaturals
<1>3. \E x \in S : \A y \in S : x >= y
    BY <1>2
<1>4. QED BY <1>3 DEF Max

LEMMA OfPair ==
    ASSUME NEW a \in Int, NEW b \in Int
    PROVE  /\ Min({a, b}) = IF a <= b THEN a ELSE b
           /\ Max({a, b}) = IF a <= b THEN b ELSE a
<1> DEFINE S == {a, b}
<1>1. (\E x \in S : \A y \in S : x <= y) /\ \E x \in S : \A y \in S : x >= y
    OBVIOUS
<1>2. Min(S) \in S /\ \A y \in S : Min(S) <= y
  <2> HIDE DEF S
  <2>1. QED BY <1>1 DEF Min
<1>3. Max(S) \in S /\ \A y \in S : Max(S) >= y
  <2> HIDE DEF S
  <2>1. QED BY <1>1 DEF Max
<1>4. QED BY <1>2, <1>3

-----------------------------------------------------------------------------
(* The recursion behind a sum.                                             *)

Picked(s) == CHOOSE x \in s : TRUE

\* g holds the partial sums of f over the subsets of S.
PartialSums(f, S, g) ==
    g = [s \in SUBSET S |-> IF s = {} THEN 0 ELSE f[Picked(s)] + g[s \ {Picked(s)}]]

LEMMA SumIsPartialSum ==
    ASSUME NEW f, NEW S
    PROVE  SumFunctionOnSet(f, S) = (CHOOSE g : PartialSums(f, S, g))[S]
BY DEF SumFunctionOnSet, FoldFunctionOnSet, MapThenFoldSet, PartialSums, Picked

LEMMA PickedIsMember ==
    ASSUME NEW s, s # {}
    PROVE  Picked(s) \in s
BY DEF Picked

\* Two such functions agree where both are defined.
LEMMA PartialSumsAgree ==
    ASSUME NEW f, NEW S, IsFiniteSet(S),
           NEW S1 \in SUBSET S, NEW S2 \in SUBSET S,
           NEW g1, PartialSums(f, S1, g1), NEW g2, PartialSums(f, S2, g2),
           NEW s, s \in SUBSET S1, s \in SUBSET S2
    PROVE  g1[s] = g2[s]
<1> DEFINE C == {T \in SUBSET S : T \subseteq S1 /\ T \subseteq S2 /\ g1[T] # g2[T]}
<1>1. SUFFICES ASSUME C # {} PROVE FALSE
    OBVIOUS
<1>2. C \in SUBSET SUBSET S
    OBVIOUS
<1>3. PICK T \in C : \A U \in C : U \subseteq T => U = T
  <2> HIDE DEF C
  <2>1. QED BY <1>1, <1>2, LeastSubset
<1>4. g1[T] = IF T = {} THEN 0 ELSE f[Picked(T)] + g1[T \ {Picked(T)}]
    BY DEF PartialSums
<1>5. g2[T] = IF T = {} THEN 0 ELSE f[Picked(T)] + g2[T \ {Picked(T)}]
    BY DEF PartialSums
<1>6. T # {}
    BY <1>4, <1>5
<1>7. Picked(T) \in T
    BY <1>6, PickedIsMember
<1>8. g1[T \ {Picked(T)}] = g2[T \ {Picked(T)}]
    BY <1>3, <1>7
<1>9. QED BY <1>4, <1>5, <1>6, <1>8

\* They exist, over every finite set.
LEMMA PartialSumsExist ==
    ASSUME NEW f, NEW S, IsFiniteSet(S)
    PROVE  \E g : PartialSums(f, S, g)
<1> DEFINE C == {T \in SUBSET S : ~ \E g : PartialSums(f, T, g)}
<1>1. SUFFICES ASSUME C # {} PROVE FALSE
    OBVIOUS
<1>2. C \in SUBSET SUBSET S
    OBVIOUS
<1>3. PICK T \in C : \A U \in C : U \subseteq T => U = T
  <2> HIDE DEF C
  <2>1. QED BY <1>1, <1>2, LeastSubset
<1> DEFINE part(U) == CHOOSE g : PartialSums(f, U, g)
           sum(U) == part(U)[U]
           g == [s \in SUBSET T |-> IF s = {} THEN 0 ELSE f[Picked(s)] + sum(s \ {Picked(s)})]
<1>4. ASSUME NEW U \in SUBSET T, U # T PROVE PartialSums(f, U, part(U))
  <2>1. \E h : PartialSums(f, U, h)
      BY <1>3, <1>4
  <2>2. QED BY <2>1
<1>5. ASSUME NEW U \in SUBSET T, U # T
      PROVE  sum(U) = IF U = {} THEN 0 ELSE f[Picked(U)] + sum(U \ {Picked(U)})
  <2>1. sum(U) = IF U = {} THEN 0 ELSE f[Picked(U)] + part(U)[U \ {Picked(U)}]
    <3> HIDE DEF part
    <3>1. QED BY <1>4, <1>5 DEF PartialSums
  <2>2. CASE U = {}
      BY <2>1, <2>2
  <2>3. CASE U # {}
    <3>1. Picked(U) \in U
        BY <2>3, PickedIsMember
    <3> DEFINE V == U \ {Picked(U)}
    <3>2. V \in SUBSET T /\ V # T /\ V \in SUBSET U
        BY <3>1
    <3>3. PartialSums(f, U, part(U)) /\ PartialSums(f, V, part(V))
      <4> HIDE DEF part, V
      <4>1. QED BY <1>4, <1>5, <3>2
    <3>4. part(U)[V] = part(V)[V]
      <4>1. T \subseteq S
          OBVIOUS
      <4>2. U \in SUBSET S /\ V \in SUBSET S
          BY <3>2, <4>1
      <4> HIDE DEF part, V
      <4>3. QED BY <3>2, <3>3, <4>2, PartialSumsAgree
    <3>5. QED BY <2>1, <2>3, <3>4
  <2>4. QED BY <2>2, <2>3
<1>6. \A U \in SUBSET T : U # T => sum(U) = g[U]
  <2> HIDE DEF sum
  <2>1. QED BY <1>5
<1>7. ASSUME NEW s \in SUBSET T, s # {} PROVE sum(s \ {Picked(s)}) = g[s \ {Picked(s)}]
  <2>1. Picked(s) \in s
      BY <1>7, PickedIsMember
  <2>2. s \ {Picked(s)} \in SUBSET T /\ s \ {Picked(s)} # T
      BY <2>1
  <2> HIDE DEF sum, g
  <2>3. QED BY <1>6, <2>2
<1>8. PartialSums(f, T, g)
  <2>1. \A s \in SUBSET T : (IF s = {} THEN 0 ELSE f[Picked(s)] + sum(s \ {Picked(s)}))
                              = (IF s = {} THEN 0 ELSE f[Picked(s)] + g[s \ {Picked(s)}])
    <3> HIDE DEF sum, g
    <3>1. QED BY <1>7
  <2>2. g = [s \in SUBSET T |-> IF s = {} THEN 0 ELSE f[Picked(s)] + g[s \ {Picked(s)}]]
    <3> HIDE DEF sum
    <3>1. QED BY <2>1
  <2> HIDE DEF g
  <2>3. QED BY <2>2 DEF PartialSums
<1>9. QED BY <1>3, <1>8

-----------------------------------------------------------------------------
(* Sums.                                                                   *)

LEMMA SumOfNone ==
    ASSUME NEW f
    PROVE  SumFunctionOnSet(f, {}) = 0
<1>1. \E g : PartialSums(f, {}, g)
    BY PartialSumsExist, FS_EmptySet
<1>2. PartialSums(f, {}, CHOOSE g : PartialSums(f, {}, g))
    BY <1>1
<1>3. QED BY <1>2, SumIsPartialSum DEF PartialSums

LEMMA SumOfSome ==
    ASSUME NEW f, NEW S, IsFiniteSet(S), S # {}
    PROVE  SumFunctionOnSet(f, S) = f[Picked(S)] + SumFunctionOnSet(f, S \ {Picked(S)})
<1> DEFINE part(U) == CHOOSE g : PartialSums(f, U, g)
           R == S \ {Picked(S)}
<1>1. Picked(S) \in S
    BY PickedIsMember
<1>2. IsFiniteSet(R) /\ R \in SUBSET S
    BY FS_Subset
<1>3. PartialSums(f, S, part(S)) /\ PartialSums(f, R, part(R))
  <2>1. (\E g : PartialSums(f, S, g)) /\ (\E g : PartialSums(f, R, g))
    <3> HIDE DEF R
    <3>1. QED BY <1>2, PartialSumsExist
  <2>2. QED BY <2>1
<1>4. part(S)[R] = part(R)[R]
  <2> HIDE DEF part, R
  <2>1. QED BY <1>2, <1>3, PartialSumsAgree
<1>5. part(S)[S] = f[Picked(S)] + part(S)[R]
  <2> HIDE DEF part
  <2>1. QED BY <1>3 DEF PartialSums
<1>6. SumFunctionOnSet(f, S) = part(S)[S] /\ SumFunctionOnSet(f, R) = part(R)[R]
    BY SumIsPartialSum
<1>7. QED BY <1>4, <1>5, <1>6

\* What is to be shown of the sums over the subsets of S holds if it holds
\* of a set whenever it holds of its proper subsets: here for three facts.

LEMMA SumType ==
    ASSUME NEW S, IsFiniteSet(S), NEW f, \A x \in S : f[x] \in Int
    PROVE  SumFunctionOnSet(f, S) \in Int
<1> DEFINE C == {T \in SUBSET S : SumFunctionOnSet(f, T) \notin Int}
<1>1. SUFFICES ASSUME C # {} PROVE FALSE
    OBVIOUS
<1>2. PICK T \in C : \A U \in C : U \subseteq T => U = T
  <2>1. C \in SUBSET SUBSET S
      OBVIOUS
  <2> HIDE DEF C
  <2>2. QED BY <1>1, <2>1, LeastSubset
<1>3. T # {}
    BY SumOfNone
<1>4. IsFiniteSet(T) /\ Picked(T) \in T
    BY <1>3, PickedIsMember, FS_Subset
<1>5. T \ {Picked(T)} \in SUBSET S /\ T \ {Picked(T)} \subseteq T /\ T \ {Picked(T)} # T
    BY <1>4
<1>6. SumFunctionOnSet(f, T \ {Picked(T)}) \in Int
    BY <1>2, <1>5
<1>7. f[Picked(T)] \in Int
    BY <1>4
<1>8. QED BY <1>3, <1>4, <1>6, <1>7, SumOfSome

LEMMA SumOfEqual ==
    ASSUME NEW S, IsFiniteSet(S), NEW f, NEW g, \A x \in S : f[x] = g[x]
    PROVE  SumFunctionOnSet(f, S) = SumFunctionOnSet(g, S)
<1> DEFINE C == {T \in SUBSET S : SumFunctionOnSet(f, T) # SumFunctionOnSet(g, T)}
<1>1. SUFFICES ASSUME C # {} PROVE FALSE
    OBVIOUS
<1>2. PICK T \in C : \A U \in C : U \subseteq T => U = T
  <2>1. C \in SUBSET SUBSET S
      OBVIOUS
  <2> HIDE DEF C
  <2>2. QED BY <1>1, <2>1, LeastSubset
<1>3. T # {}
    BY SumOfNone
<1>4. IsFiniteSet(T) /\ Picked(T) \in T
    BY <1>3, PickedIsMember, FS_Subset
<1>5. T \ {Picked(T)} \in SUBSET S /\ T \ {Picked(T)} \subseteq T /\ T \ {Picked(T)} # T
    BY <1>4
<1>6. SumFunctionOnSet(f, T \ {Picked(T)}) = SumFunctionOnSet(g, T \ {Picked(T)})
    BY <1>2, <1>5
<1>7. f[Picked(T)] = g[Picked(T)]
    BY <1>4
<1>8. QED BY <1>3, <1>4, <1>6, <1>7, SumOfSome

\* Any element can be split off.
LEMMA SumSplit ==
    ASSUME NEW S, IsFiniteSet(S), NEW f, \A x \in S : f[x] \in Int, NEW a \in S
    PROVE  SumFunctionOnSet(f, S) = f[a] + SumFunctionOnSet(f, S \ {a})
<1> DEFINE C == {T \in SUBSET S : \E b \in T :
                    SumFunctionOnSet(f, T) # f[b] + SumFunctionOnSet(f, T \ {b})}
<1>1. SUFFICES ASSUME C # {} PROVE FALSE
    OBVIOUS
<1>2. PICK T \in C : \A U \in C : U \subseteq T => U = T
  <2>1. C \in SUBSET SUBSET S
      OBVIOUS
  <2> HIDE DEF C
  <2>2. QED BY <1>1, <2>1, LeastSubset
<1>3. PICK b \in T : SumFunctionOnSet(f, T) # f[b] + SumFunctionOnSet(f, T \ {b})
    OBVIOUS
<1> DEFINE c == Picked(T)
           R == T \ {c}
           A == T \ {b}
           B == T \ {b, c}
<1>4. IsFiniteSet(T) /\ T \in SUBSET S /\ b \in T /\ c \in T
    BY PickedIsMember, FS_Subset
<1>5. SumFunctionOnSet(f, T) = f[c] + SumFunctionOnSet(f, R)
    BY <1>4, SumOfSome
<1>6. c # b
    BY <1>3, <1>5
<1>7. R \in SUBSET S /\ b \in R /\ R \subseteq T /\ R # T /\ R \ {b} = B
    BY <1>4, <1>6
<1>8. A \in SUBSET S /\ c \in A /\ A \subseteq T /\ A # T /\ A \ {c} = B
    BY <1>4, <1>6
<1>9. SumFunctionOnSet(f, R) = f[b] + SumFunctionOnSet(f, B)
    BY <1>2, <1>7
<1>10. SumFunctionOnSet(f, A) = f[c] + SumFunctionOnSet(f, B)
    BY <1>2, <1>8
<1>11. SumFunctionOnSet(f, B) \in Int /\ f[b] \in Int /\ f[c] \in Int
  <2>1. IsFiniteSet(B) /\ B \in SUBSET S
      BY <1>4, FS_Subset
  <2>2. \A x \in B : f[x] \in Int
      BY <2>1
  <2> HIDE DEF B
  <2>3. QED BY <1>4, <2>1, <2>2, SumType
<1>12. SumFunctionOnSet(f, T) = f[b] + SumFunctionOnSet(f, A)
  <2> HIDE DEF A, B, R, c
  <2>1. QED BY <1>5, <1>9, <1>10, <1>11
<1>13. QED BY <1>3, <1>12

\* One element more.
LEMMA SumAdd ==
    ASSUME NEW S, IsFiniteSet(S), NEW f, \A x \in S : f[x] \in Int,
           NEW a, a \notin S, f[a] \in Int
    PROVE  SumFunctionOnSet(f, S \cup {a}) = SumFunctionOnSet(f, S) + f[a]
<1> DEFINE T == S \cup {a}
<1>1. IsFiniteSet(T) /\ a \in T /\ T \ {a} = S /\ \A x \in T : f[x] \in Int
    BY FS_AddElement
<1>2. SumFunctionOnSet(f, T) = f[a] + SumFunctionOnSet(f, T \ {a})
  <2> HIDE DEF T
  <2>1. QED BY <1>1, SumSplit
<1>3. SumFunctionOnSet(f, S) \in Int
    BY SumType
<1>4. SumFunctionOnSet(f, T) = f[a] + SumFunctionOnSet(f, S)
  <2> HIDE DEF T
  <2>1. QED BY <1>1, <1>2
<1>5. QED BY <1>3, <1>4

\* A sum of two disjoint sets is the two sums.
LEMMA SumUnion ==
    ASSUME NEW S, IsFiniteSet(S), NEW f, \A x \in S : f[x] \in Int,
           NEW T \in SUBSET S
    PROVE  SumFunctionOnSet(f, S) = SumFunctionOnSet(f, T) + SumFunctionOnSet(f, S \ T)
<1> DEFINE Both(U) == SumFunctionOnSet(f, U) =
                          SumFunctionOnSet(f, U \cap T) + SumFunctionOnSet(f, U \ T)
           C == {U \in SUBSET S : ~Both(U)}
<1>1. SUFFICES ASSUME C # {} PROVE FALSE
  <2>1. ~(S \in C)
      BY <1>1
  <2>2. Both(S) /\ S \cap T = T
      BY <2>1
  <2>3. QED BY <2>2
<1>2. PICK U \in C : \A V \in C : V \subseteq U => V = U
  <2>1. C \in SUBSET SUBSET S
      OBVIOUS
  <2> HIDE DEF C
  <2>2. QED BY <1>1, <2>1, LeastSubset
<1>3. U \in SUBSET S /\ ~Both(U) /\ IsFiniteSet(U)
    BY FS_Subset
<1>4. U # {}
    BY <1>3, SumOfNone
<1>5. PICK a \in U : TRUE
    BY <1>4
<1> DEFINE V == U \ {a}
<1>6. V \in SUBSET S /\ V \subseteq U /\ V # U /\ IsFiniteSet(V)
    BY <1>3, <1>5, FS_Subset
<1>7. Both(V)
    BY <1>2, <1>6
<1>8. SumFunctionOnSet(f, U) = f[a] + SumFunctionOnSet(f, V)
    BY <1>3, <1>5, SumSplit
<1>9. /\ IsFiniteSet(U \cap T) /\ IsFiniteSet(U \ T) /\ U \cap T \in SUBSET S /\ U \ T \in SUBSET S
      /\ SumFunctionOnSet(f, V \cap T) \in Int /\ SumFunctionOnSet(f, V \ T) \in Int /\ f[a] \in Int
  <2>1. /\ IsFiniteSet(U \cap T) /\ IsFiniteSet(U \ T) /\ U \cap T \in SUBSET S /\ U \ T \in SUBSET S
        /\ IsFiniteSet(V \cap T) /\ IsFiniteSet(V \ T) /\ V \cap T \in SUBSET S /\ V \ T \in SUBSET S
      BY <1>3, <1>6, FS_Subset
  <2>2. (\A x \in V \cap T : f[x] \in Int) /\ (\A x \in V \ T : f[x] \in Int)
      BY <2>1
  <2> HIDE DEF V
  <2>3. QED BY <1>3, <1>5, <2>1, <2>2, SumType
<1>10. CASE a \in T
  <2>1. (U \cap T) \ {a} = V \cap T /\ U \ T = V \ T /\ a \in U \cap T
      BY <1>5, <1>10
  <2>2. SumFunctionOnSet(f, U \cap T) = f[a] + SumFunctionOnSet(f, V \cap T)
    <3>1. \A x \in U \cap T : f[x] \in Int
        BY <1>9
    <3>2. QED BY <1>9, <2>1, <3>1, SumSplit
  <2>3. SumFunctionOnSet(f, U \ T) = SumFunctionOnSet(f, V \ T)
      BY <2>1
  <2>4. Both(U)
    <3> HIDE DEF V
    <3>1. QED BY <1>7, <1>8, <1>9, <2>2, <2>3
  <2>5. QED BY <1>3, <2>4
<1>11. CASE a \notin T
  <2>1. (U \ T) \ {a} = V \ T /\ U \cap T = V \cap T /\ a \in U \ T
      BY <1>5, <1>11
  <2>2. SumFunctionOnSet(f, U \ T) = f[a] + SumFunctionOnSet(f, V \ T)
    <3>1. \A x \in U \ T : f[x] \in Int
        BY <1>9
    <3>2. QED BY <1>9, <2>1, <3>1, SumSplit
  <2>3. SumFunctionOnSet(f, U \cap T) = SumFunctionOnSet(f, V \cap T)
      BY <2>1
  <2>4. Both(U)
    <3> HIDE DEF V
    <3>1. QED BY <1>7, <1>8, <1>9, <2>2, <2>3
  <2>5. QED BY <1>3, <2>4
<1>12. QED BY <1>10, <1>11

\* A sum of what is not negative is not.
LEMMA SumNonNegative ==
    ASSUME NEW S, IsFiniteSet(S), NEW f, \A x \in S : f[x] \in Nat
    PROVE  SumFunctionOnSet(f, S) \in Nat
<1> DEFINE C == {T \in SUBSET S : SumFunctionOnSet(f, T) \notin Nat}
<1>1. SUFFICES ASSUME C # {} PROVE FALSE
    OBVIOUS
<1>2. PICK T \in C : \A U \in C : U \subseteq T => U = T
  <2>1. C \in SUBSET SUBSET S
      OBVIOUS
  <2> HIDE DEF C
  <2>2. QED BY <1>1, <2>1, LeastSubset
<1>3. T # {}
    BY SumOfNone
<1>4. IsFiniteSet(T) /\ Picked(T) \in T
    BY <1>3, PickedIsMember, FS_Subset
<1>5. T \ {Picked(T)} \in SUBSET S /\ T \ {Picked(T)} \subseteq T /\ T \ {Picked(T)} # T
    BY <1>4
<1>6. SumFunctionOnSet(f, T \ {Picked(T)}) \in Nat
    BY <1>2, <1>5
<1>7. f[Picked(T)] \in Nat
    BY <1>4
<1>8. QED BY <1>3, <1>4, <1>6, <1>7, SumOfSome

\* A sum of zeros and of ones.
LEMMA SumOfZeros ==
    ASSUME NEW S, IsFiniteSet(S), NEW f, \A x \in S : f[x] = 0
    PROVE  SumFunctionOnSet(f, S) = 0
<1> DEFINE C == {T \in SUBSET S : SumFunctionOnSet(f, T) # 0}
<1>1. SUFFICES ASSUME C # {} PROVE FALSE
    OBVIOUS
<1>2. PICK T \in C : \A U \in C : U \subseteq T => U = T
  <2>1. C \in SUBSET SUBSET S
      OBVIOUS
  <2> HIDE DEF C
  <2>2. QED BY <1>1, <2>1, LeastSubset
<1>3. T # {}
    BY SumOfNone
<1>4. IsFiniteSet(T) /\ Picked(T) \in T
    BY <1>3, PickedIsMember, FS_Subset
<1>5. T \ {Picked(T)} \in SUBSET S /\ T \ {Picked(T)} \subseteq T /\ T \ {Picked(T)} # T
    BY <1>4
<1>6. SumFunctionOnSet(f, T \ {Picked(T)}) = 0
    BY <1>2, <1>5
<1>7. f[Picked(T)] = 0
    BY <1>4
<1>8. QED BY <1>3, <1>4, <1>6, <1>7, SumOfSome

LEMMA SumOfOnes ==
    ASSUME NEW S, IsFiniteSet(S), NEW f, \A x \in S : f[x] = 1
    PROVE  SumFunctionOnSet(f, S) = Cardinality(S)
<1> DEFINE C == {T \in SUBSET S : SumFunctionOnSet(f, T) # Cardinality(T)}
<1>1. SUFFICES ASSUME C # {} PROVE FALSE
    OBVIOUS
<1>2. PICK T \in C : \A U \in C : U \subseteq T => U = T
  <2>1. C \in SUBSET SUBSET S
      OBVIOUS
  <2> HIDE DEF C
  <2>2. QED BY <1>1, <2>1, LeastSubset
<1>3. T # {}
    BY SumOfNone, FS_EmptySet
<1>4. IsFiniteSet(T) /\ Picked(T) \in T
    BY <1>3, PickedIsMember, FS_Subset
<1>5. T \ {Picked(T)} \in SUBSET S /\ T \ {Picked(T)} \subseteq T /\ T \ {Picked(T)} # T
    BY <1>4
<1>6. SumFunctionOnSet(f, T \ {Picked(T)}) = Cardinality(T \ {Picked(T)})
    BY <1>2, <1>5
<1>7. f[Picked(T)] = 1
    BY <1>4
<1>8. Cardinality(T \ {Picked(T)}) = Cardinality(T) - 1 /\ Cardinality(T) \in Nat
    BY <1>4, FS_RemoveElement, FS_CardinalityType
<1>9. QED BY <1>3, <1>4, <1>6, <1>7, <1>8, SumOfSome

-----------------------------------------------------------------------------
(* Linear combinations, counting, and whole-number arithmetic.             *)

Linear(S, h, c, f, g) ==
    \A x \in S : f[x] \in Int /\ g[x] \in Int /\ h[x] = c * f[x] + g[x]

\* A sum is linear in its terms, ...
LEMMA SumLinear ==
    ASSUME NEW S, IsFiniteSet(S), NEW c \in Int, NEW f, NEW g, NEW h, Linear(S, h, c, f, g)
    PROVE  SumFunctionOnSet(h, S) = c * SumFunctionOnSet(f, S) + SumFunctionOnSet(g, S)
<1> DEFINE C == {T \in SUBSET S : SumFunctionOnSet(h, T) #
                                      c * SumFunctionOnSet(f, T) + SumFunctionOnSet(g, T)}
<1>1. SUFFICES ASSUME C # {} PROVE FALSE
    OBVIOUS
<1>2. PICK T \in C : \A U \in C : U \subseteq T => U = T
    <2>1. C \in SUBSET SUBSET S
        OBVIOUS
    <2> HIDE DEF C
    <2> QED
        BY <1>1, <2>1, LeastSubset
<1>3. T # {}
    <2>1. SumFunctionOnSet(h, {}) = 0 /\ SumFunctionOnSet(f, {}) = 0 /\ SumFunctionOnSet(g, {}) = 0
        BY SumOfNone
    <2>2. SumFunctionOnSet(h, {}) = c * SumFunctionOnSet(f, {}) + SumFunctionOnSet(g, {})
        BY <2>1
    <2> QED
        BY <1>2, <2>2
<1>4. PICK a \in T : TRUE
    BY <1>3
<1> DEFINE R == T \ {a}
<1>5. IsFiniteSet(T) /\ IsFiniteSet(R) /\ T \in SUBSET S /\ R \in SUBSET S /\ a \in S
    BY <1>2, <1>4, FS_Subset
<1>6. h[a] = c * f[a] + g[a] /\ h[a] \in Int /\ f[a] \in Int /\ g[a] \in Int
    BY <1>5 DEF Linear
<1>7. \A x \in S : f[x] \in Int /\ g[x] \in Int /\ h[x] \in Int
    BY DEF Linear
<1>8. /\ SumFunctionOnSet(h, T) = h[a] + SumFunctionOnSet(h, R)
      /\ SumFunctionOnSet(f, T) = f[a] + SumFunctionOnSet(f, R)
      /\ SumFunctionOnSet(g, T) = g[a] + SumFunctionOnSet(g, R)
    BY <1>4, <1>5, <1>7, SumSplit
<1>9. SumFunctionOnSet(f, R) \in Int /\ SumFunctionOnSet(g, R) \in Int
    BY <1>5, <1>7, SumType
<1>10. SumFunctionOnSet(h, R) = c * SumFunctionOnSet(f, R) + SumFunctionOnSet(g, R)
    <2>1. R \notin C
        BY <1>2, <1>4
    <2> QED
        BY <1>5, <2>1
<1>11. SumFunctionOnSet(h, T) = c * SumFunctionOnSet(f, T) + SumFunctionOnSet(g, T)
    <2> DEFINE u == SumFunctionOnSet(f, R)
               v == SumFunctionOnSet(g, R)
    <2>1. u \in Int /\ v \in Int /\ SumFunctionOnSet(h, R) = c * u + v
        BY <1>9, <1>10
    <2> HIDE DEF u, v
    <2>2. (c * f[a] + g[a]) + (c * u + v) = c * (f[a] + u) + (g[a] + v)
        BY <1>6, <2>1
    <2> QED
        BY <1>6, <1>8, <2>1, <2>2 DEF u, v
<1> QED
    BY <1>2, <1>11

\* ... and grows with them.
LEMMA SumMonotone ==
    ASSUME NEW S, IsFiniteSet(S), NEW f, NEW g,
           \A x \in S : f[x] \in Int /\ g[x] \in Int /\ f[x] <= g[x]
    PROVE  SumFunctionOnSet(f, S) <= SumFunctionOnSet(g, S)
<1> DEFINE d == [x \in S |-> g[x] - f[x]]
<1>1. Linear(S, g, 1, f, d)
    BY DEF Linear
<1>4. \A x \in S : d[x] \in Nat
    OBVIOUS
<1> HIDE DEF d
<1>2. SumFunctionOnSet(g, S) = 1 * SumFunctionOnSet(f, S) + SumFunctionOnSet(d, S)
    BY <1>1, SumLinear
<1>3. SumFunctionOnSet(d, S) \in Nat /\ SumFunctionOnSet(f, S) \in Int
    BY <1>1, <1>4, SumNonNegative, SumType
<1> QED
    BY <1>2, <1>3

LEMMA SumOfConstant ==
    ASSUME NEW S, IsFiniteSet(S), NEW c \in Int, NEW f, \A x \in S : f[x] = c
    PROVE  SumFunctionOnSet(f, S) = c * Cardinality(S)
<1> DEFINE one == [x \in S |-> 1]
           zero == [x \in S |-> 0]
<1>1. \A x \in S : one[x] = 1 /\ zero[x] = 0
    OBVIOUS
<1>5. Linear(S, f, c, one, zero)
    BY DEF Linear
<1> HIDE DEF one, zero
<1>2. SumFunctionOnSet(f, S) = c * SumFunctionOnSet(one, S) + SumFunctionOnSet(zero, S)
    BY <1>5, SumLinear
<1>3. SumFunctionOnSet(one, S) = Cardinality(S) /\ SumFunctionOnSet(zero, S) = 0
    BY <1>1, SumOfOnes, SumOfZeros
<1>4. Cardinality(S) \in Nat
    BY FS_CardinalityType
<1> QED
    BY <1>2, <1>3, <1>4

\* A sum of ones over some and zeros over the others counts the some.
LEMMA SumCounts ==
    ASSUME NEW S, IsFiniteSet(S), NEW T \in SUBSET S, NEW f,
           \A x \in S : f[x] = IF x \in T THEN 1 ELSE 0
    PROVE  SumFunctionOnSet(f, S) = Cardinality(T)
<1>1. IsFiniteSet(T) /\ IsFiniteSet(S \ T)
    BY FS_Subset
<1>2. \A x \in S : f[x] \in Int
    OBVIOUS
<1>3. SumFunctionOnSet(f, S) = SumFunctionOnSet(f, T) + SumFunctionOnSet(f, S \ T)
    BY <1>2, SumUnion
<1>4. \A x \in T : f[x] = 1
    OBVIOUS
<1>5. \A x \in S \ T : f[x] = 0
    OBVIOUS
<1>6. SumFunctionOnSet(f, T) = Cardinality(T)
    BY <1>1, <1>4, SumOfOnes
<1>7. SumFunctionOnSet(f, S \ T) = 0
    BY <1>1, <1>5, SumOfZeros
<1>8. Cardinality(T) \in Nat
    BY <1>1, FS_CardinalityType
<1> QED
    BY <1>3, <1>6, <1>7, <1>8

LEMMA Cancel ==
    ASSUME NEW W \in Nat, W > 0, NEW a \in Int, NEW b \in Int, W * a < W * b
    PROVE  a < b
<1> SUFFICES ASSUME b <= a PROVE FALSE
    OBVIOUS
<1>1. PICK d \in Nat : a = b + d
    OBVIOUS
<1>2. W * a = W * b + W * d /\ W * d >= 0
    BY <1>1
<1>3. W * a \in Int /\ W * b \in Int /\ W * d \in Int
    OBVIOUS
<1> QED
    BY <1>2, <1>3

LEMMA NatDivision ==
    ASSUME NEW a \in Nat, NEW W \in Nat, W > 0
    PROVE  /\ a \div W \in Nat /\ a % W \in 0..(W - 1)
           /\ a = W * (a \div W) + (a % W)
OBVIOUS

LEMMA Fraction ==
    ASSUME NEW a \in Nat, NEW f \in 0..99
    PROVE  (a * f) \div 100 \in 0..a
<1>1. a * f \in Nat /\ a * f <= 100 * a
    OBVIOUS
<1> QED
    BY <1>1

\* A one-to-one image of a finite set is as large.
LEMMA SameSize ==
    ASSUME NEW S, NEW T, NEW f \in [S -> T], IsFiniteSet(S),
           \A x, y \in S : f[x] = f[y] => x = y,
           \A y \in T : \E x \in S : f[x] = y
    PROVE  IsFiniteSet(T) /\ Cardinality(T) = Cardinality(S)
<1>1. f \in Bijection(S, T)
    BY DEF Bijection, Injection, Surjection, IsInjective
<1> QED
    BY <1>1, FS_Bijection DEF ExistsBijection

LEMMA SameMultiple ==
    ASSUME NEW a \in Nat, NEW b \in Nat, NEW n \in Nat, n > 0, a % n = 0, b % n = 0,
           a < b + n, b < a + n
    PROVE  a = b
<1> DEFINE u == a \div n
           v == b \div n
<1>1. u \in Nat /\ v \in Nat /\ a = n * u /\ b = n * v
    <2>1. a = n * u + 0 /\ b = n * v + 0 /\ u \in Nat /\ v \in Nat
        BY NatDivision
    <2> HIDE DEF u, v
    <2> QED
        BY <2>1
<1> HIDE DEF u, v
<1>2. ~(u < v)
    <2> SUFFICES ASSUME u < v PROVE FALSE
        OBVIOUS
    <2>1. PICK d \in Nat : v = u + 1 + d
        <3>1. v - u - 1 \in Nat /\ v = u + 1 + (v - u - 1)
            BY <1>1
        <3> QED
            BY <3>1
    <2>2. n * v = n * u + n + n * d /\ n * d \in Nat
        BY <1>1, <2>1
    <2> QED
        BY <1>1, <2>2
<1>3. ~(v < u)
    <2> SUFFICES ASSUME v < u PROVE FALSE
        OBVIOUS
    <2>1. PICK d \in Nat : u = v + 1 + d
        <3>1. u - v - 1 \in Nat /\ u = v + 1 + (u - v - 1)
            BY <1>1
        <3> QED
            BY <3>1
    <2>2. n * u = n * v + n + n * d /\ n * d \in Nat
        BY <1>1, <2>1
    <2> QED
        BY <1>1, <2>2
<1> QED
    BY <1>1, <1>2, <1>3

LEMMA MultipleOf ==
    ASSUME NEW q \in Nat, NEW n \in Nat, n > 0
    PROVE  (n * q) % n = 0
<1> DEFINE a == n * q
           m == a \div n
           r == a % n
<1>1. a \in Nat
    OBVIOUS
<1>2. m \in Nat /\ r \in 0..(n - 1) /\ a = n * m + r
    <2> HIDE DEF a
    <2> QED
        BY <1>1, NatDivision
<1>3. n * q = n * m + r
    BY <1>2
<1> HIDE DEF a, m, r
<1>4. n * (q - m) = r
    <2>1. n * (q - m) = n * q - n * m /\ n * q \in Nat /\ n * m \in Nat
        BY <1>2
    <2> QED
        BY <1>2, <1>3, <2>1
<1>5. n * (q - m) < n * 1
    BY <1>2, <1>4
<1>6. q - m < 1
    BY <1>2, <1>5, Cancel
<1>7. n * (-1) < n * (q - m)
    BY <1>2, <1>4
<1>8. -1 < q - m
    BY <1>2, <1>7, Cancel
<1>9. q - m = 0
    BY <1>2, <1>6, <1>8
<1> QED
    BY <1>2, <1>4, <1>9 DEF a, r
===============================================================================
