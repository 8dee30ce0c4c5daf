--------------------------- MODULE WebLoad_proofs ---------------------------
(* Why runs over one database fit together, whatever number of workers each *)
(* had: a purchase among the K least of all is among the K least of its      *)
(* shard, so the sample is the same in all of them, and so are the rows;     *)
(* a table is written from its first row on, or not at all; the page views   *)
(* of one run only are ever stored, in bands of ids that do not meet; and    *)
(* when the workers are done, each has stored all of its own, and what they  *)
(* counted is what they stored.                                              *)
EXTENDS WebLoad, Sums, TLAPS

-----------------------------------------------------------------------------
(* The K least of a finite set of numbers.                                 *)

LEMMA SalesFinite == NumSales \in Nat /\ IsFiniteSet(Sales) /\ Sales \subseteq 0..NumSales
  BY CaptureAssumption, FS_Interval DEF CaptureAssumption, Sales

LEMMA SetOfSales ==
    ASSUME NEW S \in SUBSET Sales
    PROVE  IsFiniteSet(S) /\ Cardinality(S) \in Nat
  BY SalesFinite, FS_Subset, FS_CardinalityType

\* Worst is the greatest of a reservoir that holds something.
LEMMA WorstIsGreatest ==
    ASSUME NEW S \in SUBSET Sales, S # {}
    PROVE  Worst(S) \in S /\ \A y \in S : y <= Worst(S)
<1>1. \E x \in S : \A y \in S : y <= x
    BY GreatestOfNaturals, SalesFinite
<1>2. \E x \in S : \A y \in S : x >= y
    BY <1>1, SalesFinite
<1>3. QED BY <1>2, SalesFinite DEF Worst, Max

\* reservoirConsider keeps the least of what it has seen.
LEMMA ConsiderKeepsLeast ==
    ASSUME NEW seen \in SUBSET Sales, NEW kept, NEW s \in Sales \ seen,
           IsBottom(kept, seen)
    PROVE  IsBottom(Consider(kept, s), seen \cup {s})
<1> DEFINE k == Cardinality(kept)
<1>1. kept \in SUBSET Sales /\ IsFiniteSet(kept) /\ k \in Nat /\ K \in Nat \ {0}
    BY SetOfSales, CaptureAssumption DEF IsBottom, CaptureAssumption
<1>2. s \notin kept /\ \A x \in Sales : x \in Nat
    BY SalesFinite DEF IsBottom
<1>3. CASE k < K
  <2>1. Consider(kept, s) = kept \cup {s} /\ kept = seen
    BY <1>1, <1>3 DEF Consider, IsBottom
  <2>2. Cardinality(kept \cup {s}) = k + 1
    BY <1>1, <1>2, FS_AddElement
  <2>3. QED BY <1>1, <1>3, <2>1, <2>2 DEF IsBottom
<1>4. CASE ~(k < K)
  <2>1. k = K
    BY <1>1, <1>4 DEF IsBottom
  <2>2. kept # {}
    BY <1>1, <2>1, FS_EmptySet
  <2>3. Worst(kept) \in kept /\ \A y \in kept : y <= Worst(kept)
    BY <1>1, <2>2, WorstIsGreatest
  <2>4. CASE Worst(kept) > s
    <3> DEFINE rest == kept \ {Worst(kept)}
    <3>1. Consider(kept, s) = rest \cup {s}
      BY <2>4, <1>4 DEF Consider
    <3>2. IsFiniteSet(rest) /\ Cardinality(rest) = k - 1
      BY <1>1, <2>3, FS_RemoveElement
    <3>3. Cardinality(rest \cup {s}) = K
      <4>1. s \notin rest
        BY <1>2
      <4>2. Cardinality(rest \cup {s}) = Cardinality(rest) + 1
        <5> HIDE DEF rest
        <5>1. QED BY <3>2, <4>1, FS_AddElement
      <4>3. QED BY <1>1, <2>1, <3>2, <4>2
    <3>4. \A x \in rest \cup {s}, t \in (seen \cup {s}) \ (rest \cup {s}) : x < t
      <4> TAKE x \in rest \cup {s}, t \in (seen \cup {s}) \ (rest \cup {s})
      <4>1. x \in Nat /\ t \in Nat /\ s \in Nat /\ Worst(kept) \in Nat
        BY <1>1, <1>2, <2>3
      <4>2. x \in kept \ {Worst(kept)} \/ x = s
        OBVIOUS
      <4>3. CASE t \in kept
        BY <2>3, <2>4, <4>1, <4>2, <4>3
      <4>4. CASE t \in seen \ kept
        BY <2>3, <2>4, <4>1, <4>2, <4>4 DEF IsBottom
      <4>5. QED BY <4>3, <4>4
    <3>5. rest \cup {s} \subseteq seen \cup {s}
      BY DEF IsBottom
    <3>6. QED BY <1>1, <3>1, <3>3, <3>4, <3>5 DEF IsBottom
  <2>5. CASE ~(Worst(kept) > s)
    <3>1. Consider(kept, s) = kept
      BY <2>5, <1>4 DEF Consider
    <3>2. \A x \in kept : x < s
      BY <1>1, <1>2, <2>3, <2>5
    <3>3. QED BY <1>1, <2>1, <3>1, <3>2 DEF IsBottom
  <2>6. QED BY <2>4, <2>5
<1>5. QED BY <1>3, <1>4

\* A set has one sample: nothing of it is left to the order or to chance.
LEMMA OneSample ==
    ASSUME NEW S \in SUBSET Sales, NEW a, NEW b, IsBottom(a, S), IsBottom(b, S)
    PROVE  a = b
<1>1. /\ a \in SUBSET S /\ b \in SUBSET S /\ a \in SUBSET Sales /\ b \in SUBSET Sales
      /\ IsFiniteSet(a) /\ IsFiniteSet(b) /\ IsFiniteSet(S)
      /\ Cardinality(a) \in Nat /\ Cardinality(b) \in Nat /\ K \in Nat
    BY SetOfSales, CaptureAssumption DEF IsBottom, CaptureAssumption
<1>2. CASE a = S
    BY <1>1, <1>2, FS_Subset DEF IsBottom
<1>3. CASE b = S
    BY <1>1, <1>3, FS_Subset DEF IsBottom
<1>4. CASE a # S /\ b # S
  <2>1. Cardinality(a) = Cardinality(b)
    BY <1>4 DEF IsBottom
  <2>2. SUFFICES ASSUME a # b PROVE FALSE
    OBVIOUS
  <2>3. PICK x \in a : x \notin b
    BY <1>1, <2>1, <2>2, FS_Subset
  <2>4. PICK y \in b : y \notin a
    BY <1>1, <2>1, <2>2, FS_Subset
  <2>5. x < y /\ y < x
    BY <1>1, <2>3, <2>4 DEF IsBottom
  <2>6. QED BY <1>1, <2>3, <2>4, <2>5, SalesFinite
<1>5. QED BY <1>2, <1>3, <1>4

\* The least of what the shards kept are the least of what they saw.
LEMMA LeastOfLeast ==
    ASSUME NEW W, NEW seen \in [W -> SUBSET Sales], NEW kept \in [W -> SUBSET Sales],
           \A w \in W : IsBottom(kept[w], seen[w]),
           NEW r, IsBottom(r, UNION {kept[w] : w \in W})
    PROVE  IsBottom(r, UNION {seen[w] : w \in W})
<1> DEFINE All == UNION {seen[w] : w \in W}
           Some == UNION {kept[w] : w \in W}
<1>1. r \subseteq Some /\ Some \subseteq All /\ All \subseteq Sales
    BY DEF IsBottom
<1>2. /\ IsFiniteSet(r) /\ Cardinality(r) \in Nat /\ K \in Nat
      /\ \A w \in W : IsFiniteSet(kept[w]) /\ Cardinality(kept[w]) \in Nat
    BY <1>1, SetOfSales, CaptureAssumption DEF CaptureAssumption
<1>3. ASSUME NEW w \in W, kept[w] # seen[w], kept[w] \subseteq r
      PROVE  r = kept[w] /\ Cardinality(r) = K
  <2>1. Cardinality(kept[w]) = K
    BY <1>3 DEF IsBottom
  <2>2. Cardinality(kept[w]) <= Cardinality(r) /\ Cardinality(r) <= K
    BY <1>2, <1>3, FS_Subset DEF IsBottom
  <2>3. QED BY <1>2, <1>3, <2>1, <2>2, FS_Subset
<1>4. r = All \/ Cardinality(r) = K
  <2>1. CASE \A w \in W : kept[w] = seen[w]
    BY <2>1 DEF IsBottom
  <2>2. CASE \E w \in W : kept[w] # seen[w]
    <3>1. PICK w \in W : kept[w] # seen[w]
      BY <2>2
    <3>2. kept[w] \subseteq r \/ Cardinality(r) = K
      BY DEF IsBottom
    <3>3. QED BY <1>3, <3>1, <3>2
  <2>3. QED BY <2>1, <2>2
<1>5. ASSUME NEW s \in r, NEW t \in All \ r
      PROVE  s < t
  <2>1. PICK w \in W : t \in seen[w]
    OBVIOUS
  <2>2. CASE t \in kept[w]
    BY <1>5, <2>2 DEF IsBottom
  <2>3. CASE t \notin kept[w]
    <3>1. \A u \in kept[w] : u < t
      BY <2>1, <2>3 DEF IsBottom
    <3>2. CASE kept[w] \subseteq r
      BY <1>3, <2>1, <2>3, <3>1, <3>2
    <3>3. CASE ~(kept[w] \subseteq r)
      <4>1. PICK u \in kept[w] : u \notin r
        BY <3>3
      <4>2. s < u
        BY <4>1 DEF IsBottom
      <4>3. u < t /\ s \in Nat /\ u \in Nat /\ t \in Nat
        BY <1>1, <3>1, <4>1, SalesFinite
      <4>4. QED BY <4>2, <4>3
    <3>4. QED BY <3>2, <3>3
  <2>4. QED BY <2>2, <2>3
<1>6. QED BY <1>1, <1>4, <1>5 DEF IsBottom

-----------------------------------------------------------------------------
(* The invariant of the capture.                                           *)

\* What worker w was dealt and has replayed, of customer c's purchases.
Seen(w, c) == {s \in PurchasesOf(c) : w < workers /\ s \in Shard(w, workers) \ unread[w]}

\* A worker that has not failed keeps the least of what it has seen.
ShardsOK ==
    \A w \in WorkerIds :
        /\ unread[w] \subseteq Shard(w, workers)
        /\ w \notin broken => \A c \in Reviewers : IsBottom(local[w][c], Seen(w, c))

\* What the merge relies on once it has started.
MergeOK ==
    /\ broken = {}
    /\ \A w \in WorkerIds : unread[w] = {}
    /\ \A c \in Reviewers : offered[c] \subseteq Kept(c) /\ IsBottom(reservoir[c], offered[c])

\* The types the samples rest on (the counts are sums, which the checker adds up).
SampleTypeOK ==
    /\ stage \in {"idle", "capturing", "merging", "merged", "failed"}
    /\ workers \in 1..MaxWorkers
    /\ unread \in [WorkerIds -> SUBSET Sales]
    /\ local \in [WorkerIds -> [Reviewers -> SUBSET Sales]]
    /\ broken \subseteq WorkerIds
    /\ offered \in [Reviewers -> SUBSET Sales]
    /\ reservoir \in [Reviewers -> SUBSET Sales]

CaptureInv ==
    /\ SampleTypeOK
    /\ stage = "idle" => /\ broken = {}
                        /\ local = [w \in WorkerIds |-> NoSamples]
                        /\ reservoir = NoSamples
    /\ stage = "capturing" => ShardsOK
    /\ stage = "merging" => ShardsOK /\ MergeOK
    /\ SampleIsGlobal

LEMMA EmptySample == IsBottom({}, {})
  BY FS_EmptySet, CaptureAssumption DEF IsBottom, CaptureAssumption

LEMMA IdleInv == Idle => CaptureInv
<1> SUFFICES ASSUME Idle PROVE CaptureInv
    OBVIOUS
<1>1. SampleTypeOK
    BY CaptureAssumption DEF Idle, SampleTypeOK, NoSamples, NoCounts, CaptureAssumption
<1>2. QED BY <1>1 DEF Idle, CaptureInv, SampleIsGlobal

LEMMA ForgetInv == Forget => CaptureInv'
<1> SUFFICES ASSUME Forget PROVE CaptureInv'
    OBVIOUS
<1>1. SampleTypeOK'
    BY CaptureAssumption DEF Forget, SampleTypeOK, NoSamples, NoCounts, CaptureAssumption
<1>2. QED BY <1>1 DEF Forget, CaptureInv, SampleIsGlobal

\* Every sale is dealt to a worker, and to one only.
LEMMA Dealt ==
    ASSUME workers \in 1..MaxWorkers, NEW s \in Sales
    PROVE  \E w \in WorkerIds : w < workers /\ s \in Shard(w, workers)
<1>1. ShopOf[s] \in Nat /\ ShopOf[s] >= 1 /\ workers \in Nat \ {0} /\ MaxWorkers \in Nat
    BY CaptureAssumption DEF CaptureAssumption
<1>2. (ShopOf[s] - 1) % workers \in 0..(workers - 1)
    BY <1>1
<1>3. QED BY <1>1, <1>2 DEF WorkerIds, Shard

LEMMA TypeStep ==
    ASSUME SampleTypeOK, CaptureNext
    PROVE  SampleTypeOK'
<1> USE DEF SampleTypeOK
<1>1. ASSUME NEW n \in 1..MaxWorkers, StartCapture(n) PROVE SampleTypeOK'
    BY <1>1 DEF StartCapture, Shard
<1>2. ASSUME NEW w \in WorkerIds, ReplayError(w) PROVE SampleTypeOK'
    BY <1>2 DEF ReplayError
<1>3. ASSUME NEW w \in WorkerIds, NEW s \in Sales, CaptureSale(w, s) PROVE SampleTypeOK'
  <2>1. unread' \in [WorkerIds -> SUBSET Sales]
    BY <1>3 DEF CaptureSale
  <2>2. CASE IsPurchase(s)
    <3> DEFINE c == CustomerOf[s]
    <3>1. c \in Reviewers /\ local[w][c] \in SUBSET Sales
      BY <2>2 DEF IsPurchase
    <3>2. Consider(local[w][c], s) \in SUBSET Sales
      BY <3>1 DEF Consider
    <3>3. local' = [local EXCEPT ![w][c] = Consider(@, s)]
      BY <1>3, <2>2 DEF CaptureSale
    <3>4. local' \in [WorkerIds -> [Reviewers -> SUBSET Sales]]
      <4> HIDE DEF c
      <4>1. QED BY <3>1, <3>2, <3>3
    <3>5. QED BY <1>3, <2>1, <3>4 DEF CaptureSale
  <2>3. CASE ~IsPurchase(s)
    BY <1>3, <2>1, <2>3 DEF CaptureSale
  <2>4. QED BY <2>2, <2>3
<1>4. ASSUME AwaitWorkers PROVE SampleTypeOK'
    BY <1>4 DEF AwaitWorkers, NoSamples
<1>5. ASSUME NEW c \in Reviewers, NEW s \in Sales, MergeSale(c, s) PROVE SampleTypeOK'
  <2>1. Consider(reservoir[c], s) \in SUBSET Sales
    BY DEF Consider
  <2>2. QED BY <1>5, <2>1 DEF MergeSale
<1>6. ASSUME FinishMerge PROVE SampleTypeOK'
    BY <1>6 DEF FinishMerge
<1>7. QED BY <1>1, <1>2, <1>3, <1>4, <1>5, <1>6 DEF CaptureNext

LEMMA StartStep ==
    ASSUME CaptureInv, NEW n \in 1..MaxWorkers, StartCapture(n)
    PROVE  ShardsOK'
<1> SUFFICES ASSUME NEW w \in WorkerIds
             PROVE  /\ unread'[w] \subseteq Shard(w, workers')
                    /\ \A c \in Reviewers : IsBottom(local'[w][c], Seen(w, c)')
    BY DEF ShardsOK, Shard
<1>1. unread'[w] \subseteq Shard(w, workers')
    BY DEF StartCapture
<1>2. ASSUME NEW c \in Reviewers
      PROVE  local'[w][c] = {} /\ Seen(w, c)' = {}
    BY DEF StartCapture, CaptureInv, NoSamples, Seen, PurchasesOf, Shard
<1>3. QED BY <1>1, <1>2, EmptySample

LEMMA SaleStep ==
    ASSUME CaptureInv, NEW v \in WorkerIds, NEW s \in Sales, CaptureSale(v, s)
    PROVE  ShardsOK'
<1>1. /\ SampleTypeOK /\ ShardsOK /\ s \in unread[v] /\ UNCHANGED <<workers, broken>>
      /\ unread' = [unread EXCEPT ![v] = @ \ {s}]
    BY DEF CaptureSale, CaptureInv
<1>2. s \in Shard(v, workers) /\ v < workers
  <2>1. s \in Shard(v, workers)
    BY <1>1 DEF ShardsOK
  <2>2. ShopOf[s] \in Nat /\ ShopOf[s] >= 1 /\ workers \in Nat \ {0}
    BY <1>1, CaptureAssumption DEF CaptureAssumption, SampleTypeOK
  <2>3. (ShopOf[s] - 1) % workers \in 0..(workers - 1)
    BY <2>2
  <2>4. QED BY <2>1, <2>2, <2>3 DEF Shard
<1>3. \A w \in WorkerIds : unread'[w] \subseteq Shard(w, workers')
    BY <1>1 DEF ShardsOK, SampleTypeOK, Shard
<1>4. ASSUME NEW w \in WorkerIds, NEW c \in Reviewers, w \notin broken
      PROVE  IsBottom(local'[w][c], Seen(w, c)')
  <2>1. IsBottom(local[w][c], Seen(w, c))
    BY <1>1, <1>4 DEF ShardsOK
  <2>2. CASE w = v /\ IsPurchase(s) /\ c = CustomerOf[s]
    <3>1. Seen(w, c)' = Seen(w, c) \cup {s} /\ s \notin Seen(w, c)
      BY <1>1, <1>2, <2>2 DEF Seen, PurchasesOf, Shard, IsPurchase, SampleTypeOK
    <3>2. local'[w][c] = Consider(local[w][c], s)
      BY <1>1, <2>2 DEF CaptureSale, SampleTypeOK
    <3>3. Seen(w, c) \in SUBSET Sales
      BY DEF Seen, PurchasesOf
    <3>4. QED BY <2>1, <3>1, <3>2, <3>3, ConsiderKeepsLeast
  <2>3. CASE ~(w = v /\ IsPurchase(s) /\ c = CustomerOf[s])
    <3>1. Seen(w, c)' = Seen(w, c)
      BY <1>1, <2>3 DEF Seen, PurchasesOf, Shard, IsPurchase, SampleTypeOK
    <3>2. local'[w][c] = local[w][c]
      BY <1>1, <2>3 DEF CaptureSale, SampleTypeOK
    <3>3. QED BY <2>1, <3>1, <3>2
  <2>4. QED BY <2>2, <2>3
<1>5. QED BY <1>1, <1>3, <1>4 DEF ShardsOK

\* What the shards keep is what they kept, while their state is left alone.
LEMMA SameShards ==
    ASSUME ShardsOK, UNCHANGED <<workers, unread, local, broken>>
    PROVE  ShardsOK'
  BY DEF ShardsOK, Seen, PurchasesOf, Shard, Sales

LEMMA MergeStep ==
    ASSUME CaptureInv, NEW c \in Reviewers, NEW s \in Sales, MergeSale(c, s)
    PROVE  MergeOK'
<1>1. SampleTypeOK /\ MergeOK
    BY DEF MergeSale, CaptureInv
<1>2. ASSUME NEW d \in Reviewers
      PROVE  offered'[d] \subseteq Kept(d)' /\ IsBottom(reservoir'[d], offered'[d])
  <2>1. Kept(d)' = Kept(d)
    BY DEF MergeSale, Kept, WorkerIds
  <2>2. CASE d = c
    <3>1. offered'[c] = offered[c] \cup {s} /\ reservoir'[c] = Consider(reservoir[c], s)
      BY <1>1 DEF MergeSale, SampleTypeOK
    <3>2. s \in Kept(c) /\ s \notin offered[c]
      BY DEF MergeSale
    <3>3. IsBottom(reservoir[c], offered[c]) /\ offered[c] \in SUBSET Sales
      BY <1>1 DEF MergeOK, SampleTypeOK
    <3>4. IsBottom(Consider(reservoir[c], s), offered[c] \cup {s})
      BY <3>2, <3>3, ConsiderKeepsLeast
    <3>5. QED BY <1>1, <2>1, <2>2, <3>1, <3>2, <3>4 DEF MergeOK
  <2>3. CASE d # c
    <3>1. offered'[d] = offered[d] /\ reservoir'[d] = reservoir[d]
      BY <1>1, <2>3 DEF MergeSale, SampleTypeOK
    <3>2. QED BY <1>1, <2>1, <3>1 DEF MergeOK
  <2>4. QED BY <2>2, <2>3
<1>3. broken' = {} /\ \A w \in WorkerIds : unread'[w] = {}
    BY <1>1 DEF MergeSale, MergeOK
<1>4. QED BY <1>2, <1>3 DEF MergeOK

LEMMA FinishStep ==
    ASSUME CaptureInv, FinishMerge, NEW c \in Reviewers
    PROVE  IsBottom(reservoir[c], PurchasesOf(c))
<1>1. SampleTypeOK /\ ShardsOK /\ MergeOK
    BY DEF FinishMerge, CaptureInv
<1> DEFINE seen == [w \in WorkerIds |-> Seen(w, c)]
           kept == [w \in WorkerIds |-> local[w][c]]
<1>2. seen \in [WorkerIds -> SUBSET Sales] /\ kept \in [WorkerIds -> SUBSET Sales]
    BY <1>1 DEF Seen, PurchasesOf, SampleTypeOK
<1>3. \A w \in WorkerIds : IsBottom(kept[w], seen[w])
    BY <1>1 DEF ShardsOK, MergeOK
<1>4. UNION {kept[w] : w \in WorkerIds} = offered[c]
    BY <1>1 DEF FinishMerge, MergeOK, Kept
<1>5. UNION {seen[w] : w \in WorkerIds} = PurchasesOf(c)
  <2>1. UNION {seen[w] : w \in WorkerIds} \subseteq PurchasesOf(c)
    BY DEF Seen
  <2>2. ASSUME NEW s \in PurchasesOf(c)
        PROVE  s \in UNION {seen[w] : w \in WorkerIds}
    <3>1. s \in Sales
      BY DEF PurchasesOf
    <3>2. PICK w \in WorkerIds : w < workers /\ s \in Shard(w, workers)
      BY <1>1, <3>1, Dealt DEF SampleTypeOK
    <3>3. s \in Seen(w, c)
      BY <1>1, <3>2 DEF Seen, MergeOK
    <3>4. QED BY <3>3
  <2>3. QED BY <2>1, <2>2
<1>6. IsBottom(reservoir[c], UNION {kept[w] : w \in WorkerIds})
    BY <1>1, <1>4 DEF MergeOK
<1>7. IsBottom(reservoir[c], UNION {seen[w] : w \in WorkerIds})
  <2> HIDE DEF seen, kept
  <2>1. QED BY <1>2, <1>3, <1>6, LeastOfLeast
<1>8. QED BY <1>5, <1>7

LEMMA CaptureStep == CaptureInv /\ CaptureNext => CaptureInv'
<1> SUFFICES ASSUME CaptureInv, CaptureNext PROVE CaptureInv'
    OBVIOUS
<1>1. SampleTypeOK'
    BY TypeStep DEF CaptureInv
<1>2. ASSUME NEW n \in 1..MaxWorkers, StartCapture(n) PROVE CaptureInv'
  <2>1. ShardsOK' /\ stage' = "capturing"
    BY <1>2, StartStep DEF StartCapture
  <2>2. QED BY <1>1, <2>1 DEF CaptureInv, SampleIsGlobal
<1>3. ASSUME NEW w \in WorkerIds, ReplayError(w) PROVE CaptureInv'
  <2>1. ShardsOK /\ SampleTypeOK
    BY <1>3 DEF ReplayError, CaptureInv
  <2>2. ASSUME NEW v \in WorkerIds, v \notin broken', NEW c \in Reviewers
        PROVE  IsBottom(local'[v][c], Seen(v, c)')
    <3>1. v # w /\ v \notin broken
      BY <1>3, <2>2 DEF ReplayError
    <3>2. Seen(v, c)' = Seen(v, c) /\ local'[v][c] = local[v][c]
      BY <1>3, <2>1, <3>1 DEF ReplayError, Seen, PurchasesOf, Shard, SampleTypeOK
    <3>3. QED BY <2>1, <3>1, <3>2 DEF ShardsOK
  <2>3. \A v \in WorkerIds : unread'[v] \subseteq Shard(v, workers')
    BY <1>3, <2>1 DEF ReplayError, ShardsOK, SampleTypeOK, Shard
  <2>4. ShardsOK' /\ stage' = "capturing"
    BY <1>3, <2>2, <2>3 DEF ShardsOK, ReplayError
  <2>5. QED BY <1>1, <2>4 DEF CaptureInv, SampleIsGlobal
<1>4. ASSUME NEW w \in WorkerIds, NEW s \in Sales, CaptureSale(w, s) PROVE CaptureInv'
  <2>1. ShardsOK' /\ stage' = "capturing"
    BY <1>4, SaleStep DEF CaptureSale
  <2>2. QED BY <1>1, <2>1 DEF CaptureInv, SampleIsGlobal
<1>5. ASSUME AwaitWorkers PROVE CaptureInv'
  <2>1. ShardsOK'
    BY <1>5, SameShards DEF AwaitWorkers, CaptureInv
  <2>2. CASE broken = {}
    <3>1. MergeOK'
      BY <1>5, <2>2, EmptySample DEF AwaitWorkers, MergeOK, NoSamples
    <3>2. stage' = "merging"
      BY <1>5, <2>2 DEF AwaitWorkers
    <3>3. QED BY <1>1, <2>1, <3>1, <3>2 DEF CaptureInv, SampleIsGlobal
  <2>3. CASE broken # {}
    <3>1. stage' = "failed"
      BY <1>5, <2>3 DEF AwaitWorkers
    <3>2. QED BY <1>1, <3>1 DEF CaptureInv, SampleIsGlobal
  <2>4. QED BY <2>2, <2>3
<1>6. ASSUME NEW c \in Reviewers, NEW s \in Sales, MergeSale(c, s) PROVE CaptureInv'
  <2>1. ShardsOK'
    BY <1>6, SameShards DEF MergeSale, CaptureInv
  <2>2. MergeOK' /\ stage' = "merging"
    BY <1>6, MergeStep DEF MergeSale
  <2>3. QED BY <1>1, <2>1, <2>2 DEF CaptureInv, SampleIsGlobal
<1>7. ASSUME FinishMerge PROVE CaptureInv'
  <2>1. \A c \in Reviewers : IsBottom(reservoir[c], PurchasesOf(c))
    BY <1>7, FinishStep
  <2>2. stage' = "merged" /\ reservoir' = reservoir
    BY <1>7 DEF FinishMerge
  <2>3. \A c \in Reviewers : IsBottom(reservoir'[c], PurchasesOf(c))
    BY <2>1, <2>2
  <2>4. QED BY <1>1, <2>2, <2>3 DEF CaptureInv, SampleIsGlobal
<1>8. QED BY <1>2, <1>3, <1>4, <1>5, <1>6, <1>7 DEF CaptureNext

LEMMA CaptureStutter == CaptureInv /\ UNCHANGED captureVars => CaptureInv'
<1> SUFFICES ASSUME CaptureInv, UNCHANGED captureVars PROVE CaptureInv'
    OBVIOUS
<1>1. SampleTypeOK' /\ (ShardsOK => ShardsOK')
    BY SameShards DEF captureVars, CaptureInv, SampleTypeOK
<1>2. MergeOK => MergeOK'
    BY DEF captureVars, MergeOK, Kept
<1>3. SampleIsGlobal'
    BY DEF captureVars, CaptureInv, SampleIsGlobal
<1>4. QED BY <1>1, <1>2, <1>3 DEF captureVars, CaptureInv

\* Whatever the number of workers and the order of their steps, a reviewer's
\* sample is the K least of all their purchases (MergeCaptureShards).
THEOREM SampleIsTheSame == CaptureSpec => []SampleIsGlobal
<1>1. Idle => CaptureInv
    BY IdleInv
<1>2. CaptureInv /\ [CaptureNext]_captureVars => CaptureInv'
    BY CaptureStep, CaptureStutter
<1>3. CaptureInv => SampleIsGlobal
    BY DEF CaptureInv
<1>4. QED BY <1>1, <1>2, <1>3, PTL DEF CaptureSpec

-----------------------------------------------------------------------------
(* Numbering.                                                              *)

\* A place is a number from 1 to the number of rows.
LEMMA PlaceInRange ==
    ASSUME NEW rows, IsFiniteSet(rows), NEW p \in rows,
           p[1] \in Nat, p[2] \in Nat
    PROVE  Place(p, rows) \in 1..Cardinality(rows)
<1> DEFINE before == {q \in rows : Earlier(q, p)}
<1>1. before \in SUBSET rows /\ p \notin before
    BY DEF Earlier
<1>2. IsFiniteSet(before) /\ Cardinality(before) \in Nat /\ Cardinality(rows) \in Nat
    BY <1>1, FS_Subset, FS_CardinalityType
<1>3. Cardinality(before) <= Cardinality(rows) /\ Cardinality(before) # Cardinality(rows)
    BY <1>1, FS_Subset
<1>4. QED BY <1>2, <1>3 DEF Place

\* A row has a greater place than those before it.
LEMMA PlacesRise ==
    ASSUME NEW rows, IsFiniteSet(rows), rows \subseteq Nat \X Nat,
           NEW a \in rows, NEW b \in rows, Earlier(a, b)
    PROVE  Place(a, rows) < Place(b, rows)
<1> DEFINE A == {x \in rows : Earlier(x, a)}
           B == {x \in rows : Earlier(x, b)}
<1>1. A \in SUBSET B /\ a \in B /\ a \notin A
  <2>1. \A x \in rows : x[1] \in Nat /\ x[2] \in Nat
    OBVIOUS
  <2>2. QED BY <2>1 DEF Earlier
<1>2. IsFiniteSet(B) /\ Cardinality(B) \in Nat
    BY FS_Subset, FS_CardinalityType
<1>3. IsFiniteSet(A) /\ Cardinality(A) \in Nat /\ Cardinality(A) < Cardinality(B)
  <2> HIDE DEF A, B
  <2>1. QED BY <1>1, <1>2, FS_Subset, FS_CardinalityType
<1>4. QED BY <1>2, <1>3 DEF Place

\* Different rows have different places.
LEMMA PlacesDiffer ==
    ASSUME NEW rows, IsFiniteSet(rows), rows \subseteq Nat \X Nat,
           NEW p \in rows, NEW q \in rows, Place(p, rows) = Place(q, rows)
    PROVE  p = q
<1>1. /\ p = <<p[1], p[2]>> /\ q = <<q[1], q[2]>>
      /\ p[1] \in Nat /\ p[2] \in Nat /\ q[1] \in Nat /\ q[2] \in Nat
    OBVIOUS
<1>2. Earlier(p, q) \/ Earlier(q, p) \/ p = q
    BY <1>1 DEF Earlier
<1>3. Place(p, rows) \in Nat /\ Place(q, rows) \in Nat
  <2>1. Cardinality(rows) \in Nat
    BY FS_CardinalityType
  <2>2. QED BY <1>1, <2>1, PlaceInRange
<1>4. QED BY <1>2, <1>3, PlacesRise

\* Places have no gaps: above n comes n + 1.
LEMMA NextPlace ==
    ASSUME NEW rows, IsFiniteSet(rows), rows \subseteq Nat \X Nat,
           NEW n \in Nat, \E p \in rows : Place(p, rows) > n
    PROVE  \E q \in rows : Place(q, rows) = n + 1
<1>1. \A p \in rows : Place(p, rows) \in Nat
  <2> TAKE p \in rows
  <2>1. p[1] \in Nat /\ p[2] \in Nat /\ Cardinality(rows) \in Nat
    BY FS_CardinalityType
  <2>2. QED BY <2>1, PlaceInRange
<1> DEFINE Above == {Place(p, rows) : p \in {p \in rows : Place(p, rows) > n}}
<1>2. PICK m \in Above : \A y \in Above : ~(<<y, m>> \in OpToRel(<, Nat))
  <2>1. Above \subseteq Nat /\ Above # {}
    BY <1>1
  <2> HIDE DEF Above
  <2>2. QED BY <2>1, NatLessThanWellFounded, WFMin, Zenon
<1>3. \A y \in Above : ~(y < m)
  <2>1. Above \subseteq Nat
    BY <1>1
  <2> HIDE DEF Above
  <2>2. QED BY <1>2, <2>1, Zenon DEF OpToRel
<1>4. PICK q \in rows : Place(q, rows) > n /\ m = Place(q, rows)
    OBVIOUS
<1> DEFINE before == {x \in rows : Earlier(x, q)}
           f == [x \in before |-> Place(x, rows)]
<1>5. \A x \in before : Place(x, rows) \in 1..n
  <2> TAKE x \in before
  <2>1. Place(x, rows) < Place(q, rows)
    BY PlacesRise
  <2>2. ~(Place(x, rows) > n)
    BY <1>3, <1>4, <2>1
  <2>3. Place(x, rows) >= 1
    <3>1. x[1] \in Nat /\ x[2] \in Nat /\ Cardinality(rows) \in Nat
      BY FS_CardinalityType
    <3>2. QED BY <3>1, PlaceInRange
  <2>4. QED BY <1>1, <2>2, <2>3
<1>6. f \in Injection(before, 1..n)
  <2>1. \A x, y \in before : Place(x, rows) = Place(y, rows) => x = y
    BY PlacesDiffer
  <2>2. f \in [before -> 1..n]
    BY <1>5
  <2>3. \A x, y \in before : f[x] = f[y] => x = y
    BY <2>1
  <2> HIDE DEF before, f
  <2>4. QED BY <2>2, <2>3 DEF Injection, IsInjective
<1>7. Cardinality(before) <= n /\ Cardinality(before) \in Nat
  <2>1. IsFiniteSet(1..n) /\ Cardinality(1..n) = n
    BY FS_Interval
  <2> HIDE DEF before, f
  <2>2. QED BY <1>6, <2>1, FS_Injection, FS_CardinalityType
<1>8. QED BY <1>4, <1>7 DEF Place

\* No more than n rows have a place after m and up to m + n.
LEMMA PlacesCount ==
    ASSUME NEW rows, IsFiniteSet(rows), rows \subseteq Nat \X Nat, NEW m \in Nat, NEW n \in Nat
    PROVE  /\ IsFiniteSet({r \in Numbered(rows) : m < r.id /\ r.id <= m + n})
           /\ Cardinality({r \in Numbered(rows) : m < r.id /\ r.id <= m + n}) <= n
<1> DEFINE S == {r \in Numbered(rows) : m < r.id /\ r.id <= m + n}
           f == [r \in S |-> r.id]
<1>1. \A r \in S : r.id \in (m + 1)..(m + n)
  <2> TAKE r \in S
  <2>1. PICK p \in rows : r = [id |-> Place(p, rows), row |-> p]
    BY DEF Numbered
  <2>2. p[1] \in Nat /\ p[2] \in Nat /\ Cardinality(rows) \in Nat
    BY FS_CardinalityType
  <2>3. Place(p, rows) \in Nat
    BY <2>2, PlaceInRange
  <2>4. QED BY <2>1, <2>3
<1>2. \A r, s \in S : r.id = s.id => r = s
  <2> SUFFICES ASSUME NEW r \in S, NEW s \in S, r.id = s.id PROVE r = s
    OBVIOUS
  <2>1. PICK p \in rows : r = [id |-> Place(p, rows), row |-> p]
    BY DEF Numbered
  <2>2. PICK q \in rows : s = [id |-> Place(q, rows), row |-> q]
    BY DEF Numbered
  <2>3. p = q
    BY <2>1, <2>2, PlacesDiffer
  <2>4. QED BY <2>1, <2>2, <2>3
<1>3. f \in Injection(S, (m + 1)..(m + n))
  <2>1. f \in [S -> (m + 1)..(m + n)]
    BY <1>1
  <2>2. \A r, s \in S : f[r] = f[s] => r = s
    BY <1>2
  <2> HIDE DEF S, f
  <2>3. QED BY <2>1, <2>2 DEF Injection, IsInjective
<1>4. IsFiniteSet((m + 1)..(m + n)) /\ Cardinality((m + 1)..(m + n)) = n
    BY FS_Interval
<1> HIDE DEF S, f
<1>5. IsFiniteSet(S) /\ Cardinality(S) <= n
    BY <1>3, <1>4, FS_Injection
<1>6. QED BY <1>5 DEF S

-----------------------------------------------------------------------------
(* The rows of a run are finitely many.                                    *)

LEMMA ReviewsFinite ==
    ASSUME NEW sample \in [Reviewers -> SUBSET Sales]
    PROVE  /\ IsFiniteSet(ReviewsOf(sample))
           /\ Cardinality(ReviewsOf(sample)) \in 0..NumSales
<1> DEFINE S == Reviewed \cap UNION {sample[c] : c \in Reviewers}
           f == [s \in S |-> <<CustomerOf[s], s>>]
<1>1. S \in SUBSET Sales
    OBVIOUS
<1>2. IsFiniteSet(S) /\ Cardinality(S) \in Nat /\ Cardinality(S) <= NumSales /\ NumSales \in Nat
  <2>1. IsFiniteSet(Sales) /\ NumSales \in Nat /\ Cardinality(Sales) = NumSales
    <3>1. Cardinality(1..NumSales) = NumSales
      BY SalesFinite, FS_Interval
    <3>2. QED BY <3>1, SalesFinite DEF Sales
  <2> HIDE DEF S
  <2>2. QED BY <1>1, <2>1, SetOfSales, FS_Subset
<1>3. f \in Surjection(S, ReviewsOf(sample))
  <2>1. ReviewsOf(sample) = {f[s] : s \in S}
    BY DEF ReviewsOf
  <2>2. f \in [S -> {f[s] : s \in S}]
    OBVIOUS
  <2> HIDE DEF f, S
  <2>3. QED BY <2>1, <2>2 DEF Surjection
<1>4. QED BY <1>2, <1>3, FS_Surjection, FS_CardinalityType

LEMMA AboutFinite ==
    ASSUME NEW drawn \in [Sales -> Seq(Nat)], NEW sample \in [Reviewers -> SUBSET Sales]
    PROVE  IsFiniteSet(About(drawn, sample)) /\ About(drawn, sample) \subseteq Nat \X Nat
<1> DEFINE I == 1..Cardinality(ReviewsOf(sample))
           f == [i \in I |-> {i} \X (1..Len(drawn[i]))]
           T == {{i} \X (1..Len(drawn[i])) : i \in I}
<1>1. I \subseteq Sales /\ IsFiniteSet(I) /\ NumSales \in Nat
    BY ReviewsFinite, FS_Interval, SalesFinite DEF Sales
<1>2. f \in Surjection(I, T)
  <2>1. T = {f[i] : i \in I}
    OBVIOUS
  <2>2. f \in [I -> {f[i] : i \in I}]
    OBVIOUS
  <2> HIDE DEF f, I, T
  <2>3. QED BY <2>1, <2>2 DEF Surjection
<1>3. IsFiniteSet(T)
    BY <1>1, <1>2, FS_Surjection
<1>4. \A i \in I : IsFiniteSet({i} \X (1..Len(drawn[i])))
  <2> TAKE i \in I
  <2>1. Len(drawn[i]) \in Nat
    <3>1. i \in Sales
      BY <1>1
    <3>2. drawn[i] \in Seq(Nat)
      BY <3>1
    <3>3. QED BY <3>2
  <2>2. IsFiniteSet({i})
    BY FS_Singleton
  <2>3. IsFiniteSet(1..Len(drawn[i]))
    BY <2>1, FS_Interval
  <2>4. QED BY <2>2, <2>3, FS_Product
<1>5. IsFiniteSet(UNION T)
  <2>1. \A X \in T : IsFiniteSet(X)
    BY <1>4
  <2> HIDE DEF T
  <2>2. QED BY <1>3, <2>1, FS_UNION
<1>6. UNION T \subseteq Nat \X Nat
    BY <1>1 DEF Sales
<1>7. QED BY <1>5, <1>6 DEF About

-----------------------------------------------------------------------------
(* The rows all runs agree on.                                             *)

\* The sample of every complete capture.
Sample == [c \in Reviewers |-> CHOOSE r : IsBottom(r, PurchasesOf(c))]

Final(t) == Numbered(Emitted(t, Sample))

ProperSample == \A c \in Reviewers : IsBottom(Sample[c], PurchasesOf(c))

\* The first n rows of a table.
Beginning(t, n) == {r \in Final(t) : r.id <= n}

LEMMA CaptureComplete ==
    ASSUME CaptureInv, stage = "merged"
    PROVE  reservoir = Sample /\ ProperSample
<1>1. \A c \in Reviewers : IsBottom(reservoir[c], PurchasesOf(c))
    BY DEF CaptureInv, SampleIsGlobal
<1>2. ASSUME NEW c \in Reviewers
      PROVE  reservoir[c] = Sample[c] /\ IsBottom(Sample[c], PurchasesOf(c))
  <2>1. PurchasesOf(c) \in SUBSET Sales
    BY DEF PurchasesOf
  <2>2. IsBottom(Sample[c], PurchasesOf(c))
    BY <1>1 DEF Sample
  <2>3. QED BY <1>1, <2>1, <2>2, OneSample
<1>3. reservoir = Sample
    BY <1>2 DEF CaptureInv, SampleTypeOK, Sample
<1>4. QED BY <1>2, <1>3 DEF ProperSample

\* Every table's rows are finitely many pairs of numbers.
LEMMA EmittedFinite ==
    ASSUME NEW t \in Tables, t = "accounts" \/ ProperSample
    PROVE  IsFiniteSet(Emitted(t, Sample)) /\ Emitted(t, Sample) \subseteq Nat \X Nat
<1>1. IsFiniteSet(Accounts) /\ Accounts \subseteq Nat \X Nat
  <2> DEFINE f == [i \in 1..Len(AccountHolders) |-> <<i, AccountHolders[i]>>]
  <2>1. AccountHolders \in Seq(Nat) /\ Len(AccountHolders) \in Nat
    BY WebAssumption DEF WebAssumption
  <2>2. f \in Surjection(1..Len(AccountHolders), Accounts)
    <3>1. Accounts = {f[i] : i \in 1..Len(AccountHolders)}
      BY DEF Accounts
    <3>2. f \in [1..Len(AccountHolders) -> {f[i] : i \in 1..Len(AccountHolders)}]
      OBVIOUS
    <3> HIDE DEF f
    <3>3. QED BY <3>1, <3>2 DEF Surjection
  <2>3. IsFiniteSet(Accounts)
    <3> HIDE DEF f
    <3>1. QED BY <2>1, <2>2, FS_Interval, FS_Surjection
  <2>4. QED BY <2>1, <2>3 DEF Accounts
<1>2. CASE t = "accounts"
    BY <1>1, <1>2 DEF Emitted
<1>3. CASE t # "accounts" /\ ProperSample
  <2>1. /\ Sample \in [Reviewers -> SUBSET Sales]
        /\ \A c \in Reviewers : \A s \in Sample[c] : CustomerOf[s] = c
    BY <1>3 DEF ProperSample, IsBottom, PurchasesOf, Sample
  <2>2. ReviewsOf(Sample) \subseteq Nat \X Nat
    BY <2>1, WebAssumption DEF WebAssumption, ReviewsOf, Sales
  <2>3. IsFiniteSet(ReviewsOf(Sample))
    BY <2>1, ReviewsFinite
  <2>4. /\ IsFiniteSet(About(Thread, Sample)) /\ About(Thread, Sample) \subseteq Nat \X Nat
        /\ IsFiniteSet(About(Ballot, Sample)) /\ About(Ballot, Sample) \subseteq Nat \X Nat
    BY <2>1, AboutFinite, WebAssumption DEF WebAssumption
  <2>5. QED BY <1>3, <2>2, <2>3, <2>4 DEF Emitted, Tables
<1>4. QED BY <1>2, <1>3

\* Ids count from 1.
LEMMA IdsPositive ==
    ASSUME NEW t \in Tables, t = "accounts" \/ ProperSample
    PROVE  \A r \in Final(t) : r.id \in Nat /\ r.id > 0
<1> DEFINE rows == Emitted(t, Sample)
<1>1. IsFiniteSet(rows) /\ rows \subseteq Nat \X Nat
    BY EmittedFinite
<1>2. \A p \in rows : Place(p, rows) \in Nat /\ Place(p, rows) > 0
  <2> HIDE DEF rows
  <2> TAKE p \in rows
  <2>1. p[1] \in Nat /\ p[2] \in Nat /\ Cardinality(rows) \in Nat
    BY <1>1, FS_CardinalityType
  <2>2. Place(p, rows) \in 1..Cardinality(rows)
    BY <1>1, <2>1, PlaceInRange
  <2>3. QED BY <2>1, <2>2
<1>3. QED BY <1>2 DEF Final, Numbered

-----------------------------------------------------------------------------
(* The invariant of the tables that are written one after another.         *)

Sampled == {"reviews", "comments", "votes", "gate", "clicks"}

TablesInv ==
    /\ CaptureInv
    /\ phase \in Sampled => stage = "merged"
    /\ written \in Nat
    /\ phase = "capture" => written = 0
    /\ stored = [t \in Tables |-> stored[t]]
    /\ \A t \in Tables : stored[t] = {} \/ \E n \in Nat : stored[t] = Beginning(t, n)
    /\ \A t \in Tables : phase = t /\ written > 0 => stored[t] = Beginning(t, written)

\* What the run writes to a table is what every run would.
LEMMA RowsAreFinal ==
    ASSUME TablesInv, NEW t \in Tables, phase = t \/ phase \in Sampled
    PROVE  Rows(t) = Final(t) /\ \A r \in Final(t) : r.id \in Nat /\ r.id > 0
<1>1. CASE t = "accounts"
    BY <1>1, IdsPositive DEF Rows, Final, Emitted
<1>2. CASE t # "accounts"
  <2>1. phase \in Sampled
    BY <1>2 DEF Sampled, Tables
  <2>2. reservoir = Sample /\ ProperSample
    BY <2>1, CaptureComplete DEF TablesInv
  <2>3. QED BY <2>2, IdsPositive DEF Rows, Final
<1>3. QED BY <1>1, <1>2

\* A batch continues the beginning that is there.
LEMMA BatchContinues ==
    ASSUME TablesInv, NEW t \in Tables, phase = t, ~AlreadyLoaded(t)
    PROVE  stored[t] \cup NextBatch(t) = Beginning(t, written + Batch)
<1>1. /\ written \in Nat /\ Batch \in Nat
      /\ Rows(t) = Final(t) /\ \A r \in Final(t) : r.id \in Nat /\ r.id > 0
    BY RowsAreFinal, WebAssumption DEF TablesInv, WebAssumption
<1>2. stored[t] = {r \in Final(t) : r.id <= written}
  <2>1. CASE written = 0
    BY <1>1, <2>1 DEF AlreadyLoaded
  <2>2. CASE written > 0
    BY <1>1, <2>2 DEF TablesInv, Beginning
  <2>3. QED BY <1>1, <2>1, <2>2
<1>3. NextBatch(t) = {r \in Final(t) : written < r.id /\ r.id <= written + Batch}
    BY <1>1 DEF NextBatch
<1>4. QED BY <1>1, <1>2, <1>3 DEF Beginning

\* One table is written on, from its first row.
LEMMA TableGrows ==
    ASSUME TablesInv, CaptureInv', NEW t \in Tables, phase = t, NEW n \in Nat,
           stored' = [stored EXCEPT ![t] = Beginning(t, n)],
           \/ phase' = t /\ written' = n
           \/ phase' = "failed" /\ written' = written,
           stage' = stage
    PROVE  TablesInv'
<1> USE DEF TablesInv
<1>1. \A u \in Tables : stored'[u] = IF u = t THEN Beginning(t, n) ELSE stored[u]
    OBVIOUS
<1>2. stored' = [u \in Tables |-> stored'[u]]
    OBVIOUS
<1>3. \A u \in Tables : stored'[u] = {} \/ \E m \in Nat : stored'[u] = Beginning(u, m)
    BY <1>1
<1>4. phase' \in Sampled => stage' = "merged"
    BY DEF Sampled, Tables
<1>5. written' \in Nat /\ (phase' = "capture" => written' = 0)
    BY DEF Tables
<1>6. \A u \in Tables : phase' = u /\ written' > 0 => stored'[u] = Beginning(u, written')
    BY <1>1 DEF Tables
<1>7. \A u \in Tables, m \in Nat : Beginning(u, m)' = Beginning(u, m)
    BY DEF Beginning, Final
<1>8. QED BY <1>2, <1>3, <1>4, <1>5, <1>6, <1>7 DEF Beginning, Final

LEMMA TablesStep ==
    ASSUME TablesInv, Next
    PROVE  TablesInv'
<1> USE DEF TablesInv
<1>1. ASSUME NEW t \in Tables,
             SkipTable(t) \/ TableWritten(t) \/ BatchRefused(t)
      PROVE  TablesInv'
  <2>1. CaptureInv'
    BY <1>1, CaptureStutter DEF SkipTable, TableWritten, BatchRefused
  <2>2. t # "accounts" => stage = "merged"
    BY <1>1 DEF SkipTable, TableWritten, BatchRefused, Sampled, Tables
  <2>3. QED BY <1>1, <2>1, <2>2
        DEF SkipTable, TableWritten, BatchRefused, AlreadyLoaded, After, Tables, Sampled,
            captureVars, Beginning, Final
<1>2. ASSUME NEW t \in Tables, FlushBatch(t) PROVE TablesInv'
  <2>1. CaptureInv'
    BY <1>2, CaptureStutter DEF FlushBatch
  <2>2. /\ phase = t /\ phase' = t /\ stage' = stage /\ ~AlreadyLoaded(t)
        /\ written' = written + Batch /\ written + Batch \in Nat
    BY <1>2, WebAssumption DEF FlushBatch, WebAssumption, captureVars
  <2> HIDE DEF TablesInv
  <2>3. stored' = [stored EXCEPT ![t] = Beginning(t, written + Batch)]
    BY <1>2, <2>2, BatchContinues DEF FlushBatch
  <2>4. QED BY <2>1, <2>2, <2>3, TableGrows
<1>3. ASSUME NEW t \in Tables, FlushFails(t) PROVE TablesInv'
  <2>1. CaptureInv'
    BY <1>3, CaptureStutter DEF FlushFails
  <2>2. CASE UNCHANGED stored
    BY <1>3, <2>1, <2>2 DEF FlushFails, Tables, Sampled, Beginning, Final
  <2>3. CASE stored' = [stored EXCEPT ![t] = @ \cup NextBatch(t)]
    <3>1. /\ phase = t /\ phase' = "failed" /\ stage' = stage /\ ~AlreadyLoaded(t)
          /\ written' = written /\ written + Batch \in Nat
      BY <1>3, WebAssumption DEF FlushFails, WebAssumption, captureVars
    <3> HIDE DEF TablesInv
    <3>2. stored' = [stored EXCEPT ![t] = Beginning(t, written + Batch)]
      BY <2>3, <3>1, BatchContinues
    <3>3. QED BY <2>1, <3>1, <3>2, TableGrows
  <2>4. QED BY <1>3, <2>2, <2>3 DEF FlushFails
<1>4. ASSUME Capture PROVE TablesInv'
  <2>1. CaptureInv'
    BY <1>4, CaptureStep DEF Capture
  <2>2. phase' \in {"reviews", "failed", "capture"} /\ (phase' = "reviews" => stage' = "merged")
    BY <1>4 DEF Capture
  <2>3. written' = 0 /\ stored' = stored
    BY <1>4 DEF Capture
  <2>4. QED BY <2>1, <2>2, <2>3 DEF Sampled, Tables, Beginning, Final
<1>5. ASSUME UNCHANGED <<captureVars, written, stored>>,
             phase' \notin Tables \cup {"capture"},
             phase' \in Sampled => phase \in Sampled
      PROVE  TablesInv'
  <2>1. CaptureInv'
    BY <1>5, CaptureStutter
  <2>2. QED BY <1>5, <2>1 DEF Sampled, Tables, captureVars, Beginning, Final
<1>6. ASSUME OpenGate \/ SkipClickstream \/ AwaitClicks \/ Crash PROVE TablesInv'
    BY <1>5, <1>6 DEF OpenGate, SkipClickstream, AwaitClicks, Crash, Sampled, Tables
<1>7. ASSUME NEW w \in WorkerIds, NEW from, NEW to, ClickStep(w, from, to) PROVE TablesInv'
    BY <1>5, <1>7 DEF ClickStep, Sampled, Tables
<1>8. ASSUME NEW w \in WorkerIds,
             \/ OpenWriter(w) \/ LookAtPool(w) \/ InstallPool(w) \/ FlushViews(w)
             \/ ViewsRefused(w) \/ FlushViewsFails(w) \/ WorkerDone(w)
      PROVE  TablesInv'
    BY <1>7, <1>8 DEF OpenWriter, LookAtPool, InstallPool, FlushViews, ViewsRefused,
                      FlushViewsFails, WorkerDone
<1>9. ASSUME Rerun PROVE TablesInv'
  <2>1. CaptureInv'
    BY <1>9, ForgetInv DEF Rerun
  <2>2. QED BY <1>9, <2>1 DEF Rerun, Sampled, Tables, Beginning, Final
<1>10. QED BY <1>1, <1>2, <1>3, <1>4, <1>6, <1>8, <1>9 DEF Next, Advance

LEMMA TablesInit == Init => TablesInv
<1> SUFFICES ASSUME Init PROVE TablesInv
    OBVIOUS
<1>1. CaptureInv
    BY IdleInv DEF Init
<1>2. QED BY <1>1 DEF Init, TablesInv, Sampled, Tables

LEMMA TablesStutter == TablesInv /\ UNCHANGED vars => TablesInv'
  BY CaptureStutter DEF TablesInv, vars, loadVars, captureVars, Beginning, Final

LEMMA TablesAlways == Spec => []TablesInv
<1>1. TablesInv /\ [Next]_vars => TablesInv'
    BY TablesStep, TablesStutter
<1>2. QED BY <1>1, TablesInit, PTL DEF Spec

\* "Data is identical regardless of the worker count" (webWorkers): what any
\* earlier runs left in a table is a beginning of what this run writes there.
THEOREM EveryRunAgrees == Spec => []RunsAgree
<1>1. TablesInv => RunsAgree
  <2> SUFFICES ASSUME TablesInv, phase \in Sampled, NEW t \in Tables
               PROVE  /\ stored[t] \subseteq Rows(t)
                      /\ \A r \in Rows(t), s \in stored[t] : r.id <= s.id => r \in stored[t]
    BY DEF RunsAgree, Sampled
  <2>1. Rows(t) = Final(t) /\ \A r \in Final(t) : r.id \in Nat
    BY RowsAreFinal
  <2>2. CASE stored[t] = {}
    BY <2>2
  <2>3. CASE \E n \in Nat : stored[t] = Beginning(t, n)
    BY <2>1, <2>3 DEF Beginning
  <2>4. QED BY <2>2, <2>3 DEF TablesInv
<1>2. QED BY <1>1, TablesAlways, PTL

\* The sample in every run of the load, whatever its number of workers.
THEOREM EverySampleIsTheSame == Spec => []SampleIsGlobal
<1>1. TablesInv => SampleIsGlobal
    BY DEF TablesInv, CaptureInv
<1>2. QED BY <1>1, TablesAlways, PTL

-----------------------------------------------------------------------------
(* The page views.                                                         *)

DaysOf(w, n) == {v \in Views : (v[1] - 1) % n = w}

WorkerOf(v, n) == (v[1] - 1) % n

IdOf(v, n) == PageViewID(WorkerOf(v, n), Place(v, DaysOf(WorkerOf(v, n), n)))

\* The page views of a run with n workers.
Generated(n) == {[id |-> IdOf(v, n), row |-> v] : v \in Views}

ViewsInv ==
    /\ \E n \in 1..MaxWorkers : views \subseteq Generated(n)
    /\ phase = "clicks" => views \subseteq Generated(workers)

LEMMA ViewsArePairs == Views \subseteq Nat \X Nat
<1>1. Len(Visits) \in Nat /\ \A d \in 1..Len(Visits) : Len(Visits[d]) \in Nat
  <2>1. Visits \in Seq(Seq(Nat \cup {NoCustomer}))
    BY WebAssumption DEF WebAssumption
  <2>2. Len(Visits) \in Nat /\ \A d \in 1..Len(Visits) : Visits[d] \in Seq(Nat \cup {NoCustomer})
    BY <2>1
  <2>3. QED BY <2>2
<1>2. QED BY <1>1 DEF Views

\* A day belongs to one worker, and a worker's page views fit in its band.
LEMMA PlaceInBand ==
    ASSUME NEW n \in 1..MaxWorkers, NEW v \in Views
    PROVE  /\ WorkerOf(v, n) \in Nat
           /\ Place(v, DaysOf(WorkerOf(v, n), n)) \in 1..Stride
<1> DEFINE D == DaysOf(WorkerOf(v, n), n)
<1>1. v[1] \in Nat /\ v[2] \in Nat /\ v[1] >= 1 /\ n \in Nat /\ n > 0
  <2>1. v[1] \in Nat /\ v[2] \in Nat
    BY ViewsArePairs
  <2>2. v[1] >= 1
    BY <2>1 DEF Views
  <2>3. n \in Nat /\ n > 0
    BY CaptureAssumption DEF CaptureAssumption
  <2>4. QED BY <2>1, <2>2, <2>3
<1>2. WorkerOf(v, n) \in Nat
    BY <1>1 DEF WorkerOf
<1>3. D \in SUBSET Views /\ v \in D
    BY DEF DaysOf, WorkerOf
<1>4. IsFiniteSet(Views) /\ Cardinality(Views) <= Stride /\ Stride \in Nat
    BY WebAssumption DEF WebAssumption
<1> HIDE DEF D
<1>5. IsFiniteSet(D) /\ Cardinality(D) <= Cardinality(Views)
      /\ Cardinality(D) \in Nat /\ Cardinality(Views) \in Nat
    BY <1>3, <1>4, FS_Subset, FS_CardinalityType
<1>6. Place(v, D) \in 1..Cardinality(D)
    BY <1>1, <1>3, <1>5, PlaceInRange
<1>7. Place(v, D) \in 1..Stride
    BY <1>4, <1>5, <1>6
<1>8. QED BY <1>2, <1>7 DEF D

\* Bands of Stride ids do not meet.
LEMMA BandsAreDisjoint ==
    ASSUME NEW s \in Nat, NEW w \in Nat, NEW x \in Nat, NEW i \in 1..s, NEW j \in 1..s,
           w * s + i = x * s + j
    PROVE  w = x /\ i = j
<1>1. ASSUME NEW a \in Nat, NEW b \in Nat, a < b
      PROVE  a * s + s <= b * s
  <2>1. PICK d \in Nat : b = a + 1 + d
    <3>1. b - a - 1 \in Nat /\ b = a + 1 + (b - a - 1)
      BY <1>1
    <3>2. QED BY <3>1
  <2>2. b * s = a * s + s + d * s
    BY <2>1
  <2>3. d * s >= 0 /\ a * s \in Nat /\ b * s \in Nat /\ d * s \in Nat
    OBVIOUS
  <2>4. QED BY <2>2, <2>3
<1>2. w * s \in Nat /\ x * s \in Nat
    OBVIOUS
<1>3. ~(w < x)
    BY <1>1, <1>2
<1>4. ~(x < w)
    BY <1>1, <1>2
<1>5. w = x
    BY <1>3, <1>4
<1>6. QED BY <1>2, <1>5

LEMMA IdsDiffer ==
    ASSUME NEW n \in 1..MaxWorkers, NEW u \in Views, NEW v \in Views, IdOf(u, n) = IdOf(v, n)
    PROVE  u = v
<1> DEFINE a == WorkerOf(u, n)
           b == WorkerOf(v, n)
<1>1. a = b /\ Place(u, DaysOf(a, n)) = Place(v, DaysOf(b, n))
  <2>1. Stride \in Nat
    BY WebAssumption DEF WebAssumption
  <2>2. /\ a \in Nat /\ b \in Nat
        /\ Place(u, DaysOf(a, n)) \in 1..Stride /\ Place(v, DaysOf(b, n)) \in 1..Stride
    BY PlaceInBand
  <2>3. a * Stride + Place(u, DaysOf(a, n)) = b * Stride + Place(v, DaysOf(b, n))
    BY DEF IdOf, PageViewID
  <2> HIDE DEF a, b
  <2>4. QED BY <2>1, <2>2, <2>3, BandsAreDisjoint
<1>2. u \in DaysOf(a, n) /\ v \in DaysOf(a, n)
    BY <1>1 DEF DaysOf, WorkerOf
<1>3. IsFiniteSet(DaysOf(a, n)) /\ DaysOf(a, n) \subseteq Nat \X Nat
  <2>1. DaysOf(a, n) \in SUBSET Views
    BY DEF DaysOf
  <2>2. IsFiniteSet(Views)
    BY WebAssumption DEF WebAssumption
  <2> HIDE DEF a
  <2>3. QED BY <2>1, <2>2, ViewsArePairs, FS_Subset
<1> HIDE DEF a, b
<1>4. QED BY <1>1, <1>2, <1>3, PlacesDiffer

\* The next page views of a worker are some of those its run generates.
LEMMA NextViewsGenerated ==
    ASSUME NEW w \in WorkerIds
    PROVE  NextViews(w) \subseteq Generated(workers)
<1> SUFFICES ASSUME NEW x \in Shown(w)
             PROVE  [id |-> PageViewID(w, x.id), row |-> x.row] \in Generated(workers)
    BY DEF NextViews
<1>1. PICK v \in DaysOf(w, workers) : x = [id |-> Place(v, DaysOf(w, workers)), row |-> v]
    BY DEF Shown, Numbered, DaysOf
<1>2. v \in Views /\ WorkerOf(v, workers) = w
    BY DEF DaysOf, WorkerOf
<1>3. QED BY <1>1, <1>2 DEF Generated, IdOf

\* What a run generates is fixed by its number of workers.
LEMMA GeneratedStays ==
    /\ workers' = workers => Generated(workers)' = Generated(workers)
    /\ \A n : Generated(n)' = Generated(n)
<1>1. \A n : Generated(n)' = Generated(n)
    BY DEF Generated, IdOf, WorkerOf, DaysOf, Place, Earlier, PageViewID, Views
<1>2. ASSUME workers' = workers PROVE Generated(workers)' = Generated(workers)
    BY <1>2 DEF Generated, IdOf, WorkerOf, DaysOf, Place, Earlier, PageViewID, Views
<1>3. QED BY <1>1, <1>2

LEMMA ViewsStep ==
    ASSUME ViewsInv, workers \in 1..MaxWorkers, Next
    PROVE  ViewsInv'
<1> USE DEF ViewsInv
<1>1. ASSUME views' = views, phase' # "clicks"
      PROVE  ViewsInv'
  <2>1. \A n : Generated(n)' = Generated(n)
    BY GeneratedStays
  <2>2. QED BY <1>1, <2>1
<1>2. ASSUME NEW w \in WorkerIds, phase = "clicks", phase' = phase, workers' = workers,
             \/ views' = views
             \/ views' = views \cup NextViews(w)
      PROVE  ViewsInv'
  <2>1. views' \subseteq Generated(workers)
    BY <1>2, NextViewsGenerated
  <2>2. workers' = workers => Generated(workers)' = Generated(workers)
    BY GeneratedStays
  <2>3. \A n : Generated(n)' = Generated(n)
    BY GeneratedStays
  <2>4. QED BY <1>2, <2>1, <2>2, <2>3
<1>3. ASSUME NEW t \in Tables,
             SkipTable(t) \/ FlushBatch(t) \/ BatchRefused(t) \/ FlushFails(t) \/ TableWritten(t)
      PROVE  ViewsInv'
  <2>1. views' = views /\ phase' # "clicks"
    BY <1>3 DEF SkipTable, FlushBatch, BatchRefused, FlushFails, TableWritten, After, Tables
  <2>2. QED BY <1>1, <2>1
<1>4. ASSUME Capture \/ SkipClickstream \/ AwaitClicks \/ Crash \/ Rerun
      PROVE  ViewsInv'
  <2>1. views' = views /\ phase' # "clicks"
    BY <1>4 DEF Capture, SkipClickstream, AwaitClicks, Crash, Rerun
  <2>2. QED BY <1>1, <2>1
<1>5. ASSUME OpenGate PROVE ViewsInv'
  <2>1. views' = {}
    BY <1>5 DEF OpenGate
  <2>2. \E n \in 1..MaxWorkers : TRUE
    OBVIOUS
  <2>3. QED BY <2>1, <2>2
<1>6. ASSUME NEW w \in WorkerIds, NEW from, NEW to, ClickStep(w, from, to)
      PROVE  phase = "clicks" /\ phase' = phase /\ workers' = workers
    BY <1>6 DEF ClickStep, captureVars
<1>7. ASSUME NEW w \in WorkerIds,
             \/ OpenWriter(w) \/ LookAtPool(w) \/ InstallPool(w) \/ FlushViews(w)
             \/ ViewsRefused(w) \/ FlushViewsFails(w) \/ WorkerDone(w)
      PROVE  ViewsInv'
  <2>1. \/ views' = views
        \/ views' = views \cup NextViews(w)
    BY <1>7 DEF OpenWriter, LookAtPool, InstallPool, FlushViews, ViewsRefused,
                FlushViewsFails, WorkerDone
  <2>2. phase = "clicks" /\ phase' = phase /\ workers' = workers
    BY <1>6, <1>7 DEF OpenWriter, LookAtPool, InstallPool, FlushViews, ViewsRefused,
                      FlushViewsFails, WorkerDone
  <2>3. QED BY <1>2, <2>1, <2>2
<1>8. QED BY <1>3, <1>4, <1>5, <1>7 DEF Next, Advance

-----------------------------------------------------------------------------
(* What a run has written by the time it ends.                             *)

InViews(v) == \E u \in views : u.row = v

\* A worker has stored the page views it has counted; one that is done, all its own.
ClicksInv ==
    /\ click = [w \in WorkerIds |-> click[w]]
    /\ sent \in [WorkerIds -> Nat]
    /\ phase \notin Ended \cup {"clicks"} =>
          \A w \in WorkerIds : click[w] = "idle" /\ sent[w] = 0
    /\ phase = "clicks" => \A w \in WorkerIds :
          /\ click[w] = "idle" => w >= workers
          /\ \A x \in Shown(w) : x.id <= sent[w] => InViews(x.row)
          /\ click[w] = "ok" => \A x \in Shown(w) : InViews(x.row)
    /\ phase = "done" /\ (\E w \in WorkerIds : click[w] = "ok") =>
          {v.row : v \in views} = Views

\* The tables a run has behind it in a phase.
Behind == [accounts |-> {}, capture |-> {"accounts"}, reviews |-> {"accounts"},
           comments |-> {"accounts", "reviews"}, votes |-> {"accounts", "reviews", "comments"},
           gate |-> Tables, clicks |-> Tables, done |-> Tables]

\* The first run finds every table empty and leaves every table whole.
FirstRunInv ==
    /\ runs \in Nat \ {0}
    /\ runs = 1 =>
        /\ phase \in DOMAIN Behind => \A t \in Tables :
              /\ t \in Behind[phase] => stored[t] = Final(t)
              /\ t \notin Behind[phase] /\ (phase = t => written = 0) => stored[t] = {}
        /\ phase \notin Ended \cup {"clicks"} => views = {}
        /\ phase = "done" => stage = "merged" /\ \E w \in WorkerIds : click[w] = "ok"

\* The page views of a worker are finitely many.
LEMMA DaysFinite ==
    ASSUME NEW w, NEW n
    PROVE  IsFiniteSet(DaysOf(w, n)) /\ DaysOf(w, n) \subseteq Nat \X Nat
<1>1. DaysOf(w, n) \in SUBSET Views
    BY DEF DaysOf
<1>2. IsFiniteSet(Views)
    BY WebAssumption DEF WebAssumption
<1>3. QED BY <1>1, <1>2, ViewsArePairs, FS_Subset

\* A batch of page views takes a worker on by at most a batch, over all of its rows.
LEMMA NextViewsCount ==
    ASSUME NEW w \in WorkerIds, sent[w] \in Nat
    PROVE  /\ IsFiniteSet(NextViews(w)) /\ Cardinality(NextViews(w)) \in Nat
           /\ Cardinality(NextViews(w)) <= Batch
<1> DEFINE S == {v \in Shown(w) : sent[w] < v.id /\ v.id <= sent[w] + Batch}
           g == [v \in S |-> [id |-> PageViewID(w, v.id), row |-> v.row]]
<1>1. IsFiniteSet(S) /\ Cardinality(S) <= Batch /\ Batch \in Nat
  <2>1. Shown(w) = Numbered(DaysOf(w, workers))
    BY DEF Shown, DaysOf
  <2>2. Batch \in Nat
    BY WebAssumption DEF WebAssumption
  <2>3. QED BY <2>1, <2>2, DaysFinite, PlacesCount
<1>2. g \in Surjection(S, NextViews(w))
  <2>1. NextViews(w) = {g[v] : v \in S}
    BY DEF NextViews
  <2>2. g \in [S -> {g[v] : v \in S}]
    OBVIOUS
  <2> HIDE DEF g, S
  <2>3. QED BY <2>1, <2>2 DEF Surjection
<1> HIDE DEF g, S
<1>3. IsFiniteSet(NextViews(w)) /\ Cardinality(NextViews(w)) <= Cardinality(S)
    BY <1>1, <1>2, FS_Surjection
<1>4. Cardinality(NextViews(w)) \in Nat /\ Cardinality(S) \in Nat
    BY <1>1, <1>3, FS_CardinalityType
<1>5. QED BY <1>1, <1>3, <1>4

\* A worker with nothing to send has sent everything.
LEMMA NothingToSend ==
    ASSUME NEW w \in WorkerIds, sent[w] \in Nat, NextViews(w) = {}
    PROVE  \A x \in Shown(w) : x.id <= sent[w]
<1> DEFINE D == DaysOf(w, workers)
<1>1. Shown(w) = {[id |-> Place(p, D), row |-> p] : p \in D}
    BY DEF Shown, DaysOf, Numbered
<1>2. Batch \in Nat /\ Batch > 0
    BY WebAssumption DEF WebAssumption
<1>3. IsFiniteSet(D) /\ D \subseteq Nat \X Nat
    BY DaysFinite
<1> HIDE DEF D
<1>4. ASSUME NEW p \in D, Place(p, D) > sent[w]
      PROVE  FALSE
  <2>1. PICK q \in D : Place(q, D) = sent[w] + 1
    BY <1>3, <1>4, NextPlace
  <2> DEFINE x == [id |-> Place(q, D), row |-> q]
  <2>2. x \in Shown(w) /\ x.id = sent[w] + 1
    BY <1>1, <2>1
  <2>3. sent[w] < x.id /\ x.id <= sent[w] + Batch
    BY <1>2, <2>2
  <2> HIDE DEF x
  <2>4. NextViews(w) # {}
    BY <2>2, <2>3 DEF NextViews
  <2>5. QED BY <2>4
<1>5. \A p \in D : Place(p, D) \in Nat
  <2> TAKE p \in D
  <2>1. p[1] \in Nat /\ p[2] \in Nat /\ Cardinality(D) \in Nat
    BY <1>3, FS_CardinalityType
  <2>2. QED BY <1>3, <2>1, PlaceInRange
<1>6. QED BY <1>1, <1>4, <1>5

\* Page views are of the web era.
LEMMA RowsAreViews ==
    ASSUME ViewsInv
    PROVE  \A v \in views : v.row \in Views
  BY DEF ViewsInv, Generated

\* When every worker is done, every page view is there.
LEMMA AllShown ==
    ASSUME ViewsInv, ClicksInv, phase = "clicks", workers \in 1..MaxWorkers,
           \A w \in WorkerIds : click[w] \in {"idle", "ok"}
    PROVE  {v.row : v \in views} = Views /\ \E w \in WorkerIds : click[w] = "ok"
<1>1. MaxWorkers \in Nat /\ workers \in Nat /\ workers > 0
    BY CaptureAssumption DEF CaptureAssumption
<1>2. \A w \in WorkerIds : w < workers => click[w] = "ok"
    BY <1>1 DEF ClicksInv, WorkerIds
<1>3. ASSUME NEW v \in Views
      PROVE  InViews(v)
  <2>1. v[1] \in Nat /\ v[1] >= 1
    BY ViewsArePairs DEF Views
  <2>2. WorkerOf(v, workers) \in WorkerIds /\ WorkerOf(v, workers) < workers
    BY <1>1, <2>1 DEF WorkerOf, WorkerIds
  <2>3. v \in DaysOf(WorkerOf(v, workers), workers)
    BY DEF DaysOf, WorkerOf
  <2>4. \A w : v \in DaysOf(w, workers) => \E x \in Shown(w) : x.row = v
    <3> SUFFICES ASSUME NEW w, v \in DaysOf(w, workers)
                 PROVE  \E x \in Shown(w) : x.row = v
        OBVIOUS
    <3>1. Shown(w) = Numbered(DaysOf(w, workers))
      BY DEF Shown, DaysOf
    <3>2. [id |-> Place(v, DaysOf(w, workers)), row |-> v] \in Shown(w)
      BY <3>1 DEF Numbered
    <3>3. QED BY <3>2
  <2>5. QED BY <1>2, <2>2, <2>3, <2>4 DEF ClicksInv
<1>4. 0 \in WorkerIds /\ 0 < workers
    BY <1>1 DEF WorkerIds
<1>5. Views \subseteq {v.row : v \in views}
    BY <1>3 DEF InViews
<1>6. QED BY <1>2, <1>4, <1>5, RowsAreViews

\* Steps of one worker.
LEMMA WorkerStep ==
    ASSUME ClicksInv, NEW w \in WorkerIds,
           \/ OpenWriter(w) \/ LookAtPool(w) \/ InstallPool(w) \/ FlushViews(w)
           \/ ViewsRefused(w) \/ FlushViewsFails(w) \/ WorkerDone(w)
    PROVE  ClicksInv'
<1>1. ASSUME phase = "clicks", phase' = "clicks", workers' = workers,
             NEW to, click' = [click EXCEPT ![w] = to], to # "idle", click[w] # "idle",
             sent' \in [WorkerIds -> Nat], views \subseteq views',
             \A v \in WorkerIds \ {w} : sent'[v] = sent[v],
             \A x \in Shown(w) : x.id <= sent'[w] => InViews(x.row)',
             to = "ok" => \A x \in Shown(w) : InViews(x.row)'
      PROVE  ClicksInv'
  <2>1. \A v \in WorkerIds : click'[v] = IF v = w THEN to ELSE click[v]
    BY <1>1 DEF ClicksInv
  <2>2. click' = [v \in WorkerIds |-> click'[v]]
    BY <1>1, <2>1 DEF ClicksInv
  <2>3. \A r : InViews(r) => InViews(r)'
    BY <1>1 DEF InViews
  <2>4. \A v \in WorkerIds : Shown(v)' = Shown(v)
    BY <1>1 DEF Shown, Numbered, Place, Earlier, Views
  <2>5. ASSUME NEW v \in WorkerIds
        PROVE  /\ click'[v] = "idle" => v >= workers'
               /\ \A x \in Shown(v)' : x.id <= sent'[v] => InViews(x.row)'
               /\ click'[v] = "ok" => \A x \in Shown(v)' : InViews(x.row)'
    <3>1. CASE v = w
      BY <1>1, <2>1, <2>4, <3>1
    <3>2. CASE v # w
      <4>1. /\ click[v] = "idle" => v >= workers
            /\ \A x \in Shown(v) : x.id <= sent[v] => InViews(x.row)
            /\ click[v] = "ok" => \A x \in Shown(v) : InViews(x.row)
        BY <1>1 DEF ClicksInv
      <4>2. QED BY <1>1, <2>1, <2>3, <2>4, <3>2, <4>1
    <3>3. QED BY <3>1, <3>2
  <2>6. QED BY <1>1, <2>2, <2>5 DEF ClicksInv, Ended
<1>2. /\ sent \in [WorkerIds -> Nat] /\ sent[w] \in Nat
      /\ phase = "clicks" =>
            /\ \A x \in Shown(w) : x.id <= sent[w] => InViews(x.row)
    BY DEF ClicksInv
<1>3. ASSUME NEW from, NEW to, ClickStep(w, from, to), from # "idle", to \notin {"idle", "ok"},
             views \subseteq views', sent' = sent
      PROVE  ClicksInv'
  <2>1. \A r : InViews(r) => InViews(r)'
    BY <1>3 DEF InViews
  <2>2. /\ phase = "clicks" /\ phase' = "clicks" /\ workers' = workers
        /\ click[w] = from /\ click' = [click EXCEPT ![w] = to]
    BY <1>3 DEF ClickStep, captureVars
  <2>3. \A x \in Shown(w) : x.id <= sent'[w] => InViews(x.row)'
    BY <1>2, <1>3, <2>1, <2>2
  <2>4. QED BY <1>1, <1>2, <1>3, <2>2, <2>3
<1>4. ASSUME \/ OpenWriter(w) \/ LookAtPool(w) \/ InstallPool(w)
             \/ ViewsRefused(w) \/ FlushViewsFails(w)
      PROVE  ClicksInv'
    BY <1>3, <1>4 DEF OpenWriter, LookAtPool, InstallPool, ViewsRefused, FlushViewsFails
<1>5. ASSUME FlushViews(w) PROVE ClicksInv'
  <2>1. /\ phase = "clicks" /\ phase' = "clicks" /\ workers' = workers
        /\ click[w] = "emit" /\ click' = [click EXCEPT ![w] = "emit"]
    BY <1>5 DEF FlushViews, ClickStep, captureVars
  <2>2. /\ views' = views \cup NextViews(w)
        /\ sent' = [sent EXCEPT ![w] = @ + Cardinality(NextViews(w))]
    BY <1>5 DEF FlushViews
  <2>3. /\ Cardinality(NextViews(w)) \in Nat /\ Cardinality(NextViews(w)) <= Batch
        /\ Batch \in Nat
    BY <1>2, NextViewsCount, WebAssumption DEF WebAssumption
  <2>4. /\ sent' \in [WorkerIds -> Nat] /\ sent'[w] <= sent[w] + Batch
        /\ \A v \in WorkerIds \ {w} : sent'[v] = sent[v]
    BY <1>2, <2>2, <2>3
  <2>5. ASSUME NEW x \in Shown(w), x.id <= sent'[w]
        PROVE  InViews(x.row)'
    <3>1. CASE x.id <= sent[w]
      BY <1>2, <2>1, <2>2, <3>1 DEF InViews
    <3>2. CASE ~(x.id <= sent[w])
      <4>1. x.id \in Nat
        <5>1. PICK p \in DaysOf(w, workers) : x = [id |-> Place(p, DaysOf(w, workers)), row |-> p]
          BY DEF Shown, Numbered, DaysOf
        <5>2. IsFiniteSet(DaysOf(w, workers)) /\ p[1] \in Nat /\ p[2] \in Nat
          BY DaysFinite
        <5>3. Cardinality(DaysOf(w, workers)) \in Nat
          BY <5>2, FS_CardinalityType
        <5>4. QED BY <5>1, <5>2, <5>3, PlaceInRange
      <4>2. sent[w] < x.id /\ x.id <= sent[w] + Batch
        BY <1>2, <2>3, <2>4, <2>5, <3>2, <4>1
      <4>3. [id |-> PageViewID(w, x.id), row |-> x.row] \in NextViews(w)
        BY <4>2 DEF NextViews
      <4>4. QED BY <2>2, <4>3 DEF InViews
    <3>3. QED BY <3>1, <3>2
  <2>6. QED BY <1>1, <2>1, <2>2, <2>4, <2>5
<1>6. ASSUME WorkerDone(w) PROVE ClicksInv'
  <2>1. /\ phase = "clicks" /\ phase' = "clicks" /\ workers' = workers
        /\ click[w] = "emit" /\ click' = [click EXCEPT ![w] = "ok"]
        /\ views' = views /\ sent' = sent /\ NextViews(w) = {}
    BY <1>6 DEF WorkerDone, ClickStep, captureVars
  <2>2. \A r : InViews(r) => InViews(r)'
    BY <2>1 DEF InViews
  <2>3. \A x \in Shown(w) : InViews(x.row)'
    BY <1>2, <2>1, <2>2, NothingToSend
  <2>4. QED BY <1>1, <1>2, <2>1, <2>3
<1>7. QED BY <1>4, <1>5, <1>6

LEMMA ClicksStep ==
    ASSUME ClicksInv, ViewsInv, workers \in 1..MaxWorkers, Next
    PROVE  ClicksInv'
<1>1. ASSUME UNCHANGED <<views, click, sent>>, phase \notin Ended \cup {"clicks"}, phase' # "clicks"
      PROVE  ClicksInv'
    BY <1>1 DEF ClicksInv
<1>2. ASSUME NEW t \in Tables,
             SkipTable(t) \/ FlushBatch(t) \/ BatchRefused(t) \/ FlushFails(t) \/ TableWritten(t)
      PROVE  ClicksInv'
  <2>1. /\ UNCHANGED <<views, click, sent>> /\ phase \notin Ended \cup {"clicks"}
        /\ phase' # "clicks"
    BY <1>2 DEF SkipTable, FlushBatch, BatchRefused, FlushFails, TableWritten, After, Tables, Ended
  <2>2. QED BY <1>1, <2>1
<1>3. ASSUME Capture \/ SkipClickstream PROVE ClicksInv'
  <2>1. /\ UNCHANGED <<views, click, sent>> /\ phase \notin Ended \cup {"clicks"}
        /\ phase' # "clicks"
    BY <1>3 DEF Capture, SkipClickstream, Ended
  <2>2. QED BY <1>1, <2>1
<1>4. ASSUME Crash PROVE ClicksInv'
    BY <1>4 DEF Crash, ClicksInv, Ended
<1>5. ASSUME Rerun PROVE ClicksInv'
    BY <1>5 DEF Rerun, ClicksInv, Ended
<1>6. ASSUME OpenGate PROVE ClicksInv'
  <2>1. /\ phase' = "clicks" /\ workers' = workers /\ sent' = sent
        /\ sent' \in [WorkerIds -> Nat] /\ \A w \in WorkerIds : sent'[w] = 0
        /\ click' = [w \in WorkerIds |-> IF w < workers THEN "open" ELSE "idle"]
    BY <1>6 DEF OpenGate, captureVars, ClicksInv, Ended
  <2>2. ASSUME NEW w \in WorkerIds, NEW x \in Shown(w)'
        PROVE  ~(x.id <= sent'[w])
    <3>1. PICK p \in DaysOf(w, workers) : x = [id |-> Place(p, DaysOf(w, workers)), row |-> p]
      BY <2>1 DEF Shown, Numbered, DaysOf, Place, Earlier, Views
    <3>2. IsFiniteSet(DaysOf(w, workers)) /\ p[1] \in Nat /\ p[2] \in Nat
      BY DaysFinite
    <3>3. Cardinality(DaysOf(w, workers)) \in Nat
      BY <3>2, FS_CardinalityType
    <3>4. x.id \in Nat /\ x.id > 0
      BY <3>1, <3>2, <3>3, PlaceInRange
    <3>5. QED BY <2>1, <3>4
  <2>3. MaxWorkers \in Nat /\ workers \in Nat
    BY CaptureAssumption DEF CaptureAssumption
  <2>4. \A w \in WorkerIds : click'[w] # "ok" /\ (click'[w] = "idle" => w >= workers')
    BY <2>1, <2>3 DEF WorkerIds
  <2>5. QED BY <2>1, <2>2, <2>4 DEF ClicksInv, Ended
<1>7. ASSUME AwaitClicks PROVE ClicksInv'
  <2>1. CASE \E w \in WorkerIds : click[w] = "error"
    BY <1>7, <2>1 DEF AwaitClicks, ClicksInv, Ended
  <2>2. CASE ~\E w \in WorkerIds : click[w] = "error"
    <3>1. phase = "clicks" /\ \A w \in WorkerIds : click[w] \in {"idle", "ok"}
      BY <1>7, <2>2 DEF AwaitClicks
    <3>2. {v.row : v \in views} = Views
      BY <3>1, AllShown
    <3>3. phase' = "done" /\ UNCHANGED <<views, click, sent>> /\ Views' = Views
      BY <1>7, <2>2 DEF AwaitClicks, Views
    <3>4. QED BY <3>2, <3>3 DEF ClicksInv, Ended
  <2>3. QED BY <2>1, <2>2
<1>8. QED BY <1>2, <1>3, <1>4, <1>5, <1>6, <1>7, WorkerStep DEF Next, Advance

\* A table with nothing left to write is whole.
LEMMA TableIsWhole ==
    ASSUME TablesInv, NEW t \in Tables, phase = t, NextBatch(t) = {},
           written = 0 => stored[t] = {}
    PROVE  stored[t] = Final(t)
<1> DEFINE rows == Emitted(t, Sample)
<1>1. Rows(t) = Final(t) /\ written \in Nat /\ Batch \in Nat /\ Batch > 0
  <2>1. Rows(t) = Final(t)
    BY RowsAreFinal
  <2>2. QED BY <2>1, WebAssumption DEF TablesInv, WebAssumption
<1>2. t = "accounts" \/ ProperSample
    BY CaptureComplete DEF TablesInv, Sampled, Tables
<1>3. IsFiniteSet(rows) /\ rows \subseteq Nat \X Nat /\ Final(t) = Numbered(rows)
    BY <1>2, EmittedFinite DEF Final
<1> HIDE DEF rows
<1>4. \A p \in rows : ~(Place(p, rows) > written)
  <2> SUFFICES ASSUME NEW p \in rows, Place(p, rows) > written
               PROVE  FALSE
    OBVIOUS
  <2>1. PICK q \in rows : Place(q, rows) = written + 1
    BY <1>1, <1>3, NextPlace
  <2> DEFINE x == [id |-> Place(q, rows), row |-> q]
  <2>2. x \in Rows(t) /\ x.id = written + 1
    BY <1>1, <1>3, <2>1 DEF Numbered
  <2> HIDE DEF x
  <2>3. QED BY <1>1, <2>2 DEF NextBatch
<1>5. \A r \in Final(t) : r.id \in Nat /\ r.id > 0 /\ r.id <= written
  <2>1. \A r \in Final(t) : r.id \in Nat /\ r.id > 0
    BY <1>2, IdsPositive
  <2>2. \A r \in Final(t) : ~(r.id > written)
    BY <1>3, <1>4 DEF Numbered
  <2>3. QED BY <1>1, <2>1, <2>2
<1>6. CASE written = 0
    BY <1>5, <1>6
<1>7. CASE written > 0
    BY <1>5, <1>7 DEF TablesInv, Beginning
<1>8. QED BY <1>1, <1>6, <1>7

LEMMA FirstRunStep ==
    ASSUME FirstRunInv, TablesInv, ClicksInv, ViewsInv, Next
    PROVE  FirstRunInv'
<1> SUFFICES ASSUME runs' = 1
             PROVE  FirstRunInv'
  <2>1. runs' \in Nat \ {0}
    <3>1. runs' = runs \/ runs' = runs + 1
      BY DEF Next, Advance, SkipTable, FlushBatch, BatchRefused, FlushFails, TableWritten,
             Capture, OpenGate, SkipClickstream, OpenWriter, LookAtPool, InstallPool, FlushViews,
             ViewsRefused, FlushViewsFails, WorkerDone, ClickStep, AwaitClicks, Crash, Rerun
    <3>2. QED BY <3>1 DEF FirstRunInv
  <2>2. QED BY <2>1 DEF FirstRunInv
<1>1. ~Rerun /\ runs = 1
  <2>1. ~Rerun
    BY DEF Rerun, FirstRunInv
  <2>2. runs' = runs
    BY <2>1 DEF Next, Advance, SkipTable, FlushBatch, BatchRefused, FlushFails, TableWritten,
             Capture, OpenGate, SkipClickstream, OpenWriter, LookAtPool, InstallPool, FlushViews,
             ViewsRefused, FlushViewsFails, WorkerDone, ClickStep, AwaitClicks, Crash
  <2>3. QED BY <2>1, <2>2
<1>2. \A t \in Tables : Final(t)' = Final(t)
    BY DEF Final
<1>3. ASSUME NEW t \in Tables, phase = t
      PROVE  /\ written = 0 => stored[t] = {}
             /\ ~AlreadyLoaded(t)
             /\ views = {}
             /\ \A u \in Tables : /\ u \in Behind[t] => stored[u] = Final(u)
                                  /\ u \notin Behind[t] /\ u # t => stored[u] = {}
  <2>1. t \in DOMAIN Behind /\ t \notin Behind[t] /\ t \notin Ended \cup {"clicks"}
    BY DEF Behind, Tables, Ended
  <2>2. QED BY <1>1, <1>3, <2>1 DEF FirstRunInv, AlreadyLoaded
<1>4. ASSUME NEW t \in Tables, FlushBatch(t) PROVE FirstRunInv'
  <2>1. /\ phase = t /\ phase' = t /\ written' = written + Batch /\ views' = views
        /\ \A u \in Tables \ {t} : stored'[u] = stored[u]
    BY <1>4 DEF FlushBatch, TablesInv
  <2>2. written' > 0 /\ written' # 0
    BY <2>1, WebAssumption DEF TablesInv, WebAssumption
  <2>3. t \notin Behind[t] /\ t \notin Ended /\ t # "clicks"
    BY DEF Behind, Tables, Ended
  <2>4. \A u \in Tables :
            /\ u \in Behind[t] => stored'[u] = Final(u)
            /\ u \notin Behind[t] /\ (t = u => written' = 0) => stored'[u] = {}
    BY <1>3, <2>1, <2>2, <2>3
  <2>5. views' = {}
    BY <1>3, <2>1
  <2>6. QED BY <1>1, <1>2, <2>1, <2>3, <2>4, <2>5 DEF FirstRunInv, Ended
<1>5. ASSUME NEW t \in Tables, TableWritten(t) PROVE FirstRunInv'
  <2>1. /\ phase = t /\ phase' = After[t] /\ views' = views /\ stored' = stored
        /\ NextBatch(t) = {}
    BY <1>5 DEF TableWritten
  <2>2. stored[t] = Final(t)
    BY <1>3, <2>1, TableIsWhole
  <2>3. Behind[After[t]] = Behind[t] \cup {t}
    BY DEF Behind, After, Tables
  <2>4. After[t] \notin Ended \cup {"clicks"}
    BY DEF After, Tables, Ended
  <2>5. \A u \in Tables :
            /\ u \in Behind[After[t]] => stored'[u] = Final(u)
            /\ u \notin Behind[After[t]] => stored'[u] = {}
    BY <1>3, <2>1, <2>2, <2>3
  <2>6. QED BY <1>1, <1>2, <1>3, <2>1, <2>4, <2>5 DEF FirstRunInv, Ended
<1>6. ASSUME phase' \in {"failed", "down"} PROVE FirstRunInv'
    BY <1>1, <1>6 DEF FirstRunInv, Behind, Ended
<1>7. ASSUME Capture PROVE FirstRunInv'
  <2>1. /\ phase = "capture" /\ phase' \in {"capture", "reviews", "failed"}
        /\ UNCHANGED <<stored, views>>
    BY <1>7 DEF Capture
  <2>2. /\ views = {}
        /\ \A u \in Tables : /\ u \in {"accounts"} => stored[u] = Final(u)
                             /\ u \notin {"accounts"} => stored[u] = {}
    BY <1>1, <2>1 DEF FirstRunInv, Behind, Ended, Tables
  <2>3. CASE phase' # "failed"
    BY <1>1, <1>2, <2>1, <2>2, <2>3 DEF FirstRunInv, Behind, Ended
  <2>4. QED BY <1>6, <2>1, <2>3
<1>8. ASSUME phase \in {"gate", "clicks"}, phase' \in {"clicks", "done"}, stored' = stored,
             phase' = "done" => stage' = "merged" /\ \E w \in WorkerIds : click'[w] = "ok"
      PROVE  FirstRunInv'
  <2>1. \A u \in Tables : stored[u] = Final(u)
    BY <1>1, <1>8 DEF FirstRunInv, Behind
  <2>2. QED BY <1>1, <1>2, <1>8, <2>1 DEF FirstRunInv, Behind, Ended
<1>9. ASSUME AwaitClicks PROVE FirstRunInv'
  <2>1. CASE \E w \in WorkerIds : click[w] = "error"
    BY <1>6, <1>9, <2>1 DEF AwaitClicks
  <2>2. CASE ~\E w \in WorkerIds : click[w] = "error"
    <3>1. phase = "clicks" /\ \A w \in WorkerIds : click[w] \in {"idle", "ok"}
      BY <1>9, <2>2 DEF AwaitClicks
    <3>2. \E w \in WorkerIds : click[w] = "ok"
      BY <3>1, AllShown DEF TablesInv, CaptureInv, SampleTypeOK
    <3>3. phase' = "done" /\ stage' = "merged" /\ click' = click /\ stored' = stored
      BY <1>9, <2>2 DEF AwaitClicks, captureVars, TablesInv, Sampled
    <3>4. QED BY <1>8, <3>1, <3>2, <3>3
  <2>3. QED BY <2>1, <2>2
<1>10. ~SkipClickstream
    BY <1>1 DEF SkipClickstream, FirstRunInv, Ended
<1>11. ASSUME OpenGate PROVE FirstRunInv'
    BY <1>8, <1>11 DEF OpenGate
<1>12. ASSUME NEW w \in WorkerIds,
              \/ OpenWriter(w) \/ LookAtPool(w) \/ InstallPool(w) \/ FlushViews(w)
              \/ ViewsRefused(w) \/ FlushViewsFails(w) \/ WorkerDone(w)
       PROVE  FirstRunInv'
  <2>1. phase = "clicks" /\ phase' = "clicks" /\ stored' = stored
    BY <1>12 DEF OpenWriter, LookAtPool, InstallPool, FlushViews, ViewsRefused, FlushViewsFails,
                 WorkerDone, ClickStep
  <2>2. QED BY <1>8, <2>1
<1>13. ASSUME NEW t \in Tables, SkipTable(t) PROVE FALSE
    BY <1>3, <1>13 DEF SkipTable
<1>14. ASSUME NEW t \in Tables, BatchRefused(t) \/ FlushFails(t) PROVE FirstRunInv'
    BY <1>6, <1>14 DEF BatchRefused, FlushFails
<1>15. ASSUME Crash PROVE FirstRunInv'
    BY <1>6, <1>15 DEF Crash
<1>16. QED BY <1>1, <1>4, <1>5, <1>7, <1>9, <1>10, <1>11, <1>12, <1>13, <1>14, <1>15
       DEF Next, Advance

LEMMA LoadInit == Init => ViewsInv /\ ClicksInv /\ FirstRunInv
<1> SUFFICES ASSUME Init PROVE ViewsInv /\ ClicksInv /\ FirstRunInv
    OBVIOUS
<1>1. 1 \in 1..MaxWorkers
    BY CaptureAssumption DEF CaptureAssumption
<1>2. ViewsInv
    BY <1>1 DEF Init, ViewsInv
<1>3. ClicksInv
    BY DEF Init, ClicksInv, Ended
<1>4. FirstRunInv
    BY DEF Init, FirstRunInv, Behind, Tables, Ended
<1>5. QED BY <1>2, <1>3, <1>4

LEMMA LoadStutter ==
    ASSUME UNCHANGED vars
    PROVE  (ViewsInv => ViewsInv') /\ (ClicksInv => ClicksInv') /\ (FirstRunInv => FirstRunInv')
<1>1. workers' = workers /\ UNCHANGED <<stage, phase, written, stored, views, click, sent, runs>>
    BY DEF vars, loadVars, captureVars
<1>2. Generated(workers)' = Generated(workers) /\ \A n : Generated(n)' = Generated(n)
    BY <1>1, GeneratedStays
<1>3. ViewsInv => ViewsInv'
    BY <1>1, <1>2 DEF ViewsInv
<1>4. ClicksInv => ClicksInv'
  <2>1. \A w : Shown(w)' = Shown(w)
    BY <1>1 DEF Shown, Numbered, Place, Earlier, Views
  <2>2. \A v : InViews(v)' <=> InViews(v)
    BY <1>1 DEF InViews
  <2>3. Views' = Views
    BY DEF Views
  <2>4. QED BY <1>1, <2>1, <2>2, <2>3 DEF ClicksInv
<1>5. FirstRunInv => FirstRunInv'
    BY <1>1 DEF FirstRunInv, Final
<1>6. QED BY <1>3, <1>4, <1>5

LEMMA LoadAlways == Spec => [](TablesInv /\ ViewsInv /\ ClicksInv /\ FirstRunInv)
<1>1. TablesInv => workers \in 1..MaxWorkers
    BY DEF TablesInv, CaptureInv, SampleTypeOK
<1>2. TablesInv /\ ViewsInv /\ ClicksInv /\ FirstRunInv /\ [Next]_vars
          => ViewsInv' /\ ClicksInv' /\ FirstRunInv'
    BY <1>1, ViewsStep, ClicksStep, FirstRunStep, LoadStutter
<1>3. QED BY <1>2, LoadInit, TablesAlways, PTL DEF Spec

\* "disjoint id range" and "all-or-nothing resume" (LoadWeb, step 6): no page view
\* is stored twice, for any number of workers, runs and deaths.
THEOREM EveryViewOnce == Spec => []ViewStoredOnce
<1>1. ViewsInv => ViewStoredOnce
  <2> SUFFICES ASSUME ViewsInv, NEW u \in views, NEW v \in views, u.id = v.id \/ u.row = v.row
               PROVE  u = v
    BY DEF ViewStoredOnce
  <2>1. PICK n \in 1..MaxWorkers : views \subseteq Generated(n)
    BY DEF ViewsInv
  <2>2. PICK a \in Views : u = [id |-> IdOf(a, n), row |-> a]
    BY <2>1 DEF Generated
  <2>3. PICK b \in Views : v = [id |-> IdOf(b, n), row |-> b]
    BY <2>1 DEF Generated
  <2>4. u.id = IdOf(a, n) /\ u.row = a /\ v.id = IdOf(b, n) /\ v.row = b
    BY <2>2, <2>3
  <2>5. a = b
    BY <2>4, IdsDiffer
  <2>6. QED BY <2>2, <2>3, <2>5
<1>2. QED BY <1>1, LoadAlways, PTL

\* "iff the table is empty (resume-safe)" (writeBatchedIfEmpty): a first load that
\* reports success has all the rows of every table and every page view.
THEOREM FirstSuccess == Spec => []FirstSuccessIsWhole
<1>1. TablesInv /\ ClicksInv /\ FirstRunInv => FirstSuccessIsWhole
  <2> SUFFICES ASSUME TablesInv, ClicksInv, FirstRunInv, runs = 1, phase = "done"
               PROVE  /\ \A t \in Tables : stored[t] = Rows(t)
                      /\ {v.row : v \in views} = Views
    BY DEF FirstSuccessIsWhole, SuccessIsWhole
  <2>1. /\ stage = "merged" /\ \E w \in WorkerIds : click[w] = "ok"
        /\ \A t \in Tables : stored[t] = Final(t)
    BY DEF FirstRunInv, Behind
  <2>2. reservoir = Sample
    BY <2>1, CaptureComplete DEF TablesInv
  <2>3. \A t \in Tables : Rows(t) = Final(t)
    BY <2>2 DEF Rows, Final
  <2>4. QED BY <2>1, <2>3 DEF ClicksInv
<1>2. QED BY <1>1, LoadAlways, PTL

-----------------------------------------------------------------------------
(* What a run reports.                                                     *)

\* While no worker has failed, the page views there are those the workers counted.
CountInv ==
    /\ phase = "clicks" /\ (\A w \in WorkerIds : click[w] # "error") =>
          IsFiniteSet(views) /\ Cardinality(views) = SumFunctionOnSet(sent, WorkerIds)
    /\ phase = "done" /\ (\E w \in WorkerIds : click[w] = "ok") =>
          reported = Cardinality(views)

LEMMA WorkersFinite == IsFiniteSet(WorkerIds)
<1>1. MaxWorkers - 1 \in Int /\ 0 \in Int
    BY CaptureAssumption DEF CaptureAssumption
<1>2. QED BY <1>1, FS_Interval DEF WorkerIds

\* The workers' counts, added as AwaitClicks adds them.
LEMMA SentSummed == MapThenSumSet(LAMBDA w : sent[w], WorkerIds) = SumFunctionOnSet(sent, WorkerIds)
  BY DEF MapThenSumSet, SumFunctionOnSet, FoldFunctionOnSet

\* A batch adds to the page views what it adds to its worker's count.
LEMMA FlushCounts ==
    ASSUME ClicksInv, IsFiniteSet(views),
           Cardinality(views) = SumFunctionOnSet(sent, WorkerIds),
           NEW w \in WorkerIds, FlushViews(w)
    PROVE  IsFiniteSet(views') /\ Cardinality(views') = SumFunctionOnSet(sent', WorkerIds)
<1> DEFINE N == NextViews(w)
           c == Cardinality(N)
           others == WorkerIds \ {w}
<1>1. sent \in [WorkerIds -> Nat] /\ sent[w] \in Nat
    BY DEF ClicksInv
<1>2. /\ views' = views \cup N /\ sent' = [sent EXCEPT ![w] = @ + c]
      /\ \A v \in N : ~IdTaken(v)
    BY DEF FlushViews
<1>3. IsFiniteSet(N) /\ c \in Nat
  BY <1>1, NextViewsCount
<1>4. views \cap N = {}
  <2>1. ASSUME NEW v \in N PROVE v \notin views
    BY <1>2, <2>1 DEF IdTaken
  <2> HIDE DEF N
  <2>2. \A v : ~(v \in views /\ v \in N)
    BY <2>1
  <2>3. QED BY <2>2
<1> HIDE DEF N, c
<1>5. IsFiniteSet(views') /\ Cardinality(views') = Cardinality(views) + c
  <2>1. IsFiniteSet(views) /\ IsFiniteSet(N)
    BY <1>3
  <2>2. /\ IsFiniteSet(views \cup N)
        /\ Cardinality(views \cup N) = Cardinality(views) + Cardinality(N) - Cardinality(views \cap N)
    BY <2>1, FS_Union
  <2>3. Cardinality(views \cap N) = 0 /\ Cardinality(views) \in Nat
    BY <1>4, <2>1, FS_EmptySet, FS_CardinalityType
  <2>4. views' = views \cup N
    BY <1>2
  <2>5. Cardinality(N) = c
    BY DEF c
  <2>6. QED BY <1>3, <2>2, <2>3, <2>4, <2>5
<1>6. sent' \in [WorkerIds -> Nat] /\ sent'[w] = sent[w] + c
      /\ \A v \in others : sent'[v] = sent[v]
    BY <1>1, <1>2, <1>3
<1>7. IsFiniteSet(WorkerIds) /\ IsFiniteSet(others)
    BY WorkersFinite, FS_RemoveElement
<1>8. SumFunctionOnSet(sent', others) = SumFunctionOnSet(sent, others)
    BY <1>6, <1>7, SumOfEqual
<1>9. SumFunctionOnSet(sent, WorkerIds) = sent[w] + SumFunctionOnSet(sent, others)
  <2>1. \A v \in WorkerIds : sent[v] \in Int
    BY <1>1
  <2>2. QED BY <1>7, <2>1, SumSplit
<1>10. SumFunctionOnSet(sent', WorkerIds) = sent'[w] + SumFunctionOnSet(sent', others)
  <2>1. \A v \in WorkerIds : sent'[v] \in Int
    BY <1>6
  <2>2. QED BY <1>7, <2>1, SumSplit
<1>11. SumFunctionOnSet(sent, others) \in Int
  <2>1. \A v \in others : sent[v] \in Int
    BY <1>1
  <2>2. QED BY <1>7, <2>1, SumType
<1>12. QED BY <1>1, <1>3, <1>5, <1>6, <1>8, <1>9, <1>10, <1>11

LEMMA CountStep ==
    ASSUME CountInv, ClicksInv, workers \in 1..MaxWorkers, Next
    PROVE  CountInv'
<1>1. ASSUME phase' \notin {"clicks", "done"} PROVE CountInv'
    BY <1>1 DEF CountInv
<1>2. ASSUME NEW t \in Tables,
             SkipTable(t) \/ FlushBatch(t) \/ BatchRefused(t) \/ FlushFails(t) \/ TableWritten(t)
      PROVE  CountInv'
  <2>1. phase' \notin {"clicks", "done"}
    BY <1>2 DEF SkipTable, FlushBatch, BatchRefused, FlushFails, TableWritten, After, Tables
  <2>2. QED BY <1>1, <2>1
<1>3. ASSUME Capture \/ Crash \/ Rerun PROVE CountInv'
  <2>1. phase' \notin {"clicks", "done"}
    BY <1>3 DEF Capture, Crash, Rerun
  <2>2. QED BY <1>1, <2>1
<1>4. ASSUME OpenGate PROVE CountInv'
  <2>1. phase = "gate" /\ phase' = "clicks" /\ views' = {} /\ sent' = sent
    BY <1>4 DEF OpenGate
  <2>2. \A w \in WorkerIds : sent'[w] = 0
    BY <2>1 DEF ClicksInv, Ended
  <2>3. SumFunctionOnSet(sent', WorkerIds) = 0
    BY <2>2, WorkersFinite, SumOfZeros
  <2>4. IsFiniteSet({}) /\ Cardinality({}) = 0
    BY FS_EmptySet
  <2>5. QED BY <2>1, <2>3, <2>4 DEF CountInv
<1>5. ASSUME SkipClickstream PROVE CountInv'
  <2>1. phase = "gate" /\ phase' = "done" /\ click' = click
    BY <1>5 DEF SkipClickstream
  <2>2. \A w \in WorkerIds : click[w] = "idle"
    BY <2>1 DEF ClicksInv, Ended
  <2>3. QED BY <2>1, <2>2 DEF CountInv
<1>6. ASSUME NEW w \in WorkerIds, NEW from, NEW to, ClickStep(w, from, to)
      PROVE  /\ phase = "clicks" /\ phase' = "clicks" /\ click[w] = from /\ click'[w] = to
             /\ \A v \in WorkerIds : v # w => click'[v] = click[v]
  <2>1. phase = "clicks" /\ phase' = phase /\ click[w] = from /\ click' = [click EXCEPT ![w] = to]
    BY <1>6 DEF ClickStep
  <2>2. click = [v \in WorkerIds |-> click[v]]
    BY DEF ClicksInv
  <2>3. QED BY <2>1, <2>2
<1>7. ASSUME NEW w \in WorkerIds, NEW from, from # "error", NEW to, ClickStep(w, from, to),
             to = "error" \/ UNCHANGED <<views, sent>>
      PROVE  CountInv'
  <2>1. CASE to = "error"
    <3>1. phase' = "clicks" /\ \E v \in WorkerIds : click'[v] = "error"
      BY <1>6, <1>7, <2>1
    <3>2. QED BY <3>1 DEF CountInv
  <2>2. CASE to # "error" /\ UNCHANGED <<views, sent>>
    <3>1. /\ phase = "clicks" /\ phase' = "clicks"
          /\ \A v \in WorkerIds : click[v] = "error" => click'[v] = "error"
      BY <1>6, <1>7
    <3>2. QED BY <2>2, <3>1 DEF CountInv
  <2>3. QED BY <1>7, <2>1, <2>2
<1>8. ASSUME NEW w \in WorkerIds,
             \/ OpenWriter(w) \/ LookAtPool(w) \/ InstallPool(w)
             \/ ViewsRefused(w) \/ FlushViewsFails(w) \/ WorkerDone(w)
      PROVE  CountInv'
    BY <1>7, <1>8 DEF OpenWriter, LookAtPool, InstallPool, ViewsRefused, FlushViewsFails, WorkerDone
<1>9. ASSUME NEW w \in WorkerIds, FlushViews(w) PROVE CountInv'
  <2>1. ClickStep(w, "emit", "emit")
    BY <1>9 DEF FlushViews
  <2>2. /\ phase = "clicks" /\ phase' = "clicks"
        /\ \A v \in WorkerIds : click[v] = "error" => click'[v] = "error"
    BY <1>6, <2>1
  <2>3. CASE \A v \in WorkerIds : click'[v] # "error"
    <3>1. IsFiniteSet(views) /\ Cardinality(views) = SumFunctionOnSet(sent, WorkerIds)
      BY <2>2, <2>3 DEF CountInv
    <3>2. IsFiniteSet(views') /\ Cardinality(views') = SumFunctionOnSet(sent', WorkerIds)
      BY <1>9, <3>1, FlushCounts
    <3>3. QED BY <2>2, <3>2 DEF CountInv
  <2>4. CASE ~ \A v \in WorkerIds : click'[v] # "error"
    BY <2>2, <2>4 DEF CountInv
  <2>5. QED BY <2>3, <2>4
<1>10. ASSUME AwaitClicks PROVE CountInv'
  <2>1. CASE \E w \in WorkerIds : click[w] = "error"
    BY <1>1, <1>10, <2>1 DEF AwaitClicks
  <2>2. CASE ~ \E w \in WorkerIds : click[w] = "error"
    <3>1. /\ phase = "clicks" /\ phase' = "done" /\ UNCHANGED <<views, click, sent>>
          /\ reported' = MapThenSumSet(LAMBDA w : sent[w], WorkerIds)
      BY <1>10, <2>2 DEF AwaitClicks
    <3>2. Cardinality(views) = SumFunctionOnSet(sent, WorkerIds)
      BY <2>2, <3>1 DEF CountInv
    <3>3. QED BY <3>1, <3>2, SentSummed DEF CountInv
  <2>3. QED BY <2>1, <2>2
<1>11. QED BY <1>2, <1>3, <1>4, <1>5, <1>8, <1>9, <1>10 DEF Next, Advance

LEMMA CountAlways == Spec => [](ClicksInv /\ CountInv)
<1>1. TablesInv => workers \in 1..MaxWorkers
    BY DEF TablesInv, CaptureInv, SampleTypeOK
<1>2. Init => CountInv
    BY DEF Init, CountInv
<1>3. ASSUME CountInv, UNCHANGED vars PROVE CountInv'
    BY <1>3 DEF CountInv, vars, loadVars
<1>4. TablesInv /\ ViewsInv /\ ClicksInv /\ CountInv /\ [Next]_vars => CountInv'
    BY <1>1, <1>3, CountStep
<1>5. QED BY <1>2, <1>4, LoadAlways, PTL DEF Spec

\* A run that generates the clickstream and reports success has stored all of it and
\* reports its size, for every number of workers and whatever earlier runs left
\* (LoadWeb, step 6: atomic.AddInt64 of each worker's count).
THEOREM GeneratedIsStored == Spec => []ClickstreamIsWhole
<1>1. ClicksInv /\ CountInv => ClickstreamIsWhole
    BY DEF ClicksInv, CountInv, ClickstreamIsWhole
<1>2. QED BY <1>1, CountAlways, PTL
==============================================================================
