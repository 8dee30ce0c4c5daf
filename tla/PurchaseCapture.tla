--------------------------- MODULE PurchaseCapture ---------------------------
(***************************************************************************)
(* The parallel capture of reviewers' purchases (web/capture.go and step 3 *)
(* of LoadWeb).  Shops are dealt round-robin to workers; each replays the  *)
(* sales of its shops into a shard of its own, which keeps the K purchases *)
(* of least priority of every reviewer; the shards are then folded into    *)
(* one sample.  The number of workers is the machine's, so nothing of the  *)
(* result may depend on it.                                                *)
(*                                                                         *)
(* A sale is its place in the total order of priGreater.  The order in     *)
(* which a shop's replay produces its sales is left open.                  *)
(***************************************************************************)
EXTENDS Integers, FiniteSetsExt

CONSTANTS
    NumSales,       \* sale lines of the replay
    NumShops,
    ShopOf,         \* the shop of a sale line, 1..NumShops
    CustomerOf,     \* its customer, or NoCustomer
    NoCustomer,
    Refunds,        \* lines of a transaction that refunds another
    Reviewers,      \* MarkReviewers' choice
    K,              \* reservoirK
    MaxWorkers      \* the clamp of webWorkers

Sales == 1..NumSales

CaptureAssumption ==
    /\ {NumSales, NumShops} \subseteq Nat
    /\ ShopOf \in [Sales -> 1..NumShops]
    /\ NoCustomer \notin Reviewers
    /\ K \in Nat \ {0}
    /\ MaxWorkers \in Nat \ {0}

ASSUME CaptureAssumption

VARIABLES
    stage,          \* idle, capturing, merging, merged or failed
    workers,        \* webWorkers() of this process
    unread,         \* sales a worker has still to replay
    local,          \* a worker's sample of each reviewer's purchases
    tally,          \* a worker's count of each reviewer's purchases
    broken,         \* workers whose replay returned an error
    offered,        \* purchases the merge has considered
    reservoir,      \* the sample of each reviewer's purchases
    count           \* the count of each reviewer's purchases

captureVars == <<stage, workers, unread, local, tally, broken, offered, reservoir, count>>

WorkerIds == 0..(MaxWorkers - 1)
NoSamples == [c \in Reviewers |-> {}]
NoCounts == [c \in Reviewers |-> 0]

Idle ==
    /\ stage = "idle"
    /\ workers = 1
    /\ unread = [w \in WorkerIds |-> {}]
    /\ local = [w \in WorkerIds |-> NoSamples]
    /\ tally = [w \in WorkerIds |-> NoCounts]
    /\ broken = {}
    /\ offered = NoSamples
    /\ reservoir = NoSamples
    /\ count = NoCounts

\* A new process starts with nothing captured.
Forget ==
    /\ stage' = "idle"
    /\ workers' = 1
    /\ unread' = [w \in WorkerIds |-> {}]
    /\ local' = [w \in WorkerIds |-> NoSamples]
    /\ tally' = [w \in WorkerIds |-> NoCounts]
    /\ broken' = {}
    /\ offered' = NoSamples
    /\ reservoir' = NoSamples
    /\ count' = NoCounts

\* A bug to catch: shops dealt in whole blocks, the remainder to nobody.
ShardInBlocks(w, n) ==
    {s \in Sales : (ShopOf[s] - 1) \div Max({1, NumShops \div n}) = w}

\* The sales of the shops dealt to worker w of n.
Shard(w, n) == {s \in Sales : (ShopOf[s] - 1) % n = w}

\* The workers start, as many as the machine allows.
StartCapture(n) ==
    /\ stage = "idle"
    /\ stage' = "capturing"
    /\ workers' = n
    /\ unread' = [w \in WorkerIds |-> IF w < n THEN Shard(w, n) ELSE {}]
    /\ UNCHANGED <<local, tally, broken, offered, reservoir, count>>

\* The greatest of a full reservoir, the one to give way.
Worst(kept) == Max(kept)

\* A bug to catch: the newcomer takes the first slot it is below.
ConsiderAny(kept, s) ==
    IF Cardinality(kept) < K THEN kept \cup {s}
    ELSE LET least == CHOOSE x \in kept : \A y \in kept : x <= y
         IN  IF Worst(kept) > s THEN (kept \ {least}) \cup {s} ELSE kept

\* reservoirConsider
Consider(kept, s) ==
    IF Cardinality(kept) < K THEN kept \cup {s}
    ELSE IF Worst(kept) > s THEN (kept \ {Worst(kept)}) \cup {s}
    ELSE kept

IsPurchase(s) == CustomerOf[s] \in Reviewers /\ s \notin Refunds

\* Worker w replays one sale line into its shard; lines of refunds, of nobody
\* and of customers who write no reviews are passed over.
CaptureSale(w, s) ==
    /\ stage = "capturing"
    /\ s \in unread[w]
    /\ unread' = [unread EXCEPT ![w] = @ \ {s}]
    /\ IF IsPurchase(s)
       THEN /\ local' = [local EXCEPT ![w][CustomerOf[s]] = Consider(@, s)]
            /\ tally' = [tally EXCEPT ![w][CustomerOf[s]] = @ + 1]
       ELSE UNCHANGED <<local, tally>>
    /\ UNCHANGED <<stage, workers, broken, offered, reservoir, count>>

\* The replay of worker w returns an error.
ReplayError(w) ==
    /\ stage = "capturing"
    /\ w < workers
    /\ w \notin broken
    /\ broken' = broken \cup {w}
    /\ unread' = [unread EXCEPT ![w] = {}]
    /\ UNCHANGED <<stage, workers, local, tally, offered, reservoir, count>>

\* All workers are done: the merge starts from empty reservoirs, unless one failed.
AwaitWorkers ==
    /\ stage = "capturing"
    /\ \A w \in WorkerIds : unread[w] = {}
    /\ stage' = IF broken = {} THEN "merging" ELSE "failed"
    /\ offered' = NoSamples
    /\ reservoir' = NoSamples
    /\ UNCHANGED <<workers, unread, local, tally, broken, count>>

Kept(c) == UNION {local[w][c] : w \in WorkerIds}

\* MergeCaptureShards: one purchase that some shard kept.
MergeSale(c, s) ==
    /\ stage = "merging"
    /\ s \in Kept(c) \ offered[c]
    /\ offered' = [offered EXCEPT ![c] = @ \cup {s}]
    /\ reservoir' = [reservoir EXCEPT ![c] = Consider(@, s)]
    /\ UNCHANGED <<stage, workers, unread, local, tally, broken, count>>

\* A bug to catch: the counts of what the shards kept, not of what they saw.
TotalKept(c) == MapThenSumSet(LAMBDA w : Cardinality(local[w][c]), WorkerIds)

Total(c) == MapThenSumSet(LAMBDA w : tally[w][c], WorkerIds)

FinishMerge ==
    /\ stage = "merging"
    /\ \A c \in Reviewers : Kept(c) \subseteq offered[c]
    /\ stage' = "merged"
    /\ count' = [c \in Reviewers |-> Total(c)]
    /\ UNCHANGED <<workers, unread, local, tally, broken, offered, reservoir>>

CaptureNext ==
    \/ \E n \in 1..MaxWorkers : StartCapture(n)
    \/ \E w \in WorkerIds : ReplayError(w) \/ \E s \in Sales : CaptureSale(w, s)
    \/ AwaitWorkers
    \/ \E c \in Reviewers, s \in Sales : MergeSale(c, s)
    \/ FinishMerge

CaptureSpec == Idle /\ [][CaptureNext]_captureVars

-----------------------------------------------------------------------------
CaptureTypeOK ==
    /\ stage \in {"idle", "capturing", "merging", "merged", "failed"}
    /\ workers \in 1..MaxWorkers
    /\ unread \in [WorkerIds -> SUBSET Sales]
    /\ local \in [WorkerIds -> [Reviewers -> SUBSET Sales]]
    /\ tally \in [WorkerIds -> [Reviewers -> Nat]]
    /\ broken \subseteq WorkerIds
    /\ offered \in [Reviewers -> SUBSET Sales]
    /\ reservoir \in [Reviewers -> SUBSET Sales]
    /\ count \in [Reviewers -> Nat]

PurchasesOf(c) == {s \in Sales : CustomerOf[s] = c /\ s \notin Refunds}

\* kept holds the K least members of seen, or all of them.
IsBottom(kept, seen) ==
    /\ kept \subseteq seen
    /\ kept = seen \/ Cardinality(kept) = K
    /\ Cardinality(kept) <= K
    /\ \A s \in kept, t \in seen \ kept : s < t

\* "identical for any worker count" (MergeCaptureShards): whatever the number of
\* workers, the order in which they replayed their shops and the order of the
\* merge, a reviewer's sample is the K least of all their purchases.
SampleIsGlobal ==
    stage = "merged" => \A c \in Reviewers : IsBottom(reservoir[c], PurchasesOf(c))

\* "the whale signal - partition-independent" (MergeCaptureShards): the count is
\* of all purchases, not of the kept ones, and is taken from every shard once.
CountIsGlobal ==
    stage = "merged" => \A c \in Reviewers : count[c] = Cardinality(PurchasesOf(c))
==============================================================================
