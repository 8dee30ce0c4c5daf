--------------------------- MODULE ResumablePhase ---------------------------
(***************************************************************************)
(* One multi-table phase of the OLTP load and its resume protocol          *)
(* (dbwriter/resume.go, and the shared shape of loadShops, loadHR,         *)
(* loadCustomers and loadTransactions in dbwriter/load.go).                *)
(*                                                                         *)
(* A deterministic generator emits parents 1..N in order.  Parent i        *)
(* contributes rows to some of the phase's tables; all its rows in one     *)
(* table are written by the same bulk copy and deleted by the same range   *)
(* delete, so a table's content is the set of parents whose rows it holds. *)
(* A batch of parents is flushed table by table, every bulk copy being a   *)
(* transaction of its own, so a crash can fall between any two of them.    *)
(* What is in the tables is the only checkpoint: a new run takes the       *)
(* minimum over the tables of the largest parent present, deletes above    *)
(* it, and regenerates.                                                    *)
(***************************************************************************)
EXTENDS Integers, Sequences

CONSTANTS
    Tables,      \* the tables the phase writes
    N,           \* number of parents the generator emits (bound of the model)
    BatchSize,   \* parents per flush: personBatchSize, custBatchSize, txBatchSize
    Datasets,    \* the row layouts considered: which parents have rows where
    FlushOrder,  \* the order of the bulk copies inside one flush
    Marks,       \* the tables the watermark is taken over (phaseTable lists)
    Deletions,   \* the range deletes of a resume, in execution order
    References,  \* foreign keys inside the phase, as <<child, parent>> tables
    Exposed,     \* tables that rows of later phases hold foreign keys to
    ChecksInserts, \* whether a bulk copy checks foreign keys (COPY does, CopyIn not)
    NetworkFaults  \* whether connections break under a writer that retries

Parents == 1..N

\* The layouts in which every parent has a row in each table outside sparse.
LayoutsWithSparse(sparse) ==
    {[t \in Tables |-> IF t \in sparse THEN s[t] ELSE Parents] :
        s \in [sparse -> SUBSET Parents]}

Batched == "watermark"  \* the bound of a delete that uses the phase watermark

ASSUME PhaseAssumption ==
    /\ N \in Nat \ {0}
    /\ BatchSize \in Nat \ {0}
    /\ Datasets \subseteq [Tables -> SUBSET Parents]
    /\ FlushOrder \in Seq(Tables)
    /\ FlushOrder # << >>
    /\ \A t \in Tables : \E k \in 1..Len(FlushOrder) : FlushOrder[k] = t
    /\ \A j, k \in 1..Len(FlushOrder) : FlushOrder[j] = FlushOrder[k] => j = k
    /\ Marks \subseteq Tables /\ Marks # {}
    /\ Batched \notin Tables
    /\ Deletions \in Seq([table : Tables, above : Tables \cup {Batched}])
    /\ Deletions # << >>
    /\ \A k \in 1..Len(Deletions) :
          Deletions[k].table \in Marks => Deletions[k].above = Batched
    /\ References \subseteq Tables \X Tables
    /\ Exposed \subseteq Tables
    /\ ChecksInserts \in BOOLEAN
    /\ NetworkFaults \in BOOLEAN

\* Every row refers to parents the generator has already emitted.
ASSUME RowsReferBackwards ==
    \A d \in Datasets, e \in References : \A i \in d[e[1]] :
        \E j \in d[e[2]] : j <= i

VARIABLES
    rows,    \* the dataset being loaded, fixed for a behaviour (the seed)
    db,      \* db[t]: parents whose rows are committed in table t
    pinned,  \* <<t, i>>: rows of i in t that a later phase's rows refer to
    pc,      \* where the loading process is
    wm,      \* the watermark of the current run
    lo,      \* first parent not yet flushed by the current run
    at,      \* next delete, or next table of the flush
    fault    \* why the last run stopped with an error

vars == <<rows, db, pinned, pc, wm, lo, at, fault>>

Stages == {"idle", "watermark", "cleanup", "generate", "flush", "loaded", "failed"}
Faults == {"none", "duplicate_key", "fk_insert", "fk_delete"}

-----------------------------------------------------------------------------
(* What the writer and the database do.                                    *)

\* MaxBigint: the largest anchor present, 0 for an empty table.
HighWater(S) == CHOOSE m \in S \cup {0} : \A x \in S : x <= m

\* A bug to catch: the maximum over the tables.
WatermarkOfMax ==
    CHOOSE w \in {HighWater(db[t]) : t \in Marks} :
        \A t \in Marks : w >= HighWater(db[t])

\* resumeWatermark: the minimum over the tables of the largest anchor.
Watermark ==
    CHOOSE w \in {HighWater(db[t]) : t \in Marks} :
        \A t \in Marks : w <= HighWater(db[t])

\* The parent whose row in table p a row emitted for i refers to: the latest
\* one introduced at or before i (i itself unless p is filled on first use).
Referenced(p, i) == HighWater({j \in rows[p] : j <= i})

Threshold(d) == IF d.above = Batched THEN wm ELSE HighWater(db[d.above])

\* A bug to catch: a range delete that includes its bound.
DoomedFromThreshold(d) == {i \in db[d.table] : i >= Threshold(d)}

\* Rows a range delete would remove, and whether some row still needs them.
Doomed(d) == {i \in db[d.table] : i > Threshold(d)}

StillReferenced(t, gone) ==
    \/ \E e \in References : /\ e[2] = t
                             /\ \E i \in db[e[1]] : Referenced(t, i) \in gone
    \/ \E i \in gone : <<t, i>> \in pinned

\* A bug to catch: flushing one parent more than a batch.
LastTooFar == IF lo + BatchSize <= N THEN lo + BatchSize ELSE N

\* The last parent of the batch being filled.
Last == IF lo + BatchSize - 1 <= N THEN lo + BatchSize - 1 ELSE N
Fresh(t) == {i \in rows[t] : lo <= i /\ i <= Last}

\* A bulk copy fails as a whole if a key exists or a referenced row does not.
Duplicate(t) == Fresh(t) \cap db[t] # {}
Orphan(t) ==
    /\ ChecksInserts
    /\ \E e \in References : /\ e[1] = t
                             /\ \E i \in Fresh(t) : Referenced(e[2], i) \notin db[e[2]]

\* The error the database answers the bulk copy with.
Refusal(t) ==
    IF Duplicate(t) THEN "duplicate_key" ELSE IF Orphan(t) THEN "fk_insert" ELSE "none"

-----------------------------------------------------------------------------
Init ==
    /\ rows \in Datasets
    /\ db = [t \in Tables |-> {}]
    /\ pinned = {}
    /\ pc = "idle"
    /\ wm = 0
    /\ lo = 1
    /\ at = 1
    /\ fault = "none"

Fail(why) ==
    /\ pc' = "failed"
    /\ fault' = why
    /\ UNCHANGED <<db, wm, lo, at>>

\* The operator starts the build, or re-runs it whatever the last run came to.
Start ==
    /\ pc \in {"idle", "loaded", "failed"}
    /\ pc' = "watermark"
    /\ fault' = "none"
    /\ UNCHANGED <<rows, db, pinned, wm, lo, at>>

\* A bug to catch: resuming without deleting above the watermark.
TakeWatermarkNoCleanup ==
    /\ pc = "watermark"
    /\ wm' = Watermark
    /\ lo' = Watermark + 1
    /\ at' = 1
    /\ pc' = "generate"
    /\ UNCHANGED <<rows, db, pinned, fault>>

\* A bug to catch: skipping the first parent above the watermark.
TakeWatermarkSkipsOne ==
    /\ pc = "watermark"
    /\ wm' = Watermark
    /\ lo' = IF Watermark < N THEN Watermark + 2 ELSE N + 1
    /\ at' = 1
    /\ pc' = IF Watermark = 0 THEN "generate" ELSE "cleanup"
    /\ UNCHANGED <<rows, db, pinned, fault>>

\* resume(): a zero watermark means "fresh load" and skips the cleanup.
TakeWatermark ==
    /\ pc = "watermark"
    /\ wm' = Watermark
    /\ lo' = Watermark + 1
    /\ at' = 1
    /\ pc' = IF Watermark = 0 THEN "generate" ELSE "cleanup"
    /\ UNCHANGED <<rows, db, pinned, fault>>

\* cleanupAbove and the sweeps after it: one committed DELETE per table.
DeleteAbove ==
    /\ pc = "cleanup"
    /\ UNCHANGED <<rows, pinned>>
    /\ LET d == Deletions[at] IN
       IF StillReferenced(d.table, Doomed(d))
       THEN Fail("fk_delete")
       ELSE /\ db' = [db EXCEPT ![d.table] = @ \ Doomed(d)]
            /\ at' = IF at = Len(Deletions) THEN 1 ELSE at + 1
            /\ pc' = IF at = Len(Deletions) THEN "generate" ELSE "cleanup"
            /\ UNCHANGED <<wm, lo, fault>>

\* A bug to catch: flushing although nothing was generated.
FillBatchUnguarded ==
    /\ pc = "generate"
    /\ pc' = "flush"
    /\ at' = 1
    /\ UNCHANGED <<rows, db, pinned, wm, lo, fault>>

\* The generator's callback fills the next batch, skipping ids up to wm.
FillBatch ==
    /\ pc = "generate"
    /\ lo <= N
    /\ pc' = "flush"
    /\ at' = 1
    /\ UNCHANGED <<rows, db, pinned, wm, lo, fault>>

Flushed(t, new) ==
    /\ db' = [db EXCEPT ![t] = @ \cup new]
    /\ at' = IF at = Len(FlushOrder) THEN 1 ELSE at + 1
    /\ lo' = IF at = Len(FlushOrder) THEN Last + 1 ELSE lo
    /\ pc' = IF at = Len(FlushOrder) THEN "generate" ELSE "flush"
    /\ UNCHANGED <<wm, fault>>

\* One BulkCopy of the flush closure.  When an attempt of the SQL Server writer
\* has met a network fault, it takes a duplicate key for its own lost commit.
FlushTable ==
    /\ pc = "flush"
    /\ UNCHANGED <<rows, pinned>>
    /\ LET t == FlushOrder[at] IN
       \/ /\ Refusal(t) # "none"
          /\ Fail(Refusal(t))
       \/ /\ Refusal(t) = "none"
          /\ Flushed(t, Fresh(t))
       \/ /\ NetworkFaults /\ Refusal(t) = "duplicate_key"
          /\ Flushed(t, {})

\* The final flush had nothing left: the phase reports success.
Finish ==
    /\ pc = "generate"
    /\ lo > N
    /\ pc' = "loaded"
    /\ UNCHANGED <<rows, db, pinned, wm, lo, at, fault>>

\* The process dies (killed, or the writer returns a fatal error) between two
\* committed statements; everything in memory is lost.
Crash ==
    /\ pc \in {"watermark", "cleanup", "generate", "flush"}
    /\ pc' = "idle"
    /\ wm' = 0
    /\ lo' = 1
    /\ at' = 1
    /\ UNCHANGED <<rows, db, pinned, fault>>

\* Later phases run only after this one has loaded, and may then insert rows
\* that refer to its exposed tables.
LaterPhaseRefers ==
    /\ pc = "loaded"
    /\ \E t \in Exposed : \E i \in db[t] : pinned' = pinned \cup {<<t, i>>}
    /\ UNCHANGED <<rows, db, pc, wm, lo, at, fault>>

Work == TakeWatermark \/ DeleteAbove \/ FillBatch \/ FlushTable \/ Finish

Next == Start \/ Work \/ Crash \/ LaterPhaseRefers

Spec == Init /\ [][Next]_vars

\* The process keeps executing and the operator re-runs a build that stopped.
FairSpec == Spec /\ WF_vars(Work) /\ WF_vars(Start)

-----------------------------------------------------------------------------
\* Each variable holds a value of its kind in every reachable state.
TypeOK ==
    /\ rows \in Datasets
    /\ db \in [Tables -> SUBSET Parents]
    /\ pinned \subseteq Tables \X Parents
    /\ pc \in Stages
    /\ wm \in 0..N
    /\ lo \in 1..(N + 1)
    /\ at \in Nat
    /\ pc = "cleanup" => at \in 1..Len(Deletions)
    /\ pc = "flush" => at \in 1..Len(FlushOrder) /\ lo <= N
    /\ fault \in Faults

\* A table the watermark is taken over never has a hole: it holds exactly the
\* generator's rows up to its largest anchor.  This is what makes MAX(anchor)
\* a checkpoint at all, through crashes, partial cleanups and failed re-runs.
NoHoles ==
    \A t \in Marks : \A i \in rows[t] : i <= HighWater(db[t]) => i \in db[t]

\* Why NoHoles and WatermarkSound hold, as one inductive invariant: tables hold
\* rows of the layout only; a marked table holds a prefix of its rows; a run has
\* committed everything before the next batch, and of that batch what the
\* tables already flushed hold.
Covers(t, x) == \A i \in rows[t] : i <= x => i \in db[t]

PrefixClosed(t) == \A i \in rows[t], j \in db[t] : i < j => i \in db[t]

PhaseInv ==
    /\ \A t \in Tables : db[t] \subseteq rows[t]
    /\ \A t \in Marks : PrefixClosed(t)
    /\ pc = "cleanup" => lo = wm + 1
    /\ pc \in {"cleanup", "generate", "flush"} =>
          wm < lo /\ \A t \in Marks : Covers(t, lo - 1)
    /\ pc = "flush" =>
          \A k \in 1..(at - 1) : FlushOrder[k] \in Marks => Covers(FlushOrder[k], Last)
    /\ pc = "loaded" => \A t \in Marks : Covers(t, N)

\* "the largest anchor value for which every table is guaranteed to have
\* committed its share" (resume.go): what a run skips is really there.
WatermarkSound ==
    pc \in {"cleanup", "generate", "flush"} =>
        \A t \in Marks : \A i \in rows[t] : i <= wm => i \in db[t]

\* A phase that reports success has loaded every marked table completely and
\* nothing else, however many crashes and re-runs came before.
MarkedComplete ==
    pc = "loaded" => \A t \in Marks : db[t] = rows[t]

\* The same over all the tables the phase writes, marked or not.
LoadedIsComplete ==
    pc = "loaded" => db = rows

\* No committed row refers to a row that is not there, although bulk copies
\* commit separately and (on SQL Server) skip foreign-key checks.
NoOrphans ==
    \A e \in References : \A i \in db[e[1]] : Referenced(e[2], i) \in db[e[2]]

\* Why: while a run resumes from a positive watermark, the tables cleaned so far
\* hold nothing above it, and the tables still to be flushed nothing of the batch.
ResumeInv ==
    wm > 0 /\ pinned = {} =>
        /\ pc = "cleanup" =>
              \A k \in 1..(at - 1) : \A i \in db[Deletions[k].table] : i <= wm
        /\ pc = "generate" => \A t \in Tables : \A i \in db[t] : i < lo
        /\ pc = "flush" =>
              /\ \A t \in Tables : \A i \in db[t] : i <= Last
              /\ \A k \in at..Len(FlushOrder) : \A i \in db[FlushOrder[k]] : i < lo
        /\ pc # "failed"

\* A run that resumes from a positive watermark, or from nothing, is never
\* stopped by the database; only a collapsed watermark over leftover rows, or
\* rows that later phases already refer to, can do that.
FaultOnlyOnCollapse ==
    pc = "failed" => wm = 0 \/ pinned # {}

\* "if any table is empty, the watermark collapses to 0 and the phase loads
\* from scratch" (resume.go): loading from scratch does not fail.
CollapseReloads ==
    pc = "failed" => wm # 0

\* "in reverse table order so child rows are deleted before parents (FK-safe)"
\* (resume.go): no cleanup delete is refused while no later phase has run.
CleanupIsFKSafe ==
    fault = "fk_delete" => pinned # {}

\* "OLTP/web skip already-loaded tables" (loadFullPostgres): a run does not
\* stop with an error over a database that already holds every row.
CompleteIsAccepted ==
    pc = "failed" => db # rows

\* "a re-run into the same DB is cheap" (loadFullPostgres, loadFullMSSQL):
\* running the phase again once later phases have used its rows succeeds.
RerunSucceeds ==
    pinned # {} => pc # "failed"

\* What a restart costs: if the run dies now, the next one begins right above
\* Watermark.  It then repeats, besides the batch that was being flushed, only a
\* stretch in which some table the watermark is taken over has no rows at all.
RedoBounded ==
    pc \in {"cleanup", "generate", "flush"} =>
        \E t \in Marks : \A i \in rows[t] : i > Watermark => i >= lo

\* "Restart cost = at most one batch's redo" (loadTransactions): a run that dies
\* in a flush leaves no more than that batch to be done again.
RedoWithinABatch ==
    pc = "flush" => Last <= Watermark + BatchSize

\* If the watermark is positive, re-running the build ends with the phase
\* loaded, unless the process keeps crashing for ever.
Recovers ==
    []<><<Crash>>_vars \/ ((Watermark > 0 /\ pinned = {}) ~> (pc = "loaded"))

\* The protocol keeps the promise of DurablePrefix where every parent has rows
\* in every table the watermark is taken over (a column of the layout is full).
PhaseSeen ==
    CASE pc \in {"watermark", "cleanup", "generate", "flush"} -> "running"
      [] pc = "idle" -> "stopped"
      [] pc = "failed" -> "refused"
      [] pc = "loaded" -> "loaded"

Promise == INSTANCE DurablePrefix WITH done <- Watermark, phase <- PhaseSeen

KeepsPromise == Promise!Spec

-----------------------------------------------------------------------------
(* Conditions on a phase's tables that the results about it rest on.       *)

\* A flush writes a referenced table before the table that refers to it.
ParentsFlushedFirst ==
    \A e \in References : \E j, k \in 1..Len(FlushOrder) :
        j < k /\ FlushOrder[j] = e[2] /\ FlushOrder[k] = e[1]

\* Every referenced table carries the watermark.
ParentsMarked == \A e \in References : e[2] \in Marks

\* The resume deletes above the watermark in every table, children first.
ChildrenDeletedFirst ==
    /\ \A k \in 1..Len(Deletions) : Deletions[k].above = Batched
    /\ \A t \in Tables : \E k \in 1..Len(Deletions) : Deletions[k].table = t
    /\ \A e \in References : \A k \in 1..Len(Deletions) :
          Deletions[k].table = e[2] =>
              \E j \in 1..Len(Deletions) : j < k /\ Deletions[j].table = e[1]
=============================================================================
