------------------------------ MODULE WebLoad ------------------------------
(***************************************************************************)
(* LoadWeb (dbwriter/load_web.go) with its batched loader: accounts,       *)
(* reviews, comments and votes, each written in committed batches into a   *)
(* table that was found empty, and the clickstream, written by parallel    *)
(* workers with a band of ids each.  Between them the purchases are        *)
(* captured (PurchaseCapture).  A process may die at any moment, a write   *)
(* may fail, and the next run starts over with as many workers as the      *)
(* machine has then.                                                       *)
(***************************************************************************)
EXTENDS PurchaseCapture, Sequences

CONSTANTS
    AccountHolders, \* customers with an account, in order of account_id
    Reviewed,       \* purchases their reviewer writes about
    Thread,         \* the commenters of a review, by review_id
    Ballot,         \* the voters of a review, by review_id
    Visits,         \* the visitors of a day's page views, NoCustomer for a guest
    Batch,          \* defaultBatchSize
    Stride,         \* clickIDStride
    MaxRuns         \* bound: runs over one database

\* The page views of the web era: <<day, view of the day>>.
Views == UNION {{d} \X (1..Len(Visits[d])) : d \in 1..Len(Visits)}

WebAssumption ==
    /\ AccountHolders \in Seq(Nat) /\ Reviewers \subseteq Nat /\ Reviewed \subseteq Sales
    /\ {Thread, Ballot} \subseteq [Sales -> Seq(Nat)]
    /\ Visits \in Seq(Seq(Nat \cup {NoCustomer}))
    /\ {Batch, MaxRuns} \subseteq Nat \ {0}
    /\ Stride \in Nat
    /\ IsFiniteSet(Views) /\ Cardinality(Views) <= Stride

ASSUME WebAssumption

VARIABLES
    phase,      \* where LoadWeb is
    written,    \* rows of its phase this run has generated and committed
    stored,     \* accounts, reviews, review_comments, review_votes: [id, row]
    views,      \* page_views: [id, row]
    click,      \* where a clickstream worker is
    sent,       \* page views a worker has committed
    pool,       \* e.allByDate: absent or built
    builds,     \* how often it was built
    reported,   \* WebStats.PageViews
    refused,    \* why the database refused an insert: no, reference, duplicate
    runs

loadVars == <<phase, written, stored, views, click, sent, pool, builds,
              reported, refused, runs>>
vars == <<captureVars, loadVars>>

Tables == {"accounts", "reviews", "comments", "votes"}

\* What LoadWeb does after writing a table.
After == [accounts |-> "capture", reviews |-> "comments", comments |-> "votes", votes |-> "gate"]

Ended == {"done", "failed", "down"}

Init ==
    /\ Idle
    /\ phase = "accounts"
    /\ written = 0
    /\ stored = [t \in Tables |-> {}]
    /\ views = {}
    /\ click = [w \in WorkerIds |-> "idle"]
    /\ sent = [w \in WorkerIds |-> 0]
    /\ pool = "absent"
    /\ builds = 0
    /\ reported = 0
    /\ refused = "no"
    /\ runs = 1

-----------------------------------------------------------------------------
(* The rows a run generates, in the order of their generation.  A row is a *)
(* pair, and a generator emits its rows in the order of the pairs.         *)

Earlier(p, q) == p[1] < q[1] \/ (p[1] = q[1] /\ p[2] < q[2])

Place(p, rows) == Cardinality({q \in rows : Earlier(q, p)}) + 1

Numbered(rows) == {[id |-> Place(p, rows), row |-> p] : p \in rows}

\* AccountFor: <<account, customer>>.
Accounts == {<<i, AccountHolders[i]>> : i \in 1..Len(AccountHolders)}

\* EmitReviews, reviewer after reviewer: <<customer, purchase>>.
ReviewsOf(sample) ==
    {<<CustomerOf[s], s>> : s \in Reviewed \cap UNION {sample[c] : c \in Reviewers}}

\* EmitComments and EmitVotes, review after review: <<review, place in its thread>>.
About(drawn, sample) ==
    UNION {{i} \X (1..Len(drawn[i])) : i \in 1..Cardinality(ReviewsOf(sample))}

Emitted(t, sample) ==
    CASE t = "accounts" -> Accounts
      [] t = "reviews"  -> ReviewsOf(sample)
      [] t = "comments" -> About(Thread, sample)
      [] t = "votes"    -> About(Ballot, sample)

Rows(t) == Numbered(Emitted(t, reservoir))

HasAccount(c) == \E a \in stored["accounts"] : a.row[2] = c

HasReview(i) == \E r \in stored["reviews"] : r.id = i

\* The foreign keys of a row.
Resolves(t, row) ==
    CASE t = "accounts" -> TRUE
      [] t = "reviews"  -> HasAccount(row[1])
      [] t = "comments" -> HasReview(row[1]) /\ HasAccount(Thread[row[1]][row[2]])
      [] t = "votes"    -> HasReview(row[1]) /\ HasAccount(Ballot[row[1]][row[2]])

-----------------------------------------------------------------------------
(* Accounts, reviews, comments and votes.                                  *)

\* MAX(id) > 0: taken for loaded.
AlreadyLoaded(t) == written = 0 /\ stored[t] # {}

SkipTable(t) ==
    /\ phase = t
    /\ AlreadyLoaded(t)
    /\ phase' = After[t]
    /\ UNCHANGED <<captureVars, written, stored, views, click, sent, pool, builds,
                   reported, refused, runs>>

NextBatch(t) == {r \in Rows(t) : written < r.id /\ r.id <= written + Batch}

\* BatchedLoader.Flush: a batch is one transaction.
FlushBatch(t) ==
    /\ phase = t
    /\ ~AlreadyLoaded(t)
    /\ NextBatch(t) # {}
    /\ \A r \in NextBatch(t) : Resolves(t, r.row)
    /\ written' = written + Batch
    /\ stored' = [stored EXCEPT ![t] = @ \cup NextBatch(t)]
    /\ UNCHANGED <<captureVars, phase, views, click, sent, pool, builds,
                   reported, refused, runs>>

\* The database refuses the batch for a row whose parent is not there.
BatchRefused(t) ==
    /\ phase = t
    /\ ~AlreadyLoaded(t)
    /\ NextBatch(t) # {}
    /\ \E r \in NextBatch(t) : ~Resolves(t, r.row)
    /\ phase' = "failed"
    /\ refused' = "reference"
    /\ UNCHANGED <<captureVars, written, stored, views, click, sent, pool, builds,
                   reported, runs>>

\* Any other error of the writer: the loader keeps it, and LoadWeb returns it.
\* If it came with the commit, the batch may be there all the same.
FlushFails(t) ==
    /\ phase = t
    /\ ~AlreadyLoaded(t)
    /\ NextBatch(t) # {}
    /\ phase' = "failed"
    /\ \/ UNCHANGED stored
       \/ /\ \A r \in NextBatch(t) : Resolves(t, r.row)
          /\ stored' = [stored EXCEPT ![t] = @ \cup NextBatch(t)]
    /\ UNCHANGED <<captureVars, written, views, click, sent, pool, builds,
                   reported, refused, runs>>

TableWritten(t) ==
    /\ phase = t
    /\ ~AlreadyLoaded(t)
    /\ NextBatch(t) = {}
    /\ phase' = After[t]
    /\ written' = 0
    /\ UNCHANGED <<captureVars, stored, views, click, sent, pool, builds,
                   reported, refused, runs>>

\* Step 3 runs to its end; with the sample complete, the reviews are next.
Capture ==
    /\ phase = "capture"
    /\ CaptureNext
    /\ phase' = CASE stage' = "merged" -> "reviews"
                  [] stage' = "failed" -> "failed"
                  [] OTHER -> "capture"
    /\ UNCHANGED <<written, stored, views, click, sent, pool, builds, reported, refused, runs>>

-----------------------------------------------------------------------------
(* The clickstream.                                                        *)

\* A bug to catch: a loop that ends before the day the site went dark.
ShownBeforeDark(w) ==
    Numbered({v \in Views : v[1] < Len(Visits) /\ (v[1] - 1) % workers = w})

\* EmitClickstreamShard: the page views of the days dealt to worker w.
Shown(w) == Numbered({v \in Views : (v[1] - 1) % workers = w})

\* A bug to catch: every worker counts from 1.
PageViewIDFromOne(w, i) == i

\* base + i: the ids of worker w are a band of their own.
PageViewID(w, i) == w * Stride + i

\* A bug to catch: a resumed clickstream.
OpenGateAlways ==
    /\ phase = "gate"
    /\ phase' = "clicks"
    /\ click' = [w \in WorkerIds |-> IF w < workers THEN "open" ELSE "idle"]
    /\ UNCHANGED <<captureVars, written, stored, views, sent, pool, builds,
                   reported, refused, runs>>

\* page_views is empty: the workers start.
OpenGate ==
    /\ phase = "gate"
    /\ views = {}
    /\ phase' = "clicks"
    /\ click' = [w \in WorkerIds |-> IF w < workers THEN "open" ELSE "idle"]
    /\ UNCHANGED <<captureVars, written, stored, views, sent, pool, builds,
                   reported, refused, runs>>

\* It is not: skipped, and the greatest id reported.
SkipClickstream ==
    /\ phase = "gate"
    /\ views # {}
    /\ phase' = "done"
    /\ reported' = Max({v.id : v \in views})
    /\ UNCHANGED <<captureVars, written, stored, views, click, sent, pool, builds, refused, runs>>

ClickStep(w, from, to) ==
    /\ phase = "clicks"
    /\ click[w] = from
    /\ click' = [click EXCEPT ![w] = to]
    /\ UNCHANGED <<captureVars, phase, written, stored, reported, runs>>

\* A bug to catch: a worker that cannot connect returns without telling.
OpenWriterHangs(w) ==
    \E to \in {"pool", "lost"} :
        ClickStep(w, "open", to) /\ UNCHANGED <<views, sent, pool, builds, refused>>

\* The worker's own connection, or an error (a Postgres pool is shared).
OpenWriter(w) ==
    \E to \in {"pool", "error"} :
        ClickStep(w, "open", to) /\ UNCHANGED <<views, sent, pool, builds, refused>>

\* ensureTrafficReleases looks at the pool ...
LookAtPool(w) ==
    /\ ClickStep(w, "pool", IF pool = "absent" THEN "building" ELSE "emit")
    /\ UNCHANGED <<views, sent, pool, builds, refused>>

\* ... and installs one of its own, with no lock in between.
InstallPool(w) ==
    /\ ClickStep(w, "building", "emit")
    /\ pool' = "built"
    /\ builds' = builds + 1
    /\ UNCHANGED <<views, sent, refused>>

NextViews(w) ==
    {[id |-> PageViewID(w, v.id), row |-> v.row] :
        v \in {v \in Shown(w) : sent[w] < v.id /\ v.id <= sent[w] + Batch}}

VisitorKnown(v) ==
    LET c == Visits[v.row[1]][v.row[2]] IN c = NoCustomer \/ HasAccount(c)

IdTaken(v) == \E u \in views : u.id = v.id

FlushViews(w) ==
    /\ NextViews(w) # {}
    /\ \A v \in NextViews(w) : VisitorKnown(v) /\ ~IdTaken(v)
    /\ ClickStep(w, "emit", "emit")
    /\ views' = views \cup NextViews(w)
    /\ sent' = [sent EXCEPT ![w] = @ + Cardinality(NextViews(w))]
    /\ UNCHANGED <<pool, builds, refused>>

ViewsRefused(w) ==
    /\ NextViews(w) # {}
    /\ \E v \in NextViews(w) : ~VisitorKnown(v) \/ IdTaken(v)
    /\ ClickStep(w, "emit", "error")
    /\ refused' = IF \E v \in NextViews(w) : IdTaken(v) THEN "duplicate" ELSE "reference"
    /\ UNCHANGED <<views, sent, pool, builds>>

\* After an error the worker generates on, and adds nothing; the commit may have
\* been done.
FlushViewsFails(w) ==
    /\ NextViews(w) # {}
    /\ ClickStep(w, "emit", "error")
    /\ \/ UNCHANGED views
       \/ /\ \A v \in NextViews(w) : VisitorKnown(v) /\ ~IdTaken(v)
          /\ views' = views \cup NextViews(w)
    /\ UNCHANGED <<sent, pool, builds, refused>>

WorkerDone(w) ==
    /\ NextViews(w) = {}
    /\ ClickStep(w, "emit", "ok")
    /\ UNCHANGED <<views, sent, pool, builds, refused>>

\* A bug to catch: the errors of the workers go unread.
AwaitClicksUnchecked ==
    /\ phase = "clicks"
    /\ \A w \in WorkerIds : click[w] \in {"idle", "ok", "error"}
    /\ phase' = "done"
    /\ reported' = MapThenSumSet(LAMBDA w : IF click[w] = "ok" THEN sent[w] ELSE 0, WorkerIds)
    /\ UNCHANGED <<captureVars, written, stored, views, click, sent, pool, builds, refused, runs>>

\* All workers are done: the total of those that succeeded, unless one failed.
AwaitClicks ==
    /\ phase = "clicks"
    /\ \A w \in WorkerIds : click[w] \in {"idle", "ok", "error"}
    /\ IF \E w \in WorkerIds : click[w] = "error"
       THEN phase' = "failed" /\ UNCHANGED reported
       ELSE /\ phase' = "done"
            /\ reported' = MapThenSumSet(LAMBDA w : sent[w], WorkerIds)
    /\ UNCHANGED <<captureVars, written, stored, views, click, sent, pool, builds, refused, runs>>

-----------------------------------------------------------------------------
\* The process dies: what was committed stays.
Crash ==
    /\ phase \notin Ended
    /\ phase' = "down"
    /\ UNCHANGED <<captureVars, written, stored, views, click, sent, pool, builds,
                   reported, refused, runs>>

\* The operator runs the load again.
Rerun ==
    /\ phase \in Ended
    /\ runs < MaxRuns
    /\ runs' = runs + 1
    /\ Forget
    /\ phase' = "accounts"
    /\ written' = 0
    /\ click' = [w \in WorkerIds |-> "idle"]
    /\ sent' = [w \in WorkerIds |-> 0]
    /\ pool' = "absent"
    /\ builds' = 0
    /\ reported' = 0
    /\ refused' = "no"
    /\ UNCHANGED <<stored, views>>

Advance ==
    \/ \E t \in Tables : SkipTable(t) \/ FlushBatch(t) \/ BatchRefused(t)
                         \/ FlushFails(t) \/ TableWritten(t)
    \/ Capture
    \/ OpenGate \/ SkipClickstream
    \/ \E w \in WorkerIds :
          \/ OpenWriter(w) \/ LookAtPool(w) \/ InstallPool(w) \/ FlushViews(w)
          \/ ViewsRefused(w) \/ FlushViewsFails(w) \/ WorkerDone(w)
    \/ AwaitClicks

Next == Advance \/ Crash \/ Rerun

\* The process runs on until it dies.
Spec == Init /\ [][Next]_vars /\ WF_vars(Advance)

-----------------------------------------------------------------------------
TypeOK ==
    /\ CaptureTypeOK
    /\ phase \in Tables \cup Ended \cup {"capture", "gate", "clicks"}
    /\ written \in Nat
    /\ DOMAIN stored = Tables
    /\ \A v \in views : v.id \in Nat /\ v.row \in Views
    /\ click \in [WorkerIds -> {"idle", "open", "pool", "building", "emit", "ok", "error"}]
    /\ sent \in [WorkerIds -> Nat]
    /\ pool \in {"absent", "built"}
    /\ {builds, reported} \subseteq Nat
    /\ refused \in {"no", "reference", "duplicate"}
    /\ runs \in 1..MaxRuns

\* "Data is identical regardless of the worker count" (webWorkers): what earlier
\* runs left in a table, with whatever number of workers, is a beginning of what
\* this run would write there, so the rows it adds to the later tables fit.
RunsAgree ==
    phase \in {"reviews", "comments", "votes", "gate", "clicks"} =>
        \A t \in Tables :
            /\ stored[t] \subseteq Rows(t)
            /\ \A r \in Rows(t), s \in stored[t] : r.id <= s.id => r \in stored[t]

\* "disjoint id range" and "all-or-nothing resume" (LoadWeb, step 6): no page view
\* is stored twice, under one id or two, by the workers of any of the runs.
ViewStoredOnce ==
    \A u, v \in views : u.id = v.id \/ u.row = v.row => u = v

\* The database refuses an insert of the web load only for a parent that an
\* earlier run left out of a table it did not finish: never for an id taken.
RefusedOnlyOverPartial ==
    refused # "no" =>
        /\ refused = "reference"
        /\ \/ stored["accounts"] # Rows("accounts")
           \/ stored["reviews"] # Rows("reviews")

\* A run that generates the clickstream and reports success has stored all of it,
\* and reports its size.
ClickstreamIsWhole ==
    phase = "done" /\ (\E w \in WorkerIds : click[w] = "ok") =>
        /\ {v.row : v \in views} = Views
        /\ reported = Cardinality(views)

\* "iff the table is empty (resume-safe)" (writeBatchedIfEmpty): a load that
\* reports success has all the rows of every table.
SuccessIsWhole ==
    phase = "done" => /\ \A t \in Tables : stored[t] = Rows(t)
                      /\ {v.row : v \in views} = Views

\* The same where no run before it was cut short.
FirstSuccessIsWhole == runs = 1 => SuccessIsWhole

\* "builds the date-sorted release pools once" (ensureTrafficReleases).
PoolBuiltOnce == builds <= 1

\* A run ends, whichever of its workers fail: nobody waits for a lost worker.
EveryRunEnds == phase = "accounts" ~> phase \in Ended
=============================================================================
