# Verification of Nick's Gaming Emporium

TLA+ models, TLC runs and TLAPS proofs about the program in `src/`: a simulator
that generates thirty years of a games retailer's records and loads them into
SQL Server or Postgres, and the warehouse built over them.

1. [The system](#1-the-system): components, state, interactions, what is hard
2. [The modules](#2-the-modules): which models what, and how
3. [The runs](#3-the-runs): questions, bounds, fairness
4. [The proofs](#4-the-proofs): theorems, invariants, assumptions
5. [What disagrees with the code's own words](#5-findings)
6. [Abstractions](#6-abstractions), [what is not modelled](#7-not-modelled)
7. [The plan](#8-the-plan)

To check: `tlc -config X.cfg M` for a run of section 3, `tlapm M_proofs.tla`
for the proofs. `PROJECT.json` maps each definition to the lines it translates.

## 1. The system

One process, `simulator/cmd/build_emporium`, runs a build as phases, each
committed to the database as it goes.  There is no checkpoint file: a build that
dies is run again from the start with the same seed, and each phase finds out
from the tables what is left to do.  Generators are deterministic in the seed,
so regenerating and skipping is the same as having gone on.

    main.go        LoadAll            LoadWeb          deploy       refresh      gate
    full build --> OLTP load --> web load (+ capture) --> DDL --> warehouse --> validation
                   |                  |
                   v                  v
      generators: shops, HR,     web emitter, replay of
      customers, sales           the sales generator
                   |                  |
                   +--> Writer (SQL Server, Postgres) --> database

### Components

| Component (`src/simulator/internal/` unless said) | State | Operations | Correct when | Modelled by |
|---|---|---|---|---|
| resume protocol, `dbwriter/resume.go` | the tables; watermark of the run | `resumeWatermark`, `cleanupAbove`, `resume` | what is skipped is committed; what is regenerated is absent | ResumablePhase |
| shops, HR, customers, transactions load, `dbwriter/load.go` | batch buffers, last id | `loadShops`, `loadHR`, `loadCustomers`, `loadTransactions`, their `flush` | success means loaded exactly; no orphan, whatever dies where | ShopsPhase, HRPhase, CustomersPhase, TransactionsPhase |
| SQL Server writer, `dbwriter/mssql.go` | attempts, budgets, server transaction | `BulkInsert`, `BulkCopy`, `runWithRetry` | success means stored; all or nothing; ends | RetryWriter |
| Postgres writer, `dbwriter/postgres.go` | connection pool | `COPY`, `DELETE`, `MAX` | atomic statements | (as atomic steps of the loads) |
| batched loader, `dbwriter/batch.go` | buffer, sticky error, next id | `Add`, `Flush`, `Close` | no gap, no batch after an error | WebLoad |
| web load, `dbwriter/load_web.go` | phase, tables, click workers | the six steps of `LoadWeb` | same rows on every machine; success means all | WebLoad |
| purchase capture, `web/capture.go` | shards, reservoirs, counts | `CaptureSale`, `reservoirConsider`, `MergeCaptureShards` | independent of the number of workers | PurchaseCapture |
| web emitter, `web/*.go` | shared `Emitter`, thread counts | `EmitReviews`, `EmitComments`, `EmitVotes`, `EmitClickstream` | rows refer to rows; passes agree | WebLoad (rows and references) |
| shop sales generator, `transactions/` | clock, ids, credit, stock, fraud buffer | sale, hardware sale, return, keyed refund | receipts settle; credit covered; refunded once | ShopSales |
| shops generator, `shops/` | the estate being built | `Generate`: allocation, dates, short-lived shops, numbering, closing | planned estate at the peak; founding shops first; lives within the company | Estate |
| HR generator and shift index, `hr/` | people, shifts and pay lines, shifts by shop | `Generate`, `applyClosure`, trimming, `PickOnDuty`, `generateCompensation` | nobody outlasts shop or company; paid while employed; on duty exactly; a wage on every day | Staff, Wages |
| customers generator and index, `customers/` | merge heap, month index, saved methods | `Generate`, `Index.Pick`, `SavedPaymentFor` | eligible customers only, all of them; ids follow sign-ups; no method before it was saved | Members |
| schema runner, monthly summary, customer status, `dbwriter/` | scripts in effect, summary, dormant customers | `InitSchema`, `populateMonthlySummary`, `populateCustomerStatus` | written from all the sales; right after any stop | Build |
| pipeline and gate, `cmd/build_emporium/main.go` | mode, phase | full build; base, web layer or refresh alone; validation | the gate stays quiet | Build |
| sales facts, `src/sql/procs*/batch_facts.sql` | facts, month | truncation, a month at a time | each sale once | Build |
| geography, `geography/` | weights | `ApplyEraWeights` | applied once | not modelled (section 7) |
| text engine, catalogue, hardware, names, rng, rate and volume tables, row conversion, rollups and reports | - | - | - | not modelled (section 7) |

### How they interact

- **Generators to loads**: a callback per parent with its rows; the load skips
  ids up to its watermark, collects a batch, and flushes it table by table.
  Every `BulkCopy` is a transaction of its own.
- **Loads to each other**: through foreign keys only.  Later phases refer to
  rows of earlier ones, so an earlier phase that cleans up later than it should
  meets rows it may not delete.
- **Loads to writer**: a call either returns after a commit, returns an error,
  or retries.  A retry may meet its own commit, whose answer was lost.
- **Web load to sales generator**: the sales are generated a second time, in
  parallel, by workers that own shops in turn; only a bounded sample is kept.
- **Web workers to each other**: one table, `page_views`, written from bands of
  ids that must not meet; and one `Emitter`, shared with no lock.
- **Generators to each other**: shops, then staff over the finished estate, then
  customers; the sales read the shift index and the customer index, which are all
  that is kept in memory of those two.  The fraud pocket of the sales names a spell
  by a number fixed in the policy.
- **Pipeline to phases**: in order; an error ends the process, status 1; the
  gate ends it with status 3.

### What is hard

Death between two commits of one batch; death during the cleanup that follows an
earlier death; watermarks over tables in which some parents have no rows; commits
whose acknowledgement is lost, or that land after the client has given up;
results that must not depend on the number of cores; dates generated out of
order; two mechanisms (returns, keyed refunds) that must not both take a
receipt; ends that are decided after everything up to them has been laid out;
indexes that answer for instants they were not built at; passes that are skipped
when they find a row.  `PROJECT.json` lists 40 such hazards at the lines where they bite.

## 2. The modules

### ResumablePhase, and the four phases that instantiate it

A phase emits parents `1..N`; parent `i` has rows in some tables (`rows`, the
layout, chosen once: the seed).  All rows of a parent in one table are written by
one bulk copy and deleted by one range delete, so a table is the set of parents
whose rows it holds (`db`).

| TLA+ | Code |
|---|---|
| `TakeWatermark` | `resume`: minimum over the marked tables of `MaxBigint`; 0 skips the cleanup |
| `DeleteAbove` | one `DELETE` of `cleanupAbove`, or of the sweeps in `loadTransactions`; refused when a row is still referred to |
| `FillBatch` | the generator's callback, skipping up to the watermark, until the batch is full or the generator ends |
| `FlushTable` | one `BulkCopy` of the flush; duplicate key, missing parent (Postgres; `CopyIn` does not check), or, after a network fault, the duplicate taken for success |
| `Finish`, `Crash`, `Start` | the last flush; death anywhere; the operator's next run |
| `LaterPhaseRefers` | later phases insert rows that refer to this one's (`pinned`) |

`ShopsPhase`, `HRPhase`, `CustomersPhase` and `TransactionsPhase` give the tables,
the flush order, the tables the watermark is taken over, the deletes in their
order, the foreign keys, and the layouts the generator can produce (which tables
only some parents have rows in).  `DurablePrefix` is what an operator is
promised: a durable prefix that grows by at most a batch, is lost by nothing, and
is everything when success is reported.

### RetryWriter

`runWithRetry` around one transaction, for any number of concurrent calls.  A
fault may strike before, during or at the commit of an attempt.  What the client
abandons stays with the server (`limbo`): an open transaction is rolled back in
the end, one whose commit was sent may be committed at any later moment, and its
locks hold up the retry of the same rows until then (`InsertChunk` needs
`limbo = "none"`).  Deadlocks and network faults have their own counters.

Keys are deterministic, so the table may hold rows of a call before it begins: those
of an earlier run of the build, any of the statements in `Leftovers` (`earlier`, chosen
in `Init`).  The code tells them from the rows of a lost commit by one thing only,
whether the call has seen a network fault (`Duplicate`).  `SuccessIsStored` says what a
success is then worth: the call met none of its rows and stored them all, or it met an
earlier run's *after* a network fault, and stored nothing.  That the second happens is
shown by `retry_leftovers` here and by `customers_lost_ack` on the loads (section 5).

### PurchaseCapture and WebLoad

`PurchaseCapture`: shops dealt round-robin to `workers` shards (any number up to
`MaxWorkers`, chosen in `StartCapture`), replay in any interleaving and order, a
reservoir of the K least purchases of each reviewer (a sale is its place in the
total order of `priGreater`), then the merge, in any order.

`WebLoad` extends it to the whole of `LoadWeb`.  A table is found empty and
written in batches (`FlushBatch`, `TableWritten`), or found with a row and skipped
(`SkipTable`); a write may fail with the batch stored or not (`FlushFails`), be
refused by a foreign key (`BatchRefused`), or never return (`Crash`).  Rows are not
abstract numbers: reviews are computed from the sample that the capture of *this*
run produced, and comments and votes from the number of reviews, so that runs with
different numbers of workers can be compared.  The gate (`OpenGate`,
`SkipClickstream`) looks at `page_views`; click workers open a writer, look at the
shared pool, build it, emit their days into their band, and end well or with an
error; `AwaitClicks` collects them.  `Rerun` starts a new process over the same
tables.

### ShopSales

The receipts of one shop in the order in which they are generated, which is not
the order of their dates: day by day the software pass, the hardware pass, the
accessory pass and the manager's keyed refunds.  A receipt chooses its customer,
basket, trade-in and payout, spends credit as `creditState.redeem` allows, stocks
what it touches first, and may be followed at once by its return, dated days
later.  Amounts are integers in hundredths with the currency's smallest unit;
dates are instants, coarse before `FineDay` (`coarsenToPrecision`), with the clamp to
the opening of the shop and the fallback that keeps a return after its sale.

### Estate

`shops.Generate`, as four steps: `PlacePeakEstate` (allocation by largest
remainder, date pools country by country), `AppendTransients` (the short-lived
cohort), `NumberShops` (ids by opening date, then code), `CloseShops` (a random
order of the survivors, cut by the closure curve).  `shops` is a set until it is
numbered, a sequence by `shop_id` from then on.  Every uniform draw is a
fraction out of `Draws`; a day is a day of the model.

### Staff and Wages

`Staff` extends `Estate` to `hr.Generate`.  One action per cohort emits one person:
`EmitFounder`, `EmitExec`, `EmitFraudManager` or `SkipFraudManager` (small tiers; no
such shop), `EmitRetail` with `NextShop`, `EmitHQ`, `EmitLeader`.  Each goes through
`Emit`, the code's `wrappedEmit`: pay lines and shifts are laid out over the whole life of
the shop, then `applyClosure` decides the end (`Leavings`), then
`trimOpsToTermination` drops what lies later.  Only the last person, the fraud
manager and the roster of the shop being staffed are remembered.  `OnDuty` is the
backward search of `ShiftIndex`.  `Wages` is `generateCompensation` as a function of the
finished spell: `Events`, their stable sort, `BaseRecords`, `WageInEffectAt`.

### Members

`customers.Generate` and its `Index`.  Sign-ups of each country are sampled and sorted
(`SignupLists`), merged by the heap (`Peek`), given an id or a gap (`TakeSlot`,
`SkipSlot`), coarsened to their year's precision, and get their companion rows in the
code's order (`Engage`, `Enrol`, `Save`).  `Save` also writes the index;
`CompleteIndex` is `ForwardFill`.  `Pickable` and `SavedPaymentFor` are what the sales
generator asks.  `roll` is history: the code keeps none of it.

### Build

`main.go` from end to end over one database: `Begin` takes a mode (full, base, web
layer, refresh) and flags, and leads to the first phase; each phase is one action
or one action per committed piece (a schema batch, a batch of releases, a sale, a
range of customers, a batch of a web table, a month of facts); `Leave` is the end of a
mode; `Stop` is a signal, a fault or a refused statement, anywhere.  The loads inside
the base are `ResumablePhase` and are one `Resume` and one `LoadSale` per sale here:
`Resume` may delete any end of the sales, and customers with it, who are active again
when reloaded.  `Gate` checks what the validation checks.

### MC modules, proofs

The `MC*` modules define the small instances;
`*_proofs` hold theorems and lemmas (`Staff_proofs` those of `Estate`, `Staff` and
`Wages`), `Sums` the lemmas about sums, about the least and the greatest of a set and
about whole-number division that several of them cite.  Definitions headed *a bug to catch* are
variants of the one that follows them, each a plausible slip in that code; with it
in place of the original, the property it is listed with is violated.

## 3. The runs

State counts are of distinct states.

| Run | Instance | Properties | States |
|---|---|---|---|
| `resume_dense` | 3 tables, all dense, 6 parents, batches of 2, foreign keys checked, lost acknowledgements | `TypeOK`, refines `DurablePrefix` (`KeepsPromise`), `Recovers` | 966 |
| `customers_resume` | the 8 customer tables over every sparse layout, 3 customers, batches of 2, sales that refer to customers | `NoHoles`, `WatermarkSound`, `LoadedIsComplete`, `NoOrphans`, `FaultOnlyOnCollapse` | 633,816 |
| `retry_calls` | 2 calls of 2 statements, 2 deadlocks, 3 network faults, a row of the second statement left by an earlier run or not | `SuccessIsStored`, `AllOrNothing`, `OwnCommitIsNoError`, `RidesOut`, `EveryCallReturns` | 2,029,472 |
| `sales_credit` | 1 customer and the anonymous ones, 2 days of 2 instants, 4 receipts, first day coarse | `Settled`, `CreditNeverOverdrawn`, `StockRowOnce` | 563,409 |
| `sales_fraud` | 6 days, dates coarse to 2 days until day 2, fraud window 2 to 4, lags 1 to 3, 4 receipts | `RefundedOnce`, `KeyedIsStale`, `RefundAfterSale` | 31,490 |
| `web_load` | 6 sales in 3 shops, 2 reviewers, samples of 2, 1 to 3 workers, batches of 2, 3 days of views, 3 runs | `SampleIsGlobal`, `RunsAgree`, `ViewStoredOnce`, `ClickstreamIsWhole`, `FirstSuccessIsWhole`, `EveryRunEnds` | 108,463 |
| `web_partial` | the same with 2 runs | `SuccessIsWhole`, violated: section 5 | |
| `estate` | 3 countries, 5 shops of the peak and 2 short-lived, 3 draws of each date, closing curve 1:2:4 | `PeakEstate`, `FoundingShops`, `LivesWithinTheBusiness` | 467,218 |
| `staff` | 4 shops and a short-lived one, 5 named people, a manager, 1 or 2 per shop, 1 at head office, 2 leaders | `SpellsWithinTheBusiness`, `PaidWhileEmployed`, `OnDutyIsExact`, `KeyedRefundsHaveTheirManager`, `WageFollowsTheLastRise` | 30,272 |
| `members` | 1 customer of DE, 3 of US, 5 years of 3 months of 2 days of 2 ticks, all four precisions | `PickIsExact`, `IdsFollowSignups`, `SavedBeforeUse`, `CompanionDates` | 49,990 |
| `build` | 4 runs of any mode on either backend, 4 sales in 2 months, 2 releases' batches, 2 ranges of customers, 2 web tables of 2 batches | `GateIsQuiet`, `SummaryIsOfAllSales`, `StatusIsRecency` | 93,616 |
| `build_releases` | the same with 2 runs | `ReleasesTakenWhole`, violated: section 5 | |

**Why the bounds are enough.**
- *Resume.* What matters is which tables of a batch were flushed, cleaned or left
  when the process died, and how a second death adds to that.  Three parents in
  batches of two give a full batch, a short one, a sparse parent at the end of a
  batch, before it and after it; the number of deaths and re-runs is not bounded,
  since a run is forgotten when it ends.  `transactions_resume` takes four, so that
  the watermark may lie inside a table that has rows on both sides (it is kept outside the list, below).
- *Retry.* Two calls are what a deadlock takes; two statements, what *in part*
  takes; three network faults, what it takes for a commit to be lost, the retry to
  be lost too, and a third to end the call.  What an earlier run left is met by the
  second statement, so that the first is undone with it; that a call's first rows are
  left, or all of them, changes nothing but the place, and passes as well
  (`Leftovers = {{}, {1}, {2}, {1, 2}}`, 2,222,992 states).  `BackoffCap` is 1,500 so that the cap
  binds, and `Patience` 2,500, the sum of the two waits (1,000 and 1,500) that three
  faults allow: `RidesOut` is checked of the form of the schedule.  With the code's own
  numbers (15 faults, a cap of 60 s) the same sum is 543 s.
- *Sales.* A coarse day and a fine one, two instants in a day (the hardware pass
  dates a receipt before a software receipt already written), two copies of a game
  (a return of one of two lines), a trade-in worth more than a game and less than a
  console (an offset that is capped, and a grant that is spent over two receipts),
  four receipts: earn, spend, return, spend again.  For fraud, receipts on either
  side of both edges of the window and of both lags.
- *Web.* The sample is smaller than the purchases of reviewer 1, whose sales lie in
  three shops; sale 2 is a refund's; reviewer 2 sorts before reviewer 1 in the
  accounts but after in the reviews; the last visitor's account is in the second
  batch of accounts, so that a partial `accounts` table can refuse a page view.
  Three runs: one that dies, one that resumes with other workers, one over the
  result of both.

- *Estate.* Each window is drawn at its first, middle and last day, so that dates tie
  within and across countries (numbering), a short life is cut off at the peak or
  ends before it, and a shop may close on the last day of all.  Five shops are the
  least with three founding ones, a second country at its market entry, and a third;
  two short-lived ones, the least of which one is outside the US.
- *Staff.* One estate (`Draws` of one value; the estate is `estate`'s question), in which
  the fraud shop is open through the window.  A shift is as long as the model's twelve
  hours, another shorter and begun later, so that one begun earlier ends later and one
  ends when another begins; pay periods differ between the countries and end inside,
  at and after the spells; a leader may resign, an attrition day may lie before the
  start, and a rise, a retention and a bonus may fall on one day or the last.
- *Members.* Sign-ups at either side of every change of precision, ties between the
  countries (at the earliest signup, and after coarsening), gaps, months without a
  signup, two saved methods, a saved instant that would follow `AsOf`.
- *Build.* Four runs: one that dies in the base, one that dies in the refresh or between
  two ranges, one of a part, one that ends.  Sales of the same month lie on both sides of
  a stop; the second customer's only sale is old, and needs the second batch of releases.

**Fairness, and why.**
- `Recovers` assumes `WF(Work)`: the process goes on executing until it dies; and
  `WF(Start)`: the operator runs a failed build again.  It excludes by hypothesis
  a process that dies for ever (`[]<><<Crash>>_vars`), which nobody can recover from.
- `EveryCallReturns` assumes for each call `WF(Step \/ Settle)`: it goes on (its
  context is `context.Background`, cancelled by nobody; there is no other thread to
  wait for), or the server settles the transaction of its dead connection, which is
  external to the code.  Either is progress, so one fairness for both is enough.
- `EveryRunEnds` assumes `WF(Advance)`: while the load lives, some step of it is
  taken.  One weak fairness for the whole load is enough because no worker waits for
  another, except `AwaitClicks`; and every worker's steps are finite.

Deadlock is checked in the resume runs, where the operator can always run again.
It is not in the others: the calls return, the shop closes, a generator ends, the
bound on runs ends the load and the build.

## 4. The proofs

For every value of the constants that satisfies the named assumptions. 12,694
obligations, no step left out.

| Theorem | Says | Rests on |
|---|---|---|
| `TypeCorrect` | `TypeOK` of the resume protocol | `PhaseAssumption` |
| `CheckpointHolds`, `NeverHoles`, `WatermarkIsSound`, `SuccessIsComplete`, `AllMarkedIsComplete` | marked tables hold exactly a prefix of their rows; what is skipped is there; success is complete | no duplicate key is taken for an own commit (`~NetworkFaults`); the last also that every table is marked |
| `NeverOrphans` | every committed reference resolves | as above, `ParentsFlushedFirst`, `ParentsMarked` |
| `ResumeNotRefused` | the database refuses nothing of a resume from a positive watermark | as above, `ChildrenDeletedFirst` |
| `RedoIsBounded` | a run that dies falls back, below what it has flushed, at most over a stretch in which some marked table has no rows (`RedoBounded`) | no duplicate key is taken for an own commit: all four phases |
| `PromiseIsKept` | the phase implements `DurablePrefix`: the durable prefix never falls, grows by at most a batch, and a load is refused only while it is empty | as above, and every marked table has rows of every parent (`Dense`): shops |
| `SuccessStored`, `NothingInPart`, `NoFalseDuplicate`, `BudgetsAreKept` | the writer's promises, for any number of concurrent calls, statements and faults, whatever an earlier run left: a success is stored, or a leftover met after a network fault; a call leaves all of its rows or none; its own commit is no error | `RetryAssumption` |
| `GivesUpLate` | a call gives up on the network only after it has waited for `Patience` | as above, in it that the waits of the network budget add up to `Patience` (`Patience <= Budget`; the code's ten minutes, mssql.go:51-55) |
| `NeverRefundedTwice`, `RefundsFollowSales`, `KeyedRefundsAreStale`, `EachUnitOneRow` | the refunds and the stock rows of a shop | `SalesAssumption` |
| `ReceiptsSettle`, `CreditIsGrantedFirst`, `LedgerIsBalance` | what a sale is paid with is what it costs, and the ledger says so; no customer's ledger is below zero at any date; the wallet is the sum of the ledger | as above |
| `SampleIsTheSame` | the merged sample is the K least of all purchases, for every number of workers and every order | `CaptureAssumption` |
| `EveryRunAgrees`, `EverySampleIsTheSame` | what any earlier run left is a beginning of what this one writes | `WebAssumption` |
| `EveryViewOnce` | no page view twice, no id twice, over all runs | `WebAssumption`, in it that a band holds all views (`Cardinality(Views) <= Stride`; the code's stride is 10^12) |
| `FirstSuccess`, `GeneratedIsStored` | a first load that succeeds has every row of every table and every page view; in any run, a clickstream that was generated and succeeded is stored whole, and its size is what the run reports | as above; `Batch` is positive |
| `SummaryComplete`, `StatusIsRight`, `GateNeverFails` | for any number of runs of any mode, stopped anywhere: a summary that is there is of all sales; the status after a base load; the gate fails no build, and the facts after a refresh are the sales | `BuildAssumption` |
| `PickExact`, `IdsRise`, `SavedRight` | whatever is sampled: the index offers exactly the members of earlier months; ids rise with the sign-ups on record; a saved method is found exactly when it may be used | `MembersAssumption`, in it that the units of precision divide each other |
| `CompanionsFollow` | no companion row predates the sign-up, a consent trail is in order, nobody is in a loyalty scheme before it opens | as above, and `SchemeAssumption`: the card scheme opens with a year, and its late enrolments end within it (engagement.go:523-530) |
| `PeakIsAsPlanned`, `FoundersComeFirst`, `LivesAreWithin` | whatever is drawn: the planned number of shops is open at the peak, the first two shops are the founding ones, every shop lives within the company and on its side of the peak | `EstateAssumption` (the order of the days of the policy, the rounding of the shares), `EstateDays` (that they are days) |
| `SpellsAreWithin`, `EveryDayIsPaidOnce`, `DutyIsExact`, `RefundsHaveTheirManager` | nobody outlasts the shop or the company; each day of a spell lies in one pay line, no other does; the index answers exactly who is on shift; the keyed refunds name the manager of that shop, who is there through the window | as above, and `StaffAssumption`, `StaffDays` |
| `WagesFollow` | on each day of a spell the wage in effect is that of the last rise until then | as above, and `WagesAssumption` |

**Resume** (`PhaseInv`).  `NoHoles` is not inductive: during a flush some marked
tables are a batch ahead, during a cleanup some are behind.  `PhaseInv` says what
each stage has: every marked table is closed downwards in its layout
(`PrefixClosed`); everything before `lo` is committed (`Covers(t, lo - 1)`); and of the
batch being flushed, what the tables before `at` hold.  The step that matters is
`FlushTable`: the table covers `lo - 1`, its fresh rows are the next ones, and no
row above is there, or the insert would have been refused.  With duplicates taken
for success this fails, which is the finding `customers_lost_ack`; hence the
hypothesis.  `ResumeInv` adds, for a positive watermark, that tables already cleaned
hold nothing above it, so that a resume meets no duplicate; `NoOrphans` then follows
because the parent's table comes earlier in the flush and is marked.  What the
hypotheses say about the four phases is visible in their modules:
`ChildrenDeletedFirst` holds of shops and customers, and neither of HR (spells before
their contracts) nor of transactions (the list leaves out inventory and its
movements); `ParentsMarked` not of transactions (inventory), whose orphans are left
to TLC.

**Redo.**  The next run begins above `Watermark`, which is the high water mark of some
marked table `t`.  A run that works has everything below `lo` committed in every marked
table (`Covers(t, lo - 1)`), so `t` has no row between the two.  Where every parent has
rows in every marked table this is *at most one batch's redo* (`load.go:660`); the sales
load takes its watermark over trade-ins too, which few sales have, and there the
sentence does not hold (`transactions_redo`).

**Refinement** (`PromiseInv`).  The abstract prefix is the
watermark, so every step of the phase must leave it alone, raise it by at most a batch,
or be refused at zero.  A dense table that covers `1..lo-1` has at least that watermark;
the upper bound is what needs an invariant: nothing lies more than a batch above the
watermark (`WithinABatch`), and of the tables still to be flushed nothing above `lo`
(`NothingAhead`), so the last marked table of a batch moves it by that batch at most, and a
cleanup, which deletes above the watermark only, does not move it.  At zero there is no
cleanup, and leftovers of a first batch remain; `FirstBatchInOrder` says that they were
flushed in order, so a load from scratch meets them in the first table and is refused
before anything becomes durable.  `PinnedIsComplete` makes the re-run of a loaded phase a
stutter.  `resume_dense` checks the same refinement with lost acknowledgements as well,
which the theorem excludes.

**Retry** (`RetryInv`).  The table holds of a call's rows what an earlier run left, or
all of them, and then it had left none; once it holds more than was left, the call is
done or has met a network fault; while an attempt holds inserted rows, or the server
holds a lost transaction, it does not; and what an attempt has inserted nobody had left,
so only a call without leftovers ever sends its commit.  A duplicate key is therefore the
call's own commit or a leftover, as the rows of calls are disjoint; if it is the former
there was a network fault, so it is never an error; if the latter, the call fails, unless
there was one. `PatientInv` is about
time: before its n-th network fault a call has waited after each of the others
(`waited[c] >= Waits(n - 1)`), so at the last it has waited for the whole budget, and
deadlock waits in between only add.  It also bounds both counters.

**Sales** (`SalesInv`).  `Book`: the parents of refunds are sales and differ;
targets are sales that nobody refunds; within the fraud window the targets are no
older than the lag allows, because eviction precedes each day's keyed refunds.

**Credit** (`LedgerInv`).  That the ledger is never below zero *by date* is not inductive,
since a row may be dated before rows already there.  `Credits` says of each customer
that the wallet is the sum of the rows; that the rows up to any place sum to no less
than zero (`Held`); and that a row that spends is dated after every row before it, which
the order of the settlement gives, or nothing could be spent (`Stamp` coarsens dates but
keeps their order, `StampMonotone`).  Rows up to a date are then the rows up to the
last of them that spends, and grants besides (`DatedPrefix`).  `SettledBy` pairs each
receipt with the sums of its ledger rows.

**Capture** (`CaptureInv`).  `IsBottom(kept, seen)` is preserved by `Consider`
(`ConsiderKeepsLeast`), for a shard against what it has replayed and for the merge
against what it was offered; the K least of a union are the K least of the union of
the K least (`LeastOfLeast`); and there is only one such set (`OneSample`), which is
what makes different runs comparable.

**Web load** (`TablesInv`, `ViewsInv`, `ClicksInv`, `FirstRunInv`).  By `OneSample` the rows a run emits are one
constant, `Final`; each table is a `Beginning` of it.  All page views are of one run's
`Generated(n)`, because the gate opens over an empty table only; within it, bands
are disjoint (`BandsAreDisjoint`) and so are the days dealt to workers.  That nothing is
missing rests on the numbering having no gaps (`NextPlace`): a table or a worker with an
empty next batch has nothing left.  `ClicksInv` says that a worker has stored what it has
counted, for which a batch must not count more than it holds (`NextViewsCount`);
`FirstRunInv` that the first run finds each table empty and leaves it whole; `CountInv`
that the page views there are as many as the workers have counted, a batch adding to both
alike (`FlushCounts`).

**Build** (`BuildInv`).  That the summary is of all sales is not inductive: it is
written from the sales in the tables.  `BaseIsWhole` says that the passes, and in a full
build everything after them, are reached only with all sales there; `ModesKnown` is
needed for it, since a web run reaches the same phases without them.  `RangesDone`
carries the ranges already classified through the pass, and `OnlyStale` that nobody
else is dormant, whatever an earlier pass began and a resume deleted; `MonthsDone`
the months already in the facts; `EndedWell` keeps what a run established until the
next one begins, which may be in a mode that does not establish it.  `GateInv` says
which web tables are filled when a full build is at place `n` of the web layer, and that
the summary precedes it; with `MonthsDone`, whose facts are one per line of a sale, the
counts and the amounts the gate compares are sums over the same rows
(`MapThenSumSet` of equal terms).

**Members** (`MembersInv`).  The instants on record are coarsened after the merge, by a
unit that depends on the year; `CoarseMonotone` shows that their order survives, since a
unit divides the year, so an instant of a later year is not rounded past its beginning.
With it `RollRises` and `RestIsLater` carry the order through the merge: what is still to
come is no earlier than what is on record.  Hence the months of a country only grow, and
`MonthsCounted` says that a month's count is that of all who signed up by its end; while
the month lasts it is overwritten, afterwards nobody of it is left.  `FilledCounts`
extends this to the months that `ForwardFill` adds.  `SavedListed` pairs the entries of
saved methods with the customers who have any, in the order of the ids, which is what
the search needs.  `CompanionInv` carries that no sign-up follows the cutoff: draws stay
in their windows (`DrawnWithin`), and coarsening only moves a date back.

**Estate** (`EstateInv`).  The generator sorts three times, and the properties are about
places in what it sorted.  `Sorted` is a function of rank, so that a strict order needs
no recursion to be sorted by: ranks differ (`RanksDiffer`), each is taken (`EveryRank`),
and smaller is earlier (`SortedOrder`).  The founding shop opens before all others and
the flagship before all but it (`FirstOpened`), so their ranks are 0 and 1 and no tie
matters (`NumberedAre`).  The planned number is open at the peak because
largest remainders leave nothing over and take nothing twice (`LeftoverIsSmall`,
`SharesAddUp`), the US-first shops come out of the share of the US (`AllocationAddsUp`),
the shares become as many slots (`SlotsCount`), and no two slots become one shop
(`Placed`).  The properties themselves are not inductive: closing dates come last, so
`EstateSet`, `Listed` and `Ended` carry the count of the peak estate, the days a shop may have
opened on and the lives of the short-lived ones through the steps.

**Staff** (`StaffInv`).  People are emitted one at a time and the properties are of the
last; what connects them is the numbering, so the invariant counts the cast: in its
group, a seat determines the spell (`group = "execs" => spell = Len(Founders) + seat + 1`), and
the manager takes the number that the policy fixed only if nobody was skipped.
`PersonInv` is what is true of any finished person (`EmittedIsFinished`), since every way
of leaving keeps within the shop and the company (`RetailLeavesInTime`, `HQLeavesInTime`).
Pay lines are laid out before the end is known: the payroll runs partition the days
(`PaidOnce`), and trimming drops only those that begin after the end. `SpansOK`, that a
person starts one shift at a time and none is longer than the index assumes, is what makes
the backward search exact (`SearchIsExact`): a stale span bounds the search only because
no span before it can last until now. Ids grow, so new spans never tie with old
(`SpansGrow`).

**Wages.**  No state beyond the person's: the events of a spell are dated, sorted and in a
row (`EventsInARow`); records follow each other without a gap (`RecordsFollow`); so the last
record until a day is the last event until it (`LastPlace`, `LastEvent`), of which the
wage is made (`WageOfADay`).

**Sums** are what `Sums` is about.  The library's folds are recursive functions, whose
value no installed prover computes; but a finite set of subsets has a least member
(`LeastSubset`, from the well-foundedness of strict inclusion), and with it a function
satisfying the recursion exists, any two agree, and a sum can be split at any element
(`SumSplit`), over disjoint sets (`SumUnion`), and compared term by term.  The provers
multiply by numerals only: `SumLinear`, `Cancel`, `NatDivision` and `Fraction` say what the
allocation and the draws need of products and quotients.

**What the proofs changed.**  `LivesWithinTheBusiness` said of every shop that it opens after
its market does.  The run agreed, since its one short-lived shop was in the US; the
proof had no fact to show it from, because the code has none: short-lived shops draw
their openings from one window for all countries.  The property now says what holds,
the run has a short-lived shop outside the US, and the comment that says otherwise is
`estate_entry` in section 5.

**Only model-checked**: everything live (`Recovers`, `EveryCallReturns`,
`EveryRunEnds`), out of the prover's reach; the resume protocol with lost
acknowledgements, and its orphans of unmarked parents; type invariants other than the
resume protocol's and the writer's.  Every safety invariant of a passing run is a theorem.

## 5. Findings

Listed runs, each with a counterexample:

- **`web_partial`**, `load_web.go:45`. A table with any row is taken for loaded, but
  is written in several commits: after a death between two of them the next run
  reports success without the rest.
- **`build_releases`**, `load.go:148`. Releases are taken for loaded when any is there, on
  the comment (`load.go:140-141`) that one insert holds them; there are 61,010 of them
  and batches of 50,000, each committed on its own.

Configurations outside the list, kept beside them.  Two pass: `hr_resume`
(the 7 HR tables, 15,060 states) and `transactions_resume` (the 8 sales tables, 4
marked, 4 transactions, 644,960 states).  The others each violate a sentence of the
code, and show why the listed runs check what they check:

| Configuration | Module | Property | What it shows |
|---|---|---|---|
| `hr_cleanup` | HRPhase | `CleanupIsFKSafe` | `loadHR` cleans spells before the tables that refer to them (`load.go:355`; `resume.go:58` says children first): a death between the bulk copies of a flush makes every later run fail |
| `customers_lost_ack` | CustomersPhase | `LoadedIsComplete` | two deaths in the cleanup of sparse tables, then a duplicate taken for the call's own commit (`mssql.go:155`): the rest of the batch is dropped with success |
| `retry_leftovers` | RetryWriter | `DuplicateIsOwnCommit` | the same in the writer alone: a duplicate key after a network fault may be a row of an earlier run, not *the "failed" attempt* that *in fact committed* (`mssql.go:137-140`) |
| `web_race` | MCWebLoad | `PoolBuiltOnce` | the shared release pool is built by whichever workers find it absent, without a lock (`clickstream.go:349`) |
| `build_indexes` | MCBuild | `FinishedIsIndexed` | indexes are built only under `--init-schema` (`main.go:455`), whose schema script cannot be sent twice (only its first batch asks what is there, `schema_v1_sqlserver.sql:4`): a build stopped after the schema ends without them. `main.go:290` warns that such a run assumes them built, and the repository's README (189-190) asks to drop and start over |
| `members_saved` | MCMembers | `SavedWhileTrading` | payment methods are saved up to the date of the archive (`engagement.go:606-617`), after the storefront closed (`policy.go:540-546`) |
| `shops_collapse` | ShopsPhase | `CollapseReloads` | a death between shops and addresses leaves a watermark of 0, and the load from scratch meets its own shops |
| `customers_rerun` | CustomersPhase | `RerunSucceeds` | a re-run over a complete database cleans customers that sales refer to |
| `transactions_rerun` | TransactionsPhase | `CompleteIsAccepted` | the watermark of sparse trade-ins sends a re-run back over complete sales, to meet its own movements |
| `transactions_redo` | TransactionsPhase | `RedoWithinABatch` | *Restart cost = at most one batch's redo* (`load.go:660`): the watermark falls back to the last transaction with a trade-in, or to 0 while there is none |
| `hr_complete` | HRPhase | `LoadedIsComplete` | an unmarked table loses a batch, as `trade_in_items` and `store_credit_ledger` may in the sales load |
| `estate_entry` | MCEstate | `MarketsEnteredFirst` | short-lived shops open from 1996 in every country (`shops.go:553-575`), although the entry of 1999 *still gates NON-US shop entry* (`policy.go:188-191`) and Britain's is in June 1996 (`policy.go:548-556`) |
| `sales_after_closing` | MCShopSales | `WithinTradingDays` | a return is dated after its shop has closed |
| `sales_over_refund` | MCShopSales | `RefundWithinTender` | a line is refunded in full in a tender that paid a part |

Met while modelling, without a run: an archive date before 1999 leaves a country no
window, and `shops.Generate` panics on the empty pool; `ForwardFill` panics (`keys[0]`)
when a country emits nobody (`CompleteIndex` has it as its guard); the comment that ties
of sign-ups do not happen in practice (`customers.go:250`, `318-321`) is not so for the
customers outside the US drawn in the first eras, who all sign up at the first instant of
1999, which is harmless: `IdsFollowSignups` holds on ties; a return carries the till of
its sale, also when that till was retired in between (`SourceOfDate` in `ShopSales`);
customers take 1999 for the entry into GB, `policy.go:548-561` says 1996; and the flagship
may close earlier in 2016 than the thirty years that `policy.go:173-176` calls
load-bearing (`FlagshipThirtyYears` in `Estate`).

## 6. Abstractions

- *Batches.* A batch is flushed as a whole; the code's counting of rows only decides
  when.  `Last` is the last parent of it.
- *Writer.* The rows of one INSERT statement are one element of `table`: a statement of
  which an earlier run left some rows is refused as one of which it left all.
- *HR.* `person_id` and `spell_id` advance together here, and the two anchor families
  are taken for one; in the code the second is looked at by the same protocol.
- *Capture.* Identical purchases, which tie in `priGreater`, are one sale here.
- *Postgres.* The pooled connection of a click worker cannot fail to open; the model
  lets it fail, as SQL Server's can.
- *`SkipClickstream`* reports the largest id, as `load_web.go:327` does, not a count.
- *Amounts.* Price includes tax and discount; the conversion to the smallest unit is
  the remainder by `Unit`; overflow cannot occur at the amounts of the catalogue.
- *Generators* sample; the models choose freely, over every outcome the code can
  produce.  Where an outcome is tied to another (a customer without an e-mail address
  has no consent events) the layouts say so.
- *Calendar.* Years, months and days of `Estate`, `Staff` and `Members` have a fixed
  length; what depends on the order of dates is kept, what depends on the calendar
  (leap days, the end of a month) is not.
- *Staff* of one shop are drawn with their shifts and pay, and a seat's role for any headcount that has the seat; salaries, names, addresses and
  roles are left out; `HeadCurve` and `HeadVariance` stand for the headcount formula.
- *Members.* Volumes (how many rows of each kind) are capped at what tells the properties
  apart; attributes of companion rows are left out.
- *Build.* A stop also stands for a refused statement, so that a run that cannot go on
  ends there; the phases of the base are those of the resume protocol in one step each.
- *Deaths* happen between commits; a transaction is atomic, which is the database's
  promise, not the code's (external).

## 7. Not modelled

Text engine, banks, sentiment, user names (wording); catalogue, hardware, genre lists
(reading of files); names and random streams (hashing); row conversion (records to
columns); reports and load generators (read-only queries, several of them bad on
purpose); indexes and column types of the schema.  None keeps state that the properties
above could be about.

State that exists and is not modelled: the era weights of `geography` (a full build
generates the shops for its web load once more, over weights already applied); the
incremental mode of the facts, the rollups, the dimensions, the wide table and the run
log of the warehouse (several thousand lines of SQL, of which the build sees one
procedure call); the order of the shift index and the resume skip inside the sales
load (`load.go:455`), whose two halves are `Staff` and `TransactionsPhase`; payroll
runs and reference tables of the HR load; the tables of rates, prices and volumes of
`policy`.  Each is a component or a hazard of `PROJECT.json`, marked so.

## 8. The plan

1. **ResumablePhase**, the four phases, DurablePrefix, proofs.  Done.
2. **ShopSales** and proofs.  Done.
3. **RetryWriter** and proofs.  Done.
4. **PurchaseCapture**, **WebLoad** and proofs.  Done.
5. **Build**: the modes, phases, passes, facts and gate, and proofs.  Done.
6. **Estate**, **Staff**, **Wages**, **Members**: the generators.  Done, and proofs.
7. **Warehouse**: incremental refresh, rollups and wide table: an incremental refresh
   changes its months only; rollups equal the facts they were made from, or the run log
   says not.  Abstract specification: a refresh is an atomic replacement.
8. **Staff and sales together**: the shift index of a resumed load.
9. **Theorems** to add: `NoOrphans` for unmarked parents that are never deleted;
   `RefusedOnlyOverPartial` of the web load.

Runs of one module are merged as modules are added, so that each listed run stays one
distinct question.
