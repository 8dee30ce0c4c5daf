-------------------------------- MODULE Build --------------------------------
(***************************************************************************)
(* A build from end to end (main.go loadFullMSSQL, loadFullPostgres):      *)
(* schema, OLTP base with its summary and customer status, indexes, web    *)
(* layer, warehouse objects, warehouse refresh, validation gate; or a part *)
(* of it: the base, the web layer or the refresh alone.  Any run may stop  *)
(* anywhere; the operator may start another on the same database.          *)
(* The loads inside the base are ResumablePhase and WebLoad; here a sale   *)
(* is a row, and a stop also stands for a statement the database refuses.  *)
(***************************************************************************)
EXTENDS Integers, Sequences, FiniteSets, SequencesExt

CONSTANTS
    SchemaBatches, IndexBatches, \* GO batches of the two scripts
    ReleaseBatches,   \* batches the releases are loaded in
    Sales,            \* the sales, in the order they are loaded: records
                      \*   [month, customer, release: batch of its release, recent]
    LastMonth,        \* the month of the last of them
    Customers,
    Ranges,           \* ranges of customer_id, a million each
    WebTables,        \* the tables of the web layer, in the order written
    WebBatches,       \* batches each of them is written in
    MaxRuns           \* bound: runs of the program

BuildAssumption ==
    /\ {SchemaBatches, IndexBatches, ReleaseBatches, WebBatches, MaxRuns} \subseteq Nat \ {0}
    /\ LastMonth \in Nat \ {0}
    /\ Sales \in Seq([month : 1..LastMonth, customer : Customers,
                      release : 1..ReleaseBatches, recent : BOOLEAN])
    /\ Sales # <<>> /\ WebTables # <<>> /\ WebTables \in Seq(STRING)
    /\ Ranges \in Seq(SUBSET Customers)
    /\ \A c \in Customers : \E k \in DOMAIN Ranges : c \in Ranges[k]

ASSUME BuildAssumption

VARIABLES
    backend,   \* "mssql" or "postgres", for good
    schema, indexes,  \* batches of the scripts in effect
    releases,  \* batches of releases in the table
    sales,     \* sales in the tables: the first so many
    summary,   \* finance.monthly_summary: the sales it sums, or absent
    dormant,   \* customers made dormant
    web,       \* table -> batches in it
    deployed,  \* the warehouse's tables and procedures exist
    facts,     \* dw.fact_sales: how often each sale is in it
    pc, n,     \* the run's phase, and its place in it
    mode, initSchema, validate, \* the run's flags; mode is what it builds
    runs, exit \* runs started, and how the last one ended

database == <<schema, indexes, releases, sales, summary, dormant, web, deployed, facts>>
flags == <<backend, mode, initSchema, validate, runs>>
vars == <<database, pc, n, flags, exit>>

Absent == {}
Lines == DOMAIN Sales
NoFacts == [l \in Lines |-> 0]

Init ==
    /\ backend \in {"mssql", "postgres"}
    /\ schema = 0 /\ indexes = 0 /\ releases = 0 /\ sales = 0
    /\ summary = Absent /\ dormant = {} /\ web = [t \in DOMAIN WebTables |-> 0]
    /\ deployed = FALSE /\ facts = NoFacts
    /\ pc = "idle" /\ n = 0 /\ mode = "none" /\ initSchema = FALSE /\ validate = FALSE
    /\ runs = 0 /\ exit = "none"

\* Where a run starts once the schema is there: --emit full, oltp or web, or
\* --pg-run-etl (--deploy-sql of the refresh's script, on SQL Server).
Start == [full |-> "releases", oltp |-> "releases", web |-> "web", etl |-> "refresh"]

\* --init-schema comes first, whatever is emitted; on Postgres it is left to
\* the loaders of the base, and the refresh alone knows no such flag.
Applies(m, init) == init /\ (m \in {"full", "oltp"} \/ (m = "web" /\ backend = "mssql"))

Begin ==
    /\ pc = "idle" /\ runs < MaxRuns
    /\ mode' \in DOMAIN Start /\ initSchema' \in BOOLEAN /\ validate' \in BOOLEAN
    /\ pc' = IF Applies(mode', initSchema') THEN "schema" ELSE Start[mode']
    /\ n' = 0 /\ runs' = runs + 1 /\ exit' = "none"
    /\ UNCHANGED <<database, backend>>

\* A mode's last phase ends the run; after any other comes the next.
Leave(last, next) ==
    IF mode = last THEN pc' = "idle" /\ exit' = "0" ELSE pc' = next /\ exit' = exit

\* A signal, a failure of the server, or a refused statement: fatalf.
Stop ==
    /\ pc # "idle"
    /\ pc' = "idle" /\ exit' = "stopped"
    /\ UNCHANGED <<database, n, flags>>

-----------------------------------------------------------------------------
(* InitSchema sends a script batch by batch, InitSchemaPostgres as one     *)
(* statement.  What a batch creates must not be there yet, save that the   *)
(* first one of SQL Server asks first whether it is.                       *)

After(done, batches) == IF backend = "postgres" THEN batches ELSE done + 1

ApplySchema ==
    /\ pc = "schema" /\ (schema = n \/ (n = 0 /\ backend # "postgres"))
    /\ LET sent == After(n, SchemaBatches) IN
       /\ schema' = IF schema > sent THEN schema ELSE sent
       /\ IF sent = SchemaBatches THEN pc' = Start[mode] /\ n' = 0 ELSE pc' = pc /\ n' = sent
    /\ UNCHANGED <<indexes, releases, sales, summary, dormant, web, deployed, facts, flags, exit>>

BuildIndexes ==
    /\ pc = "indexes" /\ initSchema /\ indexes = n
    /\ indexes' = After(n, IndexBatches)
    /\ IF indexes' = IndexBatches THEN Leave("oltp", "web") /\ n' = 0
       ELSE pc' = pc /\ n' = indexes' /\ exit' = exit
    /\ UNCHANGED <<schema, releases, sales, summary, dormant, web, deployed, facts, flags>>

SkipIndexes ==
    /\ pc = "indexes" /\ ~initSchema
    /\ Leave("oltp", "web") /\ n' = 0
    /\ UNCHANGED <<database, flags>>

-----------------------------------------------------------------------------
(* LoadAll.  The place n says how many batches this run has put in.        *)

\* Releases are loaded when there is none ...
LoadReleases ==
    /\ pc = "releases" /\ schema = SchemaBatches /\ releases < ReleaseBatches
    /\ (releases = 0 \/ (n > 0 /\ n = releases))
    /\ releases' = releases + 1 /\ n' = releases'
    /\ IF releases' = ReleaseBatches THEN pc' = "resume" ELSE pc' = pc
    /\ UNCHANGED <<schema, indexes, sales, summary, dormant, web, deployed, facts, flags, exit>>

\* ... and taken for loaded when there is any.
TakeReleases ==
    /\ pc = "releases" /\ schema = SchemaBatches /\ releases > 0 /\ n # releases
    /\ pc' = "resume" /\ n' = 0
    /\ UNCHANGED <<database, flags, exit>>

\* The rest of the base resumes from its watermark, and deletes what is above:
\* sales, and customers, who are active when they are loaded again.
Resume ==
    /\ pc = "resume"
    /\ sales' \in 0..sales /\ dormant' \in SUBSET dormant /\ pc' = "sales"
    /\ UNCHANGED <<schema, indexes, releases, summary, web, deployed, facts, n, flags, exit>>

\* A sale needs its release.
LoadSale ==
    /\ pc = "sales" /\ sales < Len(Sales) /\ Sales[sales + 1].release <= releases
    /\ sales' = sales + 1
    /\ UNCHANGED <<schema, indexes, releases, summary, dormant, web, deployed, facts, pc, n, flags, exit>>

\* A bug to catch: a load that stopped short passed for a finished one.
BaseDoneUnchecked == pc = "sales"

BaseDone == pc = "sales" /\ sales = Len(Sales)

FinishBase ==
    /\ BaseDone
    /\ pc' = "summary"
    /\ UNCHANGED <<database, n, flags, exit>>

\* populateMonthlySummary: one statement, and only when there is no row yet.
Summarise ==
    /\ pc = "summary"
    /\ summary' = IF summary = Absent THEN 1..sales ELSE summary
    /\ pc' = "status" /\ n' = 0
    /\ UNCHANGED <<schema, indexes, releases, sales, dormant, web, deployed, facts, flags, exit>>

RecentBuyers == {Sales[l].customer : l \in {l \in 1..sales : Sales[l].recent}}

\* A bug to catch: a run that meets dormant customers takes the pass for done.
StaleIfNone(range) == IF dormant = {} THEN range \ RecentBuyers ELSE {}

Stale(range) == range \ RecentBuyers

\* populateCustomerStatus: on SQL Server a range of customers at a time, each
\* committed on its own.
Classify ==
    /\ pc = "status"
    /\ LET ranges == IF backend = "postgres" THEN <<Customers>> ELSE Ranges
       IN IF n < Len(ranges) /\ sales > 0
          THEN dormant' = dormant \cup Stale(ranges[n + 1]) /\ n' = n + 1 /\ pc' = pc
          ELSE dormant' = dormant /\ pc' = "indexes" /\ n' = 0
    /\ UNCHANGED <<schema, indexes, releases, sales, summary, web, deployed, facts, flags, exit>>

-----------------------------------------------------------------------------
(* The web layer: tables in turn, each written when it is empty.           *)

Table == (n \div WebBatches) + 1

WriteWeb ==
    /\ pc = "web" /\ schema = SchemaBatches /\ n < Len(WebTables) * WebBatches
    /\ web[Table] = n % WebBatches
    /\ web' = [web EXCEPT ![Table] = @ + 1]
    /\ n' = n + 1
    /\ UNCHANGED <<schema, indexes, releases, sales, summary, dormant, deployed, facts, pc, flags, exit>>

TakeWebTable ==
    /\ pc = "web" /\ n < Len(WebTables) * WebBatches
    /\ n % WebBatches = 0 /\ web[Table] > 0
    /\ n' = n + WebBatches
    /\ UNCHANGED <<database, pc, flags, exit>>

FinishWeb ==
    /\ pc = "web" /\ n = Len(WebTables) * WebBatches
    /\ Leave("web", "deploy")
    /\ UNCHANGED <<database, n, flags>>

\* The warehouse's scripts create or alter: they may be sent again.
Deploy ==
    /\ pc = "deploy"
    /\ deployed' = TRUE /\ pc' = "refresh" /\ n' = 0
    /\ UNCHANGED <<schema, indexes, releases, sales, summary, dormant, web, facts, flags, exit>>

-----------------------------------------------------------------------------
(* batch.usp_refresh_fact_sales in full mode: empty the table, insert one  *)
(* month at a time, each committed on its own.                             *)

\* A bug to catch: the months of an earlier, unfinished refresh kept.
EmptiedNot == facts

Emptied == NoFacts

Truncate ==
    /\ pc = "refresh" /\ n = 0 /\ deployed
    /\ facts' = Emptied /\ n' = 1
    /\ UNCHANGED <<schema, indexes, releases, sales, summary, dormant, web, deployed, pc, flags, exit>>

RefreshMonth ==
    /\ pc = "refresh" /\ n > 0 /\ n <= LastMonth
    /\ facts' = [l \in Lines |-> facts[l] + IF l <= sales /\ Sales[l].month = n THEN 1 ELSE 0]
    /\ n' = n + 1
    /\ UNCHANGED <<schema, indexes, releases, sales, summary, dormant, web, deployed, pc, flags, exit>>

FinishRefresh ==
    /\ pc = "refresh" /\ n > LastMonth
    /\ Leave("etl", "gate")
    /\ UNCHANGED <<database, n, flags>>

\* The checks: rows, amounts and quantities of the facts against the sales,
\* the facts' dollars against the summary's, web ids from 1 without a gap
\* (any beginning of a table), page views at all.
FactRows == FoldSeq(LAMBDA k, sum : k + sum, 0, [l \in Lines |-> facts[l]])
GateChecks ==
    /\ FactRows = sales
    /\ summary # Absent /\ FactRows = Cardinality(summary)
    /\ \A t \in DOMAIN web : web[t] > 0

Gate ==
    /\ pc = "gate"
    /\ exit' = IF validate /\ ~GateChecks THEN "3" ELSE "0"
    /\ pc' = "idle"
    /\ UNCHANGED <<database, n, flags>>

Next ==
    \/ Begin \/ Stop \/ ApplySchema \/ BuildIndexes \/ SkipIndexes
    \/ LoadReleases \/ TakeReleases \/ Resume \/ LoadSale \/ FinishBase \/ Summarise \/ Classify
    \/ WriteWeb \/ TakeWebTable \/ FinishWeb \/ Deploy \/ Truncate \/ RefreshMonth \/ FinishRefresh
    \/ Gate

Spec == Init /\ [][Next]_vars

-----------------------------------------------------------------------------
\* Whatever stops and runs of any part came before, a build that reaches the
\* gate passes it, and what a refresh that ended leaves are the sales, each once,
\* also when the gate is switched off (main.go:514-531, 146-161; the refresh
\* commits month by month).
GateIsQuiet ==
    /\ exit # "3"
    /\ exit = "0" /\ mode \in {"full", "etl"} => facts = [l \in Lines |-> IF l <= sales THEN 1 ELSE 0]

\* The summary is written once and never again, so it must not be written
\* before all the sales are there, by any run (monthly_summary.go:70-81).
SummaryIsOfAllSales == summary # Absent => summary = Lines

\* A build or a base load that ends has made dormant exactly the customers
\* without a recent purchase, though the pass commits range by range, never
\* makes anybody active again and may have been cut short (customer_status.go:8-21).
StatusIsRecency ==
    /\ dormant \cap {Sales[l].customer : l \in {l \in Lines : Sales[l].recent}} = {}
    /\ exit = "0" /\ mode \in {"full", "oltp"} => dormant = Stale(Customers)

\* Releases taken for loaded are all there: load.go:140-141 says that one bulk
\* insert holds them, so any row means all rows.
ReleasesTakenWhole == pc = "resume" => releases = ReleaseBatches

\* A build or a base load that ends has its indexes: main.go:419-420 calls a re-run after a
\* failure cheap, because every phase resumes.
FinishedIsIndexed == exit = "0" /\ mode \in {"full", "oltp"} => indexes = IndexBatches
==============================================================================
