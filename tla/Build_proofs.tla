---------------------------- MODULE Build_proofs -----------------------------
(***************************************************************************)
(* What stops and re-runs of a full build cannot do, however many there    *)
(* are: leave a monthly summary of some of the sales, a wrong status of a  *)
(* customer after a build that ended, or facts other than the sales; and   *)
(* that no build which reaches the gate fails it.                          *)
(***************************************************************************)
EXTENDS Build, Sums, TLAPS

Buyers == {Sales[l].customer : l \in {l \in Lines : Sales[l].recent}}
EachOnce == [l \in Lines |-> IF l <= sales THEN 1 ELSE 0]

\* Which runs reach a phase.
ModesKnown ==
    /\ pc = "schema" => mode \in {"full", "oltp", "web"}
    /\ pc \in {"releases", "resume", "sales", "summary", "status", "indexes"} => mode \in {"full", "oltp"}
    /\ pc = "web" => mode \in {"full", "web"}
    /\ pc = "refresh" => mode \in {"full", "etl"}
    /\ pc \in {"deploy", "gate"} => mode = "full"

\* The run has done the passes over the base.
AfterStatus == pc = "indexes" \/ (pc \in {"web", "deploy", "refresh", "gate"} /\ mode = "full")

\* The passes and what follows run only once all the sales are in the tables.
BaseIsWhole == pc \in {"summary", "status"} \/ AfterStatus => sales = Len(Sales)

\* Only customers without a recent purchase are dormant ...
OnlyStale == dormant \subseteq Customers \ Buyers

\* ... during the pass all of those in the ranges done, and after it all.
TheRanges == IF backend = "postgres" THEN <<Customers>> ELSE Ranges
RangesDone ==
    pc = "status" => /\ n \in Nat
                     /\ \A k \in DOMAIN TheRanges : k <= n => TheRanges[k] \ Buyers \subseteq dormant
StatusDone == AfterStatus => Customers \ Buyers \subseteq dormant

\* The facts hold each sale of the months done once, and in the end every sale.
MonthsDone ==
    pc = "refresh" =>
        /\ n \in 0..(LastMonth + 1)
        /\ n > 0 => facts = [l \in Lines |-> IF l <= sales /\ Sales[l].month < n THEN 1 ELSE 0]
FactsDone == pc = "gate" => facts = EachOnce

\* What a run that ended leaves stays as it is until the next one begins.
EndedWell ==
    exit = "0" =>
        /\ pc = "idle"
        /\ mode \in {"full", "oltp"} => sales = Len(Sales) /\ Customers \ Buyers \subseteq dormant
        /\ mode \in {"full", "etl"} => facts = EachOnce

BuildInv ==
    /\ ModesKnown /\ BaseIsWhole /\ SummaryIsOfAllSales
    /\ OnlyStale /\ RangesDone /\ StatusDone
    /\ MonthsDone /\ FactsDone /\ EndedWell

\* The sales in the tables when a pass runs are all the sales there are.
LEMMA AllLines == 1..Len(Sales) = Lines /\ Len(Sales) \in Nat \ {0}
  BY BuildAssumption DEF BuildAssumption, Lines

LEMMA MonthsKnown == \A l \in Lines : Sales[l].month \in 1..LastMonth
<1> DEFINE R == [month : 1..LastMonth, customer : Customers,
                 release : 1..ReleaseBatches, recent : BOOLEAN]
<1>1. Sales \in Seq(R)
  BY BuildAssumption DEF BuildAssumption
<1>2. \A l \in Lines : Sales[l] \in R
  <2> HIDE DEF R
  <2> QED
    BY <1>1 DEF Lines
<1> QED
  BY <1>2

\* The buyers the statement finds in the tables are then all the buyers.
LEMMA AllBuyers == sales = Len(Sales) => RecentBuyers = Buyers
  BY AllLines DEF RecentBuyers, Buyers

\* Both ways of dividing the customers up leave nobody out.
LEMMA RangesCover ==
  /\ Len(TheRanges) \in Nat /\ DOMAIN TheRanges = 1..Len(TheRanges)
  /\ \A k \in DOMAIN TheRanges : TheRanges[k] \subseteq Customers
  /\ \A c \in Customers : \E k \in DOMAIN TheRanges : c \in TheRanges[k]
<1>1. CASE backend = "postgres"
  BY <1>1 DEF TheRanges
<1>2. CASE backend # "postgres"
  BY <1>2, BuildAssumption DEF TheRanges, BuildAssumption
<1> QED
  BY <1>1, <1>2

USE DEF AfterStatus

LEMMA InitHolds == Init => BuildInv
  BY DEF Init, BuildInv, ModesKnown, BaseIsWhole, SummaryIsOfAllSales, OnlyStale, RangesDone, StatusDone,
         MonthsDone, FactsDone, EndedWell, Absent

\* The summary's statement, run by the run that finished the base.
LEMMA SummariseKeeps == BuildInv /\ Summarise => BuildInv'
<1> SUFFICES ASSUME BuildInv, Summarise PROVE BuildInv'
  OBVIOUS
<1> USE DEF BuildInv, Summarise, flags
<1>1. sales = Len(Sales) /\ sales' = sales
  BY DEF BaseIsWhole
<1>2. ModesKnown' /\ BaseIsWhole' /\ StatusDone' /\ MonthsDone' /\ FactsDone' /\ EndedWell'
  BY <1>1 DEF ModesKnown, BaseIsWhole, StatusDone, MonthsDone, FactsDone, EndedWell
<1>3. SummaryIsOfAllSales'
  BY <1>1, AllLines DEF SummaryIsOfAllSales, Absent, Lines
<1>4. OnlyStale'
  BY DEF OnlyStale, Buyers, Lines
<1>5. RangesDone'
  BY RangesCover DEF RangesDone, TheRanges
<1> QED
  BY <1>2, <1>3, <1>4, <1>5

\* The reclassification, of the next range of customers or of none.
LEMMA ClassifyKeeps == BuildInv /\ Classify => BuildInv'
<1> SUFFICES ASSUME BuildInv, Classify PROVE BuildInv'
  OBVIOUS
<1> USE DEF BuildInv
<1>1. /\ sales = Len(Sales) /\ UNCHANGED <<sales, summary, facts, backend, mode, exit>>
      /\ pc = "status" /\ n \in Nat /\ pc' \in {"status", "indexes"}
  BY DEF BaseIsWhole, RangesDone, Classify, flags
<1>2. /\ ModesKnown' /\ BaseIsWhole' /\ SummaryIsOfAllSales' /\ MonthsDone' /\ FactsDone' /\ EndedWell'
  BY <1>1 DEF ModesKnown, BaseIsWhole, SummaryIsOfAllSales, MonthsDone, FactsDone, EndedWell, Absent, Lines
<1>3. TheRanges' = TheRanges
  BY <1>1 DEF TheRanges
<1>4. CASE n < Len(TheRanges) /\ sales > 0
  <2>1. /\ dormant' = dormant \cup (TheRanges[n + 1] \ Buyers)
        /\ n' = n + 1 /\ pc' = "status"
    BY <1>1, <1>4, AllBuyers DEF Classify, TheRanges, Stale
  <2>2. n + 1 \in DOMAIN TheRanges
    BY <1>1, <1>4, RangesCover
  <2>3. OnlyStale'
    BY <2>1, <2>2, RangesCover DEF OnlyStale, Buyers, Lines
  <2>4. RangesDone'
    <3>1. ASSUME NEW k \in DOMAIN TheRanges, k <= n + 1
          PROVE  TheRanges[k] \ Buyers \subseteq dormant'
      <4>1. k <= n \/ k = n + 1
        BY <1>1, <3>1, RangesCover
      <4> QED
        BY <1>1, <2>1, <3>1, <4>1 DEF RangesDone
    <3> QED
      BY <1>1, <1>3, <2>1, <3>1 DEF RangesDone, Buyers, Lines
  <2>5. StatusDone'
    BY <2>1 DEF StatusDone
  <2> QED
    BY <1>2, <2>3, <2>4, <2>5
<1>5. CASE ~(n < Len(TheRanges) /\ sales > 0)
  <2>1. dormant' = dormant /\ pc' = "indexes" /\ Len(TheRanges) <= n
    BY <1>1, <1>5, AllLines, RangesCover DEF Classify, TheRanges
  <2>2. \A k \in DOMAIN TheRanges : TheRanges[k] \ Buyers \subseteq dormant
    BY <1>1, <2>1, RangesCover DEF RangesDone
  <2>3. StatusDone'
    BY <2>1, <2>2, RangesCover DEF StatusDone, Buyers, Lines
  <2>4. OnlyStale' /\ RangesDone'
    BY <2>1 DEF OnlyStale, RangesDone, Buyers, Lines
  <2> QED
    BY <1>2, <2>3, <2>4
<1> QED
  BY <1>4, <1>5

\* A step of the refresh or the gate leaves the base and its passes alone.
LEMMA LateKeeps ==
  ASSUME BuildInv, pc \in {"deploy", "refresh", "gate"},
         UNCHANGED <<sales, summary, dormant, backend, mode>>,
         pc' \in {"deploy", "refresh", "gate", "idle"},
         pc' = "gate" => mode # "etl", pc' = "refresh" \/ pc' = "deploy" => pc' = pc \/ mode = "full",
         MonthsDone', FactsDone', exit' = "0" => pc' = "idle" /\ facts' = EachOnce'
  PROVE  BuildInv'
<1> USE DEF BuildInv
<1>1. ModesKnown' /\ BaseIsWhole' /\ SummaryIsOfAllSales' /\ OnlyStale'
  BY DEF ModesKnown, BaseIsWhole, SummaryIsOfAllSales, OnlyStale, Absent, Lines, Buyers
<1>2. RangesDone' /\ StatusDone'
  BY DEF RangesDone, StatusDone, Lines, Buyers
<1>3. EndedWell'
  BY DEF ModesKnown, EndedWell, BaseIsWhole, StatusDone, Lines, Buyers
<1> QED
  BY <1>1, <1>2, <1>3

\* The warehouse refresh: emptied, then month by month.
LEMMA RefreshKeeps ==
  BuildInv /\ (Deploy \/ Truncate \/ RefreshMonth \/ FinishRefresh \/ Gate) => BuildInv'
<1> SUFFICES ASSUME BuildInv, Deploy \/ Truncate \/ RefreshMonth \/ FinishRefresh \/ Gate
             PROVE  BuildInv'
  OBVIOUS
<1> USE DEF BuildInv, flags
<1>1. exit # "0" \/ pc = "idle"
  BY DEF EndedWell
<1>2. LastMonth \in Nat \ {0} /\ \A l \in Lines : Sales[l].month \in 1..LastMonth
  BY BuildAssumption, MonthsKnown DEF BuildAssumption
<1>3. CASE Deploy
  <2>0. mode = "full"
    BY <1>3 DEF Deploy, ModesKnown
  <2>1. MonthsDone' /\ FactsDone'
    BY <1>2, <1>3 DEF Deploy, MonthsDone, FactsDone
  <2> QED
    BY <1>1, <1>3, <2>0, <2>1, LateKeeps DEF Deploy
<1>4. CASE Truncate
  <2>1. MonthsDone'
    BY <1>2, <1>4 DEF Truncate, Emptied, NoFacts, MonthsDone, Lines
  <2>2. FactsDone'
    BY <1>4 DEF Truncate, FactsDone
  <2> QED
    BY <1>1, <1>4, <2>1, <2>2, LateKeeps DEF Truncate
<1>5. CASE RefreshMonth
  <2>1. n \in 1..LastMonth
    BY <1>2, <1>5 DEF RefreshMonth, MonthsDone
  <2>2. /\ facts = [l \in Lines |-> IF l <= sales /\ Sales[l].month < n THEN 1 ELSE 0]
        /\ facts' = [l \in Lines |-> facts[l] + IF l <= sales /\ Sales[l].month = n THEN 1 ELSE 0]
        /\ n' = n + 1 /\ pc' = "refresh" /\ sales' = sales
    BY <1>5, <2>1 DEF RefreshMonth, MonthsDone
  <2>3. \A l \in Lines : facts'[l] = IF l <= sales /\ Sales[l].month < n + 1 THEN 1 ELSE 0
    BY <1>2, <2>1, <2>2
  <2>4. facts' = [l \in Lines |-> IF l <= sales /\ Sales[l].month < n + 1 THEN 1 ELSE 0]
    BY <2>2, <2>3
  <2>5. MonthsDone'
    BY <1>2, <2>1, <2>2, <2>4 DEF MonthsDone, Lines
  <2>6. FactsDone'
    BY <2>2 DEF FactsDone
  <2> QED
    BY <1>1, <1>5, <2>5, <2>6, LateKeeps DEF RefreshMonth
<1>6. CASE FinishRefresh
  <2>1. \A l \in Lines : Sales[l].month < n
    BY <1>2, <1>6 DEF FinishRefresh, MonthsDone
  <2>2. facts = EachOnce
    BY <1>2, <1>6, <2>1 DEF FinishRefresh, MonthsDone, EachOnce
  <2>3. FactsDone' /\ MonthsDone'
    BY <1>6, <2>2 DEF FinishRefresh, Leave, FactsDone, MonthsDone, EachOnce, database, Lines
  <2>4. facts' = EachOnce'
    BY <1>6, <2>2 DEF FinishRefresh, EachOnce, database, Lines
  <2> QED
    BY <1>1, <1>6, <2>3, <2>4, LateKeeps DEF FinishRefresh, Leave, database
<1>7. CASE Gate
  <2>1. facts' = EachOnce'
    BY <1>7 DEF Gate, FactsDone, EachOnce, database, Lines
  <2>2. FactsDone' /\ MonthsDone'
    BY <1>7 DEF Gate, FactsDone, MonthsDone
  <2> QED
    BY <1>7, <2>1, <2>2, LateKeeps DEF Gate, database
<1> QED
  BY <1>3, <1>4, <1>5, <1>6, <1>7

\* Every other step is before the passes or between them.
LEMMA StepKeeps == BuildInv /\ [Next]_vars => BuildInv'
<1> SUFFICES ASSUME BuildInv, [Next]_vars PROVE BuildInv'
  OBVIOUS
<1> USE DEF BuildInv, ModesKnown, BaseIsWhole, SummaryIsOfAllSales, OnlyStale, RangesDone, StatusDone,
            MonthsDone, FactsDone, EndedWell, EachOnce, TheRanges, Absent, Lines, Buyers, flags
<1>1. CASE Begin
  <2>1. mode' \in {"full", "oltp", "web", "etl"}
    BY <1>1 DEF Begin, Start
  <2>2. pc' = IF Applies(mode', initSchema') THEN "schema" ELSE Start[mode']
    BY <1>1 DEF Begin
  <2>3. \/ (pc' = "schema" /\ mode' # "etl")
        \/ (pc' = "releases" /\ mode' \in {"full", "oltp"})
        \/ (pc' = "web" /\ mode' = "web")
        \/ (pc' = "refresh" /\ mode' = "etl")
    BY <2>1, <2>2 DEF Applies, Start
  <2>4. UNCHANGED <<sales, summary, dormant, facts, backend>> /\ n' = 0 /\ exit' = "none"
    BY <1>1 DEF Begin, database
  <2>5. ModesKnown'
    BY <2>1, <2>3
  <2>6. BaseIsWhole' /\ SummaryIsOfAllSales' /\ OnlyStale' /\ RangesDone' /\ StatusDone'
    BY <2>3, <2>4 DEF AfterStatus
  <2>7. MonthsDone' /\ FactsDone' /\ EndedWell'
    BY <2>3, <2>4, BuildAssumption DEF BuildAssumption
  <2> QED
    BY <2>5, <2>6, <2>7
<1>2. CASE Stop
  BY <1>2, AllLines, BuildAssumption DEF Stop, database
<1>3. CASE ApplySchema
  BY <1>3, AllLines, BuildAssumption DEF ApplySchema, Start
<1>4. CASE BuildIndexes
  BY <1>4, AllLines, BuildAssumption DEF BuildIndexes, Leave
<1>5. CASE SkipIndexes
  BY <1>5, AllLines, BuildAssumption DEF SkipIndexes, Leave, database
<1>6. CASE LoadReleases
  BY <1>6, AllLines, BuildAssumption DEF LoadReleases
<1>7. CASE TakeReleases
  BY <1>7, AllLines, BuildAssumption DEF TakeReleases, database
<1>8. CASE Resume
  BY <1>8, AllLines, BuildAssumption DEF Resume
<1>9. CASE LoadSale
  BY <1>9, AllLines, BuildAssumption DEF LoadSale
<1>10. CASE FinishBase
  BY <1>10, AllLines, BuildAssumption DEF FinishBase, BaseDone, database
<1>11. CASE WriteWeb
  BY <1>11, AllLines, BuildAssumption DEF WriteWeb
<1>12. CASE TakeWebTable
  BY <1>12, AllLines, BuildAssumption DEF TakeWebTable, database
<1>13. CASE FinishWeb
  BY <1>13, AllLines, BuildAssumption DEF FinishWeb, Leave, database
<1>14. CASE Summarise
  BY <1>14, SummariseKeeps
<1>15. CASE Classify
  BY <1>15, ClassifyKeeps
<1>16. CASE Deploy \/ Truncate \/ RefreshMonth \/ FinishRefresh \/ Gate
  BY <1>16, RefreshKeeps
<1>17. CASE UNCHANGED vars
  BY <1>17 DEF vars, database
<1> QED
  BY <1>1, <1>2, <1>3, <1>4, <1>5, <1>6, <1>7, <1>8, <1>9, <1>10, <1>11, <1>12, <1>13,
     <1>14, <1>15, <1>16, <1>17 DEF Next

THEOREM BuildHolds == Spec => []BuildInv
  BY InitHolds, StepKeeps, PTL DEF Spec

\* For every schema, catalogue, list of sales, backend and number of runs, a
\* monthly summary that is there is that of all the sales (monthly_summary.go:70-81).
THEOREM SummaryComplete == Spec => []SummaryIsOfAllSales
<1>1. BuildInv => SummaryIsOfAllSales
  BY DEF BuildInv
<1> QED
  BY <1>1, BuildHolds, PTL

\* No run makes a customer with a recent purchase dormant, and a base load that
\* ends has made dormant all the others, through ranges done twice, left out by
\* a stop, or made active again (customer_status.go:8-21).
THEOREM StatusIsRight == Spec => []StatusIsRecency
<1>1. BuildInv => StatusIsRecency
  <2> SUFFICES ASSUME BuildInv PROVE StatusIsRecency
    OBVIOUS
  <2>1. dormant \cap Buyers = {}
    BY DEF BuildInv, OnlyStale
  <2>2. exit = "0" /\ mode \in {"full", "oltp"} => dormant = Stale(Customers)
    BY AllBuyers DEF BuildInv, OnlyStale, EndedWell, Stale
  <2> QED
    BY <2>1, <2>2 DEF StatusIsRecency, Buyers
<1> QED
  BY <1>1, BuildHolds, PTL

-----------------------------------------------------------------------------
(* Why the gate is quiet.                                                    *)

\* The web tables written by this run, or taken, when it is at place n.
WebUpTo(m) == \A t \in DOMAIN web : (t - 1) * WebBatches < m => web[t] > 0

\* Only runs of everything come to the gate, past the summary and the web layer.
GateInv ==
    /\ exit # "3"
    /\ web \in [DOMAIN WebTables -> Nat]
    /\ pc = "status" \/ AfterStatus => summary # Absent
    /\ pc = "web" => n \in Nat /\ WebUpTo(n)
    /\ pc \in {"deploy", "gate"} \/ (pc = "refresh" /\ mode = "full") =>
           \A t \in DOMAIN web : web[t] > 0

LEMMA TablesKnown ==
  /\ WebBatches \in Nat \ {0} /\ Len(WebTables) \in Nat
  /\ DOMAIN WebTables = 1..Len(WebTables)
<1>1. WebBatches \in Nat \ {0}
  BY BuildAssumption DEF BuildAssumption
<1>2. Len(WebTables) \in Nat /\ DOMAIN WebTables = 1..Len(WebTables)
  BY BuildAssumption DEF BuildAssumption
<1> QED
  BY <1>1, <1>2

\* At place 0 there are none.
LEMMA NoTablesYet == GateInv => \A t \in DOMAIN web : ~((t - 1) * WebBatches < 0)
<1> SUFFICES ASSUME GateInv, NEW t \in DOMAIN web PROVE ~((t - 1) * WebBatches < 0)
  OBVIOUS
<1>1. t \in Nat /\ t >= 1 /\ WebBatches \in Nat
  BY TablesKnown DEF GateInv
<1>2. (t - 1) * WebBatches \in Nat
  BY <1>1
<1> QED
  BY <1>2

\* Facts that hold each sale once are as many as the sales.
LEMMA FactsCounted == facts = EachOnce /\ sales = Len(Sales) => FactRows = Len(Sales)
<1> SUFFICES ASSUME facts = EachOnce, sales = Len(Sales) PROVE FactRows = Len(Sales)
  OBVIOUS
<1> DEFINE rows == [l \in Lines |-> facts[l]]
<1>1. Lines = 1..Len(Sales) /\ Len(Sales) \in Nat
  BY AllLines
<1>2. \A l \in Lines : rows[l] = 1
  BY <1>1 DEF EachOnce
<1>3. DOMAIN rows = Lines
  OBVIOUS
<1>4. FactRows = SumFunctionOnSet(rows, DOMAIN rows)
  BY DEF FactRows, FoldSeq, FoldFunction, SumFunctionOnSet, FoldFunctionOnSet, MapThenFoldSet
<1> HIDE DEF rows
<1>5. IsFiniteSet(1..Len(Sales)) /\ Cardinality(1..Len(Sales)) = Len(Sales)
  BY AllLines, FS_Interval
<1>6. SumFunctionOnSet(rows, Lines) = Cardinality(Lines)
  BY <1>1, <1>2, <1>5, SumOfOnes
<1> QED
  BY <1>1, <1>3, <1>4, <1>5, <1>6

LEMMA GateKeeps == BuildInv /\ GateInv /\ Gate => GateInv'
<1> SUFFICES ASSUME BuildInv, GateInv, Gate PROVE GateInv'
  OBVIOUS
<1>1. pc = "gate" /\ pc' = "idle" /\ mode = "full" /\ web' = web
  BY DEF Gate, BuildInv, ModesKnown, database
<1>2. facts = EachOnce /\ sales = Len(Sales)
  BY <1>1 DEF BuildInv, FactsDone, BaseIsWhole, AfterStatus
<1>3. FactRows = sales
  BY <1>2, FactsCounted
<1>4. summary # Absent /\ summary = Lines
  BY <1>1 DEF GateInv, AfterStatus, BuildInv, SummaryIsOfAllSales
<1>5. Cardinality(summary) = Len(Sales)
  BY <1>4, AllLines, FS_Interval
<1>6. GateChecks
  BY <1>1, <1>2, <1>3, <1>4, <1>5 DEF GateChecks, GateInv
<1>7. exit' = "0"
  BY <1>6 DEF Gate
<1> QED
  BY <1>1, <1>7 DEF GateInv, AfterStatus

\* A table more is written, or found written.
LEMMA WebKeeps == GateInv /\ (WriteWeb \/ TakeWebTable \/ FinishWeb) => GateInv'
<1> SUFFICES ASSUME GateInv, WriteWeb \/ TakeWebTable \/ FinishWeb PROVE GateInv'
  OBVIOUS
<1>1. pc = "web" /\ exit # "3" /\ web \in [DOMAIN WebTables -> Nat] /\ n \in Nat /\ WebUpTo(n)
  BY DEF GateInv, WriteWeb, TakeWebTable, FinishWeb
<1>2. PICK b \in Nat \ {0} : b = WebBatches
  BY TablesKnown
<1>3. DOMAIN web = 1..Len(WebTables) /\ Len(WebTables) \in Nat
  BY <1>1, TablesKnown
<1> DEFINE q == n \div b
           r == n % b
<1>4. q \in Nat /\ r \in 0..(b - 1) /\ n = b * q + r
  BY <1>1, <1>2
<1>5. Table = q + 1
  BY <1>2 DEF Table
<1> HIDE DEF q, r
\* Below place n + b lie the tables before the one being written, and that one.
<1>6. ASSUME NEW t \in DOMAIN web, NEW k \in 1..b, (t - 1) * b < n + k, k > 1 => r = 0
      PROVE  (t - 1) * b < n \/ t = Table
  <2>1. t \in Int
    BY <1>3
  <2>2. t - 1 <= q
    <3>1. (t - 1) * b < b * (q + 1)
      <4>1. n + k <= b * q + b
        BY <1>2, <1>4, <1>6
      <4>2. b * (q + 1) = b * q + b
        BY <1>2, <1>4
      <4> QED
        BY <1>2, <1>4, <1>6, <2>1, <4>1, <4>2
    <3> QED
      BY <1>2, <1>4, <2>1, <3>1
  <2>3. CASE t - 1 = q
    BY <1>5, <2>1, <2>3
  <2>4. CASE t - 1 < q
    <3>1. (t - 1) * b < b * q
      BY <1>2, <1>4, <2>1, <2>4
    <3> QED
      BY <1>1, <1>2, <1>4, <2>1, <3>1
  <2> QED
    BY <1>4, <2>1, <2>2, <2>3, <2>4
<1>7. CASE WriteWeb
  <2>1. /\ n < Len(WebTables) * b /\ web' = [web EXCEPT ![Table] = @ + 1] /\ n' = n + 1
        /\ UNCHANGED <<pc, exit, mode, summary>>
    BY <1>2, <1>7 DEF WriteWeb, flags
  <2>2. Table \in DOMAIN web
    BY <1>2, <1>3, <1>4, <1>5, <2>1
  <2>3. web' \in [DOMAIN WebTables -> Nat] /\ web'[Table] > 0
        /\ \A t \in DOMAIN web : web'[t] >= web[t]
    BY <1>1, <2>1, <2>2
  <2>4. WebUpTo(n)'
    <3> SUFFICES ASSUME NEW t \in DOMAIN web, (t - 1) * b < n + 1 PROVE web'[t] > 0
      BY <1>1, <1>2, <2>1, <2>3 DEF WebUpTo
    <3>1. (t - 1) * b < n \/ t = Table
      BY <1>2, <1>6
    <3> QED
      BY <1>1, <1>2, <2>3, <3>1 DEF WebUpTo
  <2> QED
    BY <1>1, <2>1, <2>3, <2>4 DEF GateInv, AfterStatus, Absent
<1>8. CASE TakeWebTable
  <2>1. /\ r = 0 /\ web[Table] > 0 /\ web' = web /\ n' = n + b
        /\ UNCHANGED <<pc, exit, mode, summary>>
    BY <1>2, <1>8 DEF TakeWebTable, flags, database, r
  <2>2. WebUpTo(n)'
    <3> SUFFICES ASSUME NEW t \in DOMAIN web, (t - 1) * b < n + b PROVE web[t] > 0
      BY <1>2, <2>1 DEF WebUpTo
    <3>1. (t - 1) * b < n \/ t = Table
      BY <1>2, <1>6, <2>1
    <3> QED
      BY <1>1, <1>2, <2>1, <3>1 DEF WebUpTo
  <2> QED
    BY <1>1, <1>2, <2>1, <2>2 DEF GateInv, AfterStatus, Absent
<1>9. CASE FinishWeb
  <2>1. /\ n = Len(WebTables) * b /\ UNCHANGED <<web, mode, summary>> /\ pc' \in {"idle", "deploy"}
        /\ exit' \in {"0", exit} /\ (pc' = "deploy" => mode # "web")
    BY <1>2, <1>9 DEF FinishWeb, Leave, database, flags
  <2>2. \A t \in DOMAIN web : web[t] > 0
    <3> SUFFICES ASSUME NEW t \in DOMAIN web PROVE web[t] > 0
      OBVIOUS
    <3>1. t \in Nat /\ t - 1 < Len(WebTables)
      BY <1>3
    <3>2. (t - 1) * b < Len(WebTables) * b
      BY <1>2, <1>3, <3>1
    <3> QED
      BY <1>1, <1>2, <2>1, <3>2 DEF WebUpTo
  <2>3. pc' = "deploy" => (mode' = "full" => summary' # Absent')
    BY <1>1, <2>1 DEF GateInv, AfterStatus, Absent
  <2> QED
    BY <1>1, <2>1, <2>2, <2>3 DEF GateInv, AfterStatus, Absent
<1> QED
  BY <1>7, <1>8, <1>9

LEMMA GateStep == BuildInv /\ GateInv /\ [Next]_vars => GateInv'
<1> SUFFICES ASSUME BuildInv, GateInv, [Next]_vars PROVE GateInv'
  OBVIOUS
\* Steps before the web layer.
<1>1. ASSUME UNCHANGED web, exit' \in {"0", "none", "stopped", exit},
             pc' \in {"idle", "schema", "releases", "resume", "sales", "summary"}
      PROVE  GateInv'
  BY <1>1 DEF GateInv, AfterStatus
<1>2. ASSUME UNCHANGED <<web, mode>>, exit' \in {"0", exit}, summary' # Absent,
             \/ pc' \in {"idle", "status", "indexes"}
             \/ pc' = "web" /\ n' = 0
      PROVE  GateInv'
  <2>1. pc' = "web" => n' \in Nat /\ WebUpTo(n)'
    <3> SUFFICES ASSUME pc' = "web" PROVE n' = 0 /\ WebUpTo(n)'
      OBVIOUS
    <3>1. n' = 0
      BY <1>2
    <3>2. \A t \in DOMAIN web : ~((t - 1) * WebBatches < 0)
      BY NoTablesYet
    <3> QED
      BY <1>2, <3>1, <3>2 DEF WebUpTo
  <2> QED
    BY <1>2, <2>1 DEF GateInv, AfterStatus, Absent
\* Steps past it, but for the gate.
<1>3. ASSUME UNCHANGED <<web, mode, summary>>, exit' \in {"0", exit},
             pc \in {"deploy", "refresh"}, pc = "deploy" => mode = "full",
             pc' \in {"idle", "refresh", "gate"}, pc' = "gate" => pc = "refresh" /\ mode # "etl",
             pc = "refresh" => mode \in {"full", "etl"}
      PROVE  GateInv'
  BY <1>3 DEF GateInv, AfterStatus, Absent
<1>4. CASE Begin
  <2>1. mode' \in {"full", "oltp", "web", "etl"}
    BY <1>4 DEF Begin, Start
  <2>2. /\ pc' = IF Applies(mode', initSchema') THEN "schema" ELSE Start[mode']
        /\ n' = 0 /\ exit' = "none" /\ web' = web
    BY <1>4 DEF Begin, database
  <2>3. CASE pc' = "web"
    <3>1. mode' = "web"
      BY <2>1, <2>2, <2>3 DEF Start
    <3>2. \A t \in DOMAIN web : ~((t - 1) * WebBatches < 0)
      BY NoTablesYet
    <3>3. n' \in Nat /\ WebUpTo(n)'
      BY <2>2, <3>2 DEF WebUpTo
    <3> QED
      BY <2>2, <2>3, <3>1, <3>3 DEF GateInv, AfterStatus
  <2>4. CASE pc' = "refresh"
    <3>1. mode' = "etl"
      BY <2>1, <2>2, <2>4 DEF Start
    <3> QED
      BY <2>2, <2>4, <3>1 DEF GateInv, AfterStatus
  <2>5. pc' \in {"schema", "releases", "web", "refresh"}
    BY <2>1, <2>2 DEF Start
  <2> QED
    BY <1>1, <2>2, <2>3, <2>4, <2>5
<1>5. CASE Stop
  BY <1>1, <1>5 DEF Stop, database
<1>6. CASE ApplySchema
  <2>1. /\ mode \in {"full", "oltp", "web"} /\ web' = web /\ exit' = exit /\ mode' = mode
        /\ pc' \in {"schema", Start[mode]} /\ (pc' # "schema" => n' = 0)
    BY <1>6 DEF ApplySchema, BuildInv, ModesKnown, flags
  <2>2. CASE pc' = "web"
    <3>1. mode' = "web"
      BY <2>1, <2>2 DEF Start
    <3>2. \A t \in DOMAIN web : ~((t - 1) * WebBatches < 0)
      BY NoTablesYet
    <3>3. n' \in Nat /\ WebUpTo(n)'
      BY <2>1, <2>2, <3>2 DEF WebUpTo
    <3> QED
      BY <2>1, <2>2, <3>1, <3>3 DEF GateInv, AfterStatus
  <2>3. pc' \in {"schema", "releases", "web"}
    BY <2>1 DEF Start
  <2> QED
    BY <1>1, <2>1, <2>2, <2>3
<1>7. CASE BuildIndexes \/ SkipIndexes
  <2>1. /\ pc = "indexes" /\ UNCHANGED <<web, mode, summary>> /\ exit' \in {"0", exit}
        /\ (pc' \in {"idle", "indexes"} \/ (pc' = "web" /\ n' = 0))
    BY <1>7 DEF BuildIndexes, SkipIndexes, Leave, database, flags
  <2> QED
    BY <1>2, <2>1 DEF GateInv, AfterStatus
<1>8. CASE LoadReleases \/ TakeReleases \/ Resume \/ LoadSale \/ FinishBase
  <2>1. web' = web /\ exit' = exit /\ pc' \in {"releases", "resume", "sales", "summary"}
    BY <1>8 DEF LoadReleases, TakeReleases, Resume, LoadSale, FinishBase, BaseDone, database
  <2> QED
    BY <1>1, <2>1
<1>9. CASE Summarise
  <2>1. /\ UNCHANGED <<web, mode>> /\ exit' = exit /\ pc' = "status" /\ sales = Len(Sales)
        /\ summary' = IF summary = Absent THEN 1..sales ELSE summary
    BY <1>9 DEF Summarise, flags, BuildInv, BaseIsWhole
  <2>2. summary' # Absent
    BY <2>1, AllLines DEF Absent
  <2> QED
    BY <1>2, <2>1, <2>2
<1>10. CASE Classify
  <2>1. /\ pc = "status" /\ UNCHANGED <<web, mode, summary>> /\ exit' = exit /\ pc' \in {"status", "indexes"}
    BY <1>10 DEF Classify, flags
  <2> QED
    BY <1>2, <2>1 DEF GateInv
<1>11. CASE WriteWeb \/ TakeWebTable \/ FinishWeb
  BY <1>11, WebKeeps
<1>12. CASE Deploy \/ Truncate \/ RefreshMonth \/ FinishRefresh
  BY <1>3, <1>12 DEF Deploy, Truncate, RefreshMonth, FinishRefresh, Leave, database, flags, BuildInv, ModesKnown
<1>13. CASE Gate
  BY <1>13, GateKeeps
<1>14. CASE UNCHANGED vars
  BY <1>14 DEF vars, database, flags, GateInv, AfterStatus, WebUpTo, Absent
<1> QED
  BY <1>4, <1>5, <1>6, <1>7, <1>8, <1>9, <1>10, <1>11, <1>12, <1>13, <1>14 DEF Next

LEMMA GateInit == Init => GateInv
  BY DEF Init, GateInv, AfterStatus

LEMMA GateHolds == Spec => []GateInv
  BY GateInit, GateStep, BuildHolds, PTL DEF Spec

\* A build that reaches the gate passes it, and the facts a refresh that ended
\* leaves are the sales, each once, for every schema, catalogue, list of sales,
\* backend and number of runs, whatever stopped before (main.go:514-531, 146-161).
THEOREM GateNeverFails == Spec => []GateIsQuiet
<1>1. BuildInv /\ GateInv => GateIsQuiet
  BY DEF BuildInv, GateInv, EndedWell, EachOnce, GateIsQuiet
<1> QED
  BY <1>1, BuildHolds, GateHolds, PTL
==============================================================================
