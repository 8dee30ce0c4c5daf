------------------------------- MODULE Estate --------------------------------
(***************************************************************************)
(* The shop estate (shops.Generate): shops are shared out over the         *)
(* countries, their opening dates are drawn country by country, a cohort   *)
(* of short-lived shops is appended, all are numbered by opening date, and *)
(* the wind-down closes the survivors.  Dates are days of the model,       *)
(* counted from the era's start; YearLength of them make a year.           *)
(***************************************************************************)
EXTENDS Integers, Sequences, FiniteSets, SequencesExt, FiniteSetsExt, Functions

CONSTANTS
    Countries,          \* ShopShares: the countries in order, "US" first
    Shares,             \* their weights, same order
    Alphabetical,       \* the rank of each country's code as a string
    Total,              \* ShopCountByTier: shops of the peak estate
    USFirstShopCount,   \* shops opened before the company goes abroad
    ChurnPercent,       \* EarlyChurnAnnualRate over the expansion, in percent
    YearLength,         \* days of a year
    Founding, Flagship, \* FoundingDate, FlagshipDate
    USFirstEraEnd, ExpansionStart, ExpansionEnd,
    MarketEntry,        \* country -> first day NGE operates there
    ChurnOpenEnd,       \* last opening of a short-lived shop
    PeakDay,            \* 2010-12-31, the day the peak estate is counted
    ClosureYears,       \* ClosureCurveFractions: the wind-down's years, ascending
    ClosureWeights,     \* and how many shops in all close in each
    ClosureDay,         \* BusinessClosureDate
    Draws,              \* fractions a uniform draw may return, in percent
    LifeDraws           \* lifetimes of short-lived shops, in days

EstateAssumption ==
    /\ Countries \in Seq(STRING) /\ Countries[1] = "US"
    /\ Shares \in [DOMAIN Countries -> Nat \ {0}]
    /\ Alphabetical \in [DOMAIN Countries -> Nat]
    /\ Total \in Nat \ {0} /\ USFirstShopCount \in Nat \ {0}
    /\ Founding < Flagship /\ Flagship < ExpansionEnd /\ ExpansionEnd <= PeakDay
    /\ Flagship + 1 < USFirstEraEnd /\ USFirstEraEnd <= ExpansionEnd
    /\ ExpansionStart < ChurnOpenEnd /\ ChurnOpenEnd + 1 < PeakDay
    /\ \A k \in DOMAIN Countries \ {1} :
          Flagship < MarketEntry[Countries[k]] /\ MarketEntry[Countries[k]] < ExpansionEnd
    /\ ClosureWeights \in [DOMAIN ClosureYears -> Nat \ {0}]
    /\ \A k \in DOMAIN ClosureYears : PeakDay < ClosureYears[k] * YearLength
    /\ Draws \subseteq 0..99 /\ LifeDraws \subseteq Nat \ {0}

\* Every era's day is a day, the company goes abroad after its flagship, and a
\* year of the wind-down begins before the company closes.
EstateDays ==
    /\ Len(Countries) > 1 /\ ChurnPercent \in Nat
    /\ \A j, k \in DOMAIN Countries : Alphabetical[j] = Alphabetical[k] => j = k
    /\ Founding \in Nat /\ Flagship \in Nat /\ USFirstEraEnd \in Nat /\ ExpansionStart \in Nat
    /\ ExpansionEnd \in Nat /\ ChurnOpenEnd \in Nat /\ PeakDay \in Nat /\ ClosureDay \in Nat
    /\ MarketEntry \in [ToSet(Countries) -> Nat] /\ MarketEntry["US"] <= Founding
    /\ Flagship < ExpansionStart /\ ExpansionStart < ExpansionEnd /\ YearLength \in Nat \ {0}
    /\ ClosureYears \in Seq(Nat) /\ ClosureYears # << >>
    /\ \A k \in DOMAIN ClosureYears : ClosureYears[k] * YearLength <= ClosureDay

ASSUME EstateAssumption
ASSUME EstateDays

VARIABLES
    built,   \* the step of Generate reached
    shops    \* the shops so far: a set, and once numbered a sequence by shop_id

estateVars == <<built, shops>>

NoDay == -1
YearOf(d) == d \div YearLength
FirstOf(y) == y * YearLength

-----------------------------------------------------------------------------
(* Sorting.  The elements of S in the strict order R, a set of pairs.      *)

Before(x, S, R) == {y \in S : <<y, x>> \in R}

Sorted(S, R) ==
    [i \in 1..Cardinality(S) |-> CHOOSE x \in S : Cardinality(Before(x, S, R)) = i - 1]

\* Days in order.
InOrder(x, y) == x[1] < y[1] \/ (x[1] = y[1] /\ x[2] < y[2])

Ascending(s) ==
    LET dated == {<<s[i], i>> : i \in DOMAIN s}
        ordered == Sorted(dated, {p \in dated \X dated : InOrder(p[1], p[2])})
    IN [i \in DOMAIN s |-> ordered[i][1]]

-----------------------------------------------------------------------------
(* Sharing out n over weights: the floor of each ideal share, and one more *)
(* for the largest remainders, earlier entries first on a tie.             *)

LargestRemainder(n, w) ==
    LET W == SumFunction(w)
        Share(k) == (n * w[k]) \div W
        Frac(k) == (n * w[k]) % W
        Ahead(k) == {j \in DOMAIN w : Frac(j) > Frac(k) \/ (Frac(j) = Frac(k) /\ j < k)}
        left == n - SumFunction([k \in DOMAIN w |-> Share(k)])
    IN [k \in DOMAIN w |-> Share(k) + IF Cardinality(Ahead(k)) < left THEN 1 ELSE 0]

\* The entries shared out, numbered within each share.
Slots(n) == UNION {{k} \X (1..n[k]) : k \in DOMAIN n}

usFirstCount == Min({Total, USFirstShopCount})

\* allocatePerCountry: the US gets its share, at least the US-first shops.
Allocation ==
    LET W == SumFunction(Shares)
        us == Min({Total, Max({usFirstCount, (2 * Shares[1] * Total + W) \div (2 * W)})})
        abroad == LargestRemainder(Total - us, [k \in DOMAIN Countries \ {1} |-> Shares[k]])
    IN [k \in DOMAIN Countries |-> IF k = 1 THEN us ELSE abroad[k]]

ChurnCount == (ChurnPercent * Total + 50) \div 100

-----------------------------------------------------------------------------
(* Opening dates: n draws from a window, in order of date.                 *)

Within(from, to) == {from + ((to - from) * f) \div 100 : f \in Draws}

SampleDates(from, to, n) == {Ascending(s) : s \in [1..n -> Within(from, to)]}

\* A bug to catch: the US-first shops drawn from the founding day on.
USFirstDatesUnpinned ==
    {Ascending(<<Founding, Flagship>> \o r) :
        r \in SampleDates(Founding - 1, USFirstEraEnd, usFirstCount - 2)}

\* The founding day, the flagship's day, and draws from the day after it.
USFirstDates ==
    IF usFirstCount < 2 THEN {<<Founding>>}
    ELSE {<<Founding, Flagship>> \o r :
             r \in SampleDates(Flagship + 1, USFirstEraEnd, usFirstCount - 2)}

\* buildDatePools: the possible date pools of the k-th country.
DatePools(k) ==
    LET n == Allocation[k]
        entry == MarketEntry[Countries[k]]
    IN IF n = 0 THEN {<< >>} ELSE
       CASE k = 1 -> {Ascending(f \o r) : f \in USFirstDates,
                          r \in SampleDates(ExpansionStart, ExpansionEnd, n - usFirstCount)}
         [] Countries[k] = "GB" ->
                {Ascending(Append(r, entry)) : r \in SampleDates(entry, ExpansionEnd, n - 1)}
         [] OTHER -> SampleDates(entry, ExpansionEnd, n)

-----------------------------------------------------------------------------
(* The shops.  A code is the country, whether the shop is short-lived, and *)
(* its number within them; codes are ordered as their strings are.         *)

Shop(k, brief, i, opened, closed, reason) ==
    [country |-> k, brief |-> brief, number |-> i,
     opened |-> opened, closed |-> closed, reason |-> reason]

CodeBefore(s, t) ==
    IF s.country # t.country THEN Alphabetical[s.country] < Alphabetical[t.country]
    ELSE IF s.brief # t.brief THEN t.brief
    ELSE s.number < t.number

EstateInit == built = "none" /\ shops = {}

\* The peak estate: the i-th date of a country's pool opens its i-th shop.
PlacePeakEstate ==
    /\ built = "none"
    /\ \E pool \in {p \in [DOMAIN Countries -> UNION {DatePools(k) : k \in DOMAIN Countries}] :
                        \A k \in DOMAIN Countries : p[k] \in DatePools(k)} :
           shops' = {Shop(x[1], FALSE, x[2], pool[x[1]][x[2]], NoDay, "none") : x \in Slots(Allocation)}
    /\ built' = "peak"

\* A bug to catch: the life of a short-lived shop not cut off at the peak.
ChurnShopUncut(k, i, opened, life) ==
    Shop(k, TRUE, i, opened, opened + life, "lease_expiry")

ChurnShop(k, i, opened, life) ==
    Shop(k, TRUE, i, opened, Min({opened + life, PeakDay - 1}), "lease_expiry")

\* generateTransientShops.
AppendTransients ==
    /\ built = "peak"
    /\ LET slots == Slots(LargestRemainder(ChurnCount, Shares)) IN
       \E opened \in [slots -> Within(ExpansionStart, ChurnOpenEnd)], life \in [slots -> LifeDraws] :
           shops' = shops \cup {ChurnShop(x[1], x[2], opened[x], life[x]) : x \in slots}
    /\ built' = "churned"

\* Shop ids follow the opening date, and the code on a tie.
OpenedBefore(s, t) == s.opened < t.opened \/ (s.opened = t.opened /\ CodeBefore(s, t))

Numbered(ss) == Sorted(ss, {p \in ss \X ss : OpenedBefore(p[1], p[2])})

NumberShops ==
    /\ built = "churned"
    /\ shops' = Numbered(shops)
    /\ built' = "numbered"

\* The closing date assignClosureSchedule draws for shop s in year y: a
\* shop opened within the year is kept open a month (a day of the model).
ClosingDate(s, y, f) ==
    LET last == Min({FirstOf(y + 1) - 1, ClosureDay})
        first == IF s.opened > FirstOf(y) THEN Min({s.opened + 1, last}) ELSE FirstOf(y)
    IN first + ((last - first) * f) \div 100

\* ClosureReasonForYear, by the position of the year on the curve.
ClosureReason(k) ==
    CASE k = Len(ClosureYears) -> "liquidation_2016"
      [] k = Len(ClosureYears) - 1 -> "restructuring_2015"
      [] k = Len(ClosureYears) - 2 -> "restructuring_2014"
      [] k = Len(ClosureYears) - 3 -> "underperformance"
      [] OTHER -> "lease_expiry"

\* A bug to catch: short-lived shops closed a second time.
SurvivorsAll(ss) == DOMAIN ss

Survivors(ss) == {i \in DOMAIN ss : ss[i].closed = NoDay}

\* A random order of the survivors, cut into as many per year as the curve
\* says: the last closes with the company.
CloseShops ==
    /\ built = "numbered"
    /\ LET live == Survivors(shops)
           quota == LargestRemainder(Cardinality(live), ClosureWeights)
       IN \E year \in [live -> DOMAIN ClosureYears] :
            /\ \A k \in DOMAIN ClosureYears : Cardinality({i \in live : year[i] = k}) = quota[k]
            /\ \E f \in [live -> Draws] :
                 shops' = [i \in DOMAIN shops |->
                    IF i \in live
                    THEN [shops[i] EXCEPT !.closed = ClosingDate(shops[i], ClosureYears[year[i]], f[i]),
                                          !.reason = ClosureReason(year[i])]
                    ELSE shops[i]]
    /\ built' = "closed"

EstateNext == PlacePeakEstate \/ AppendTransients \/ NumberShops \/ CloseShops

EstateSpec == EstateInit /\ [][EstateNext]_estateVars

-----------------------------------------------------------------------------
OpenOn(d) == {i \in DOMAIN shops : shops[i].opened <= d /\ d < shops[i].closed}

\* The estate that reports divide by: at the peak exactly the planned number
\* of shops is open, although shops were added and closed on either side of
\* that day by three independent draws (shops.go:126-131, policy.go:246-250).
PeakEstate == built = "closed" => Cardinality(OpenOn(PeakDay)) = Total

\* shop_id 1 is US-0001 on the founding day and shop_id 2 is US-0002 on the
\* flagship's, whatever else was drawn (policy.go:160-181, shops.go:340-350).
FoundingShops ==
    built \in {"numbered", "closed"} =>
        \A i \in 1..Min({2, usFirstCount}) :
            /\ shops[i].country = 1 /\ ~shops[i].brief /\ shops[i].number = i
            /\ shops[i].opened = IF i = 1 THEN Founding ELSE Flagship

\* Every shop closes after it opened and no later than the company, short-lived
\* ones before the peak and the others after it (policy.go:215-217).  A shop of
\* the peak estate opens after its market does (policy.go:188-191); a
\* short-lived one may open before it (shops.go:553-575).
LivesWithinTheBusiness ==
    built = "closed" =>
        \A i \in DOMAIN shops : LET s == shops[i] IN
            /\ s.opened < s.closed /\ s.closed <= ClosureDay
            /\ IF s.brief THEN s.closed < PeakDay ELSE PeakDay < s.closed
            /\ s.brief \/ s.opened >= MarketEntry[Countries[s.country]]

\* No shop opens before its market does: "InternationalMarketEntry still gates
\* non-US shop entry" (policy.go:188-191), short-lived shops included.
MarketsEnteredFirst ==
    built = "closed" =>
        \A i \in DOMAIN shops : shops[i].opened >= MarketEntry[Countries[shops[i].country]]

\* The flagship closed a day short of thirty years: policy.go:173-176 calls the
\* symmetry load-bearing.
FlagshipThirtyYears ==
    built = "closed" => shops[2].closed >= ClosureDay - 1
==============================================================================
