-------------------------------- MODULE Staff --------------------------------
(***************************************************************************)
(* The staff generator (hr.Generate) over a finished estate.  People are   *)
(* emitted one by one - founders, executives, the manager of the fraud     *)
(* shop, the staff of every shop, head office, senior leaders - and only   *)
(* after their shifts and pay lines were laid out over the whole life of   *)
(* the shop is it decided when they leave; what lies later is trimmed.     *)
(* The shifts of a shop then answer who was on duty at an instant, and the *)
(* wage history follows from the spell.  Only the last person, the fraud   *)
(* manager and the roster of the shop being staffed are remembered.        *)
(***************************************************************************)
EXTENDS Estate

CONSTANTS
    AsOf,                 \* the date of the archive, after the liquidation
    Founders, Execs,      \* the named cast: spells with hand-set ends
    FraudNumber,          \* FraudShopCode: the number of a US shop
    FraudManagerSpellID,
    ManagerFrom, ManagerTo, FraudWindowStart, FraudWindowEnd,
    HeadCurve,            \* years open -> HeadcountForShop without variance
    HeadVariance,         \* what the variance may add
    MinHeads, MaxHeads,
    FoundingCrew, FoundingSpan,  \* first hires, and how soon they come
    HQDivisor,            \* one head-office hire per so many in the shops
    HQGrades,             \* pay grades of the head-office roles, below 8
    HQJitter,             \* head office is hired up to so long after an opening
    Leaders,              \* the senior cohorts: [count, grade], grade from 8
    LeaderEnd,            \* BusinessPeakDate: the last start of a leader
    HireDraws,            \* fractions a hiring draw may return, in percent
    Tenures, MaxTenure,   \* what the exponential tenure may be, and its cap
    LeaderExits,          \* mid-2015 days a leader may resign on
    AttritionDays, Extension,    \* rank and file: days of 2007-2014, two years
    Restructuring, Layoffs, Chapter11,
    Week, ShiftsPerWeek, ShiftHistory, ShiftTimes, MaxShift, MaxShiftSpan, Hours,
    PayPeriod             \* days of a pay period, by position of the country

StaffAssumption ==
    /\ ClosureDay <= AsOf
    /\ FraudManagerSpellID = Len(Founders) + Len(Execs) + 1
    /\ ManagerFrom <= FraudWindowStart /\ FraudWindowStart <= FraudWindowEnd
    /\ FraudWindowEnd <= ManagerTo
    /\ \A k \in DOMAIN Leaders : Leaders[k].grade >= 8
    /\ \A g \in HQGrades : g < 8
    /\ MaxShift <= MaxShiftSpan
    /\ \A t \in ShiftTimes : t.length \in 1..MaxShift /\ t.start + t.length <= Hours
    /\ Extension + HQJitter + ExpansionEnd <= ClosureDay
    /\ LeaderEnd < Min(LeaderExits) /\ MinHeads \in Nat \ {0} /\ HQDivisor \in Nat \ {0}

\* The dates of the cast and of the wind-down lie within the business, those of
\* the fraud manager between the US-first era and the peak, and the fraud shop
\* is one of the US-first shops.
StaffDays ==
    /\ AsOf \in Nat /\ Founders # << >> /\ Execs # << >> /\ Leaders # << >>
    /\ \A cast \in {Founders, Execs} :
          /\ cast \in Seq([started : Nat, ended : Nat, reason : STRING, grade : Nat])
          /\ \A i \in DOMAIN cast : cast[i].started <= cast[i].ended /\ cast[i].ended <= ClosureDay
    /\ ManagerFrom \in Nat /\ ManagerTo \in Nat /\ FraudWindowStart \in Nat /\ FraudWindowEnd \in Nat
    /\ USFirstEraEnd <= ManagerFrom /\ ManagerTo <= PeakDay
    /\ FraudNumber \in 1..USFirstShopCount
    /\ ChurnOpenEnd <= ExpansionEnd
    /\ HireDraws \subseteq 0..99 /\ FoundingSpan \in Nat /\ HQJitter \in Nat /\ Extension \in Nat
    /\ Tenures \subseteq Nat /\ MaxTenure \in Nat
    /\ LeaderEnd \in 0..ClosureDay /\ LeaderExits \subseteq 0..ClosureDay
    /\ Leaders \in Seq([count : Nat \ {0}, grade : Nat])
    /\ AttritionDays \cup {Restructuring, Layoffs, Chapter11} \subseteq 0..ClosureDay
    /\ Week \in Nat \ {0} /\ Hours \in Nat \ {0} /\ ShiftHistory \in Nat
    /\ MaxShift \in Nat /\ MaxShiftSpan \in Nat /\ ShiftTimes \subseteq [start : Nat, length : Nat]
    /\ PayPeriod \in [DOMAIN Countries -> Nat \ {0}]

ASSUME StaffAssumption
ASSUME StaffDays

VARIABLES
    canon,    \* CanonAnomalies(tier): whether the fraud pocket is armed
    group,    \* the cohort being emitted
    seat,     \* people emitted in it; in the shop, for retail
    at,       \* the shop being staffed
    spell,    \* the next spell_id, which is also the next person_id
    person,   \* the last person emitted
    manager,  \* the fraud manager, once emitted
    spans     \* ShiftIndex.byShop[at]: the shifts of the shop being staffed

staffVars == <<canon, group, seat, at, spell, person, manager, spans>>

Nobody == [spell |-> 0, shop |-> 0, country |-> 0, grade |-> 0, started |-> NoDay,
           ended |-> NoDay, reason |-> "none", shifts |-> {}, lines |-> {}]

StaffInit ==
    /\ canon \in BOOLEAN
    /\ group = "founders" /\ seat = 0 /\ at = 1 /\ spell = 1
    /\ person = Nobody /\ manager = Nobody /\ spans = {}

-----------------------------------------------------------------------------
(* Pay.  Each country runs payroll in periods of fixed length from its     *)
(* first shop's opening until the date of the archive.                     *)

earliestShopByCountry(k) == Min({shops[i].opened : i \in {j \in DOMAIN shops : shops[j].country = k}})

buildRunsForCountry(k) ==
    LET earliest == earliestShopByCountry(k) IN
    {[from |-> f, to |-> Min({f + PayPeriod[k] - 1, AsOf})] :
        f \in {g \in earliest..AsOf : (g - earliest) % PayPeriod[k] = 0}}

\* The runs a spell overlaps; a spell without an end runs to the archive.
generatePayrollLines(k, started, ended) ==
    {r \in buildRunsForCountry(k) : started <= r.to /\ (ended = NoDay \/ r.from <= ended)}

-----------------------------------------------------------------------------
(* Shifts: week by week over the last years of the shop, from the hiring   *)
(* on, on distinct days of the week and not after the shop's last day.     *)

ShiftStart(started, close) == Max({started, close - ShiftHistory})

Weeks(started, close) ==
    IF close <= started THEN {}
    ELSE {w \in ShiftStart(started, close)..(close - 1) : (w - ShiftStart(started, close)) % Week = 0}

Shifts(started, close) ==
    LET weeks == Weeks(started, close)
        counts == {ShiftsPerWeek - 1, ShiftsPerWeek}
        days == {ds \in SUBSET (0..Week - 1) : Cardinality(ds) \in counts}
        worked(pick) == {y \in weeks \X (0..Week - 1) : y[2] \in pick[y[1]] /\ y[1] + y[2] <= close}
    IN UNION {{{[day |-> x[1] + x[2], start |-> time[x].start, length |-> time[x].length] :
                   x \in worked(pick)} : time \in [worked(pick) -> ShiftTimes]} :
              pick \in [weeks -> days]}

-----------------------------------------------------------------------------
(* Leaving.                                                                *)

\* A bug to catch: an early exit that is not cut off at the shop's closing.
retailTerminationUncut(started, s) ==
    {[day |-> s.closed, reason |-> s.reason]}
    \cup {[day |-> started + Max({1, t}), reason |-> "resignation"] : t \in Tenures}

retailTermination(started, s) ==
    {[day |-> s.closed, reason |-> s.reason]}
    \cup {[day |-> Min({started + Max({1, Min({t, MaxTenure})}), s.closed}), reason |-> "resignation"] :
             t \in IF started < s.closed THEN Tenures ELSE {}}

ensureAfter(target, started) == Max({target, started})

hqTermination(started, grade) ==
    LET left(d, why) == [day |-> d, reason |-> why] IN
    IF grade >= 8
    THEN {left(d, "resignation") : d \in {e \in LeaderExits : e > started}}
         \cup {left(ClosureDay, "liquidation_2016")}
    ELSE {left(IF d < started THEN started + Extension ELSE d, "resignation") : d \in AttritionDays}
         \cup {left(ensureAfter(Restructuring, started), "restructuring_2014"),
               left(ensureAfter(Layoffs, started), "restructuring_2015"),
               left(ensureAfter(Chapter11, started), "chapter11_2016"),
               left(ClosureDay, "liquidation_2016")}

\* applyClosure: hand-set ends are kept, and nobody leaves before starting.
applyClosure(p, end) ==
    [p EXCEPT !.ended = Max({end.day, p.started}), !.reason = end.reason]

\* A bug to catch: only periods that end within the employment are paid.
trimOpsToTerminationWhole(p) ==
    [p EXCEPT !.shifts = {s \in @ : s.day <= p.ended}, !.lines = {r \in @ : r.to <= p.ended}]

trimOpsToTermination(p) ==
    [p EXCEPT !.shifts = {s \in @ : s.day <= p.ended},
              !.lines = {r \in @ : r.from <= p.ended}]

\* A bug to catch: hand-set ends decided again by the closure pass.
LeavingsOfAll(p) ==
    IF p.shop # 0 THEN retailTermination(p.started, shops[p.shop])
    ELSE hqTermination(p.started, p.grade)

\* How a spell may end: as set by hand, or as the post-pass decides.
Leavings(p) ==
    IF p.ended # NoDay THEN {[day |-> p.ended, reason |-> p.reason]}
    ELSE IF p.shop # 0 THEN retailTermination(p.started, shops[p.shop])
    ELSE hqTermination(p.started, p.grade)

-----------------------------------------------------------------------------
Draft(shop, country, grade, started, ended, reason, shifts) ==
    [spell |-> spell, shop |-> shop, country |-> country, grade |-> grade,
     started |-> started, ended |-> ended, reason |-> reason, shifts |-> shifts,
     lines |-> generatePayrollLines(country, started, ended)]

\* wrappedEmit: closure, then trimming; the ids advance together.
Emit(p) ==
    /\ \E end \in Leavings(p) : person' = trimOpsToTermination(applyClosure(p, end))
    /\ spell' = spell + 1

\* The next seat of a group of n, or the group that follows it.
Advance(n, next) ==
    /\ group' = IF seat + 1 < n THEN group ELSE next
    /\ seat' = IF seat + 1 < n THEN seat + 1 ELSE 0

\* emitFounders, emitExecs: US corporate spells with hand-set dates.
EmitCast(name, cast, next) ==
    /\ group = name
    /\ LET c == cast[seat + 1] IN Emit(Draft(0, 1, c.grade, c.started, c.ended, c.reason, {}))
    /\ Advance(Len(cast), next)
    /\ UNCHANGED <<canon, at, manager, spans>>

EmitFounder == EmitCast("founders", Founders, "execs")
EmitExec == EmitCast("execs", Execs, "manager")

FraudShops == {i \in DOMAIN shops : shops[i].country = 1 /\ ~shops[i].brief
                                        /\ shops[i].number = FraudNumber}

EmitFraudManager ==
    /\ group = "manager" /\ canon
    /\ \E i \in FraudShops :
           Emit(Draft(i, shops[i].country, 5, ManagerFrom, ManagerTo, "resignation", {}))
    /\ manager' = person' /\ group' = "retail" /\ seat' = 0
    /\ UNCHANGED <<canon, at, spans>>

\* The small tiers have no fraud pocket, nor has an estate without the shop.
SkipFraudManager ==
    /\ group = "manager" /\ (~canon \/ FraudShops = {})
    /\ group' = "retail" /\ seat' = 0
    /\ UNCHANGED <<canon, at, spell, person, manager, spans>>

\* HeadcountForShop, over the life of the shop.
HeadcountsForShop(s) ==
    {Max({MinHeads, Min({MaxHeads, HeadCurve[(s.closed - s.opened) \div YearLength] + v})}) :
        v \in HeadVariance}

\* The founding crew comes within months of the opening, the others later.
HiringDays(s, i) ==
    LET span == Min({FoundingSpan, s.closed - s.opened})
        from == IF i < FoundingCrew THEN s.opened ELSE s.opened + span
        over == IF i < FoundingCrew THEN span ELSE s.closed - from
    IN {from + (over * f) \div 100 : f \in HireDraws}

\* The manager, then assistant managers as the headcount allows, then associates.
RetailGrade(i, heads) ==
    CASE i = 0 -> 5
      [] i = 1 \/ (i = 2 /\ heads >= 12) \/ (i = 3 /\ heads >= 18) -> 4
      [] OTHER -> 1

EmitRetail ==
    /\ group = "retail" /\ at \in DOMAIN shops
    /\ \E heads \in HeadcountsForShop(shops[at]), started \in HiringDays(shops[at], seat) :
         /\ seat < heads
         /\ \E shifts \in Shifts(started, shops[at].closed) :
              Emit(Draft(at, shops[at].country, RetailGrade(seat, heads), started, NoDay, "none", shifts))
    /\ spans' = spans \cup {[spell |-> spell, from |-> s.day * Hours + s.start,
                             to |-> s.day * Hours + s.start + s.length] : s \in person'.shifts}
    /\ seat' = seat + 1
    /\ UNCHANGED <<canon, group, at, manager>>

\* The shop's headcount is met; the next shop, or head office.
NextShop ==
    /\ group = "retail" /\ at \in DOMAIN shops /\ seat \in HeadcountsForShop(shops[at])
    /\ at' = at + 1 /\ seat' = 0 /\ spans' = {}
    /\ group' = IF at = Len(shops) THEN "hq" ELSE group
    /\ UNCHANGED <<canon, spell, person, manager>>

HQTotal == (spell - seat - Len(Founders) - Len(Execs) - (IF manager = Nobody THEN 1 ELSE 2)) \div HQDivisor

\* A hire follows the opening of some shop by up to a year.
EmitHQ ==
    /\ group = "hq" /\ seat < HQTotal
    /\ \E i \in DOMAIN shops, f \in HireDraws, g \in HQGrades :
           Emit(Draft(0, 1, g, Min({shops[i].opened + (HQJitter * f) \div 100, ClosureDay}), NoDay, "none", {}))
    /\ seat' = seat + 1
    /\ UNCHANGED <<canon, group, at, manager, spans>>

LeaveHQ ==
    /\ group = "hq" /\ seat = HQTotal
    /\ group' = "leaders" /\ seat' = 0
    /\ UNCHANGED <<canon, at, spell, person, manager, spans>>

\* The seats of the cohorts, one cohort after the other.
LeaderCount(k) == SumFunctionOnSet([j \in DOMAIN Leaders |-> Leaders[j].count], 1..k)

LeaderGrade(i) == Leaders[Min({k \in DOMAIN Leaders : i <= LeaderCount(k)})].grade

EmitLeader ==
    /\ group = "leaders"
    /\ \E f \in HireDraws :
           Emit(Draft(0, 1, LeaderGrade(seat + 1), (LeaderEnd * f) \div 100, NoDay, "none", {}))
    /\ Advance(LeaderCount(Len(Leaders)), "done")
    /\ UNCHANGED <<canon, at, manager, spans>>

StaffNext ==
    \/ EmitFounder \/ EmitExec \/ EmitFraudManager \/ SkipFraudManager
    \/ EmitRetail \/ NextShop \/ EmitHQ \/ LeaveHQ \/ EmitLeader

\* The staff are generated over the finished estate.
Init == EstateInit /\ StaffInit
Next ==
    \/ EstateNext /\ UNCHANGED staffVars
    \/ built = "closed" /\ StaffNext /\ UNCHANGED estateVars

Spec == Init /\ [][Next]_<<estateVars, staffVars>>
-----------------------------------------------------------------------------
(* PickOnDuty.  The shop's spans in order of their start: from the last    *)
(* one started by the instant, back while they started recently enough.    *)

Roster ==
    Sorted(spans, {p \in spans \X spans : InOrder(<<p[1].from, p[1].spell>>, <<p[2].from, p[2].spell>>)})

\* A bug to catch: the search gives up at the first span that is over.
OnDutyStopsEarly(t) ==
    LET hi == Cardinality({x \in spans : x.from <= t})
        over == {i \in 1..hi : Roster[i].to <= t}
    IN {Roster[i].spell : i \in {j \in 1..hi : \A o \in over : o < j}}

OnDuty(t) ==
    LET hi == Cardinality({x \in spans : x.from <= t})
        stale == {i \in 1..hi : Roster[i].from < t - MaxShiftSpan}
    IN {Roster[i].spell : i \in {j \in 1..hi : Roster[j].to > t /\ \A o \in stale : o < j}}

-----------------------------------------------------------------------------
Emitted == person # Nobody

\* Everybody leaves after starting and no later than the company; a shop's
\* staff within the life of their shop, the fraud manager's hand-set dates
\* included (hr.go:96-100, closure.go:74-104): an extension by two years of a
\* spell that began after its drawn end must not outlast the company.
SpellsWithinTheBusiness ==
    Emitted =>
        /\ person.started <= person.ended /\ person.ended <= ClosureDay
        /\ person.shop # 0 => /\ shops[person.shop].opened <= person.started
                              /\ person.ended <= shops[person.shop].closed

\* Nobody is paid for a period that begins after leaving, and every day of
\* the employment since the country's first opening lies in exactly one paid
\* period (closure.go:159-206 on rows after the termination).
PaidWhileEmployed ==
    Emitted =>
        /\ \A r \in person.lines : r.from <= person.ended /\ person.started <= r.to
        /\ \A d \in Max({person.started, earliestShopByCountry(person.country)})..person.ended :
               Cardinality({r \in person.lines : r.from <= d /\ d <= r.to}) = 1

\* Who is on duty: exactly those with a shift over the instant, each of them
\* employed that day and in an open shop (shiftindex.go:104-137); a rota laid
\* out to the shop's closing must not outlive its people (closure.go:161-174).
OnDutyIsExact ==
    /\ \A x \in person.shifts : person.started <= x.day /\ x.day <= person.ended
    /\ group = "retail" /\ at \in DOMAIN shops =>
          \A t \in {x.from : x \in spans} \cup {x.to : x \in spans} :
              OnDuty(t) = {x.spell : x \in {y \in spans : y.from <= t /\ t < y.to}}

\* The keyed refunds name spell FraudManagerSpellID: where the pocket is armed
\* that is the manager of that shop, employed there, and the shop is open, all
\* through the window; no other spell takes the id (policy.go:1016-1024).
KeyedRefundsHaveTheirManager ==
    canon /\ group \notin {"founders", "execs", "manager"} /\ FraudShops # {} =>
        /\ manager.spell = FraudManagerSpellID
        /\ manager.shop \in FraudShops
        /\ manager.started <= FraudWindowStart /\ FraudWindowEnd <= manager.ended
        /\ shops[manager.shop].opened <= manager.started
        /\ manager.ended <= shops[manager.shop].closed
==============================================================================
