-------------------------------- MODULE Wages --------------------------------
(***************************************************************************)
(* The wage history of a person (hr.generateCompensation), a function of   *)
(* the finished spell: the hiring, a rise every new year, a retention rise *)
(* and a wind-down premium become dated records that follow one another;   *)
(* bonuses and the severance are single days sized by the wage in effect.  *)
(***************************************************************************)
EXTENDS Staff

CONSTANTS RetentionDay, WindDownDay,  \* dates of the two special rises
          BonusYears, BonusOffset     \* years that pay a bonus, and its day

ASSUME WagesAssumption ==
    RetentionDay \in 0..ClosureDay /\ WindDownDay \in 0..ClosureDay
    /\ BonusYears \subseteq Nat /\ BonusOffset \in Nat

EndWalk(p) == Min({p.ended, ClosureDay})

Event(d, kind, rank) == [date |-> d, kind |-> kind, rank |-> rank]

\* The events of a spell; rank is the order they are collected in, which the
\* stable sort keeps among events of one day.
Events(p, retained) ==
    {Event(p.started, "hire", 0)}
    \cup {Event(FirstOf(y), "cola", 1) :
             y \in {z \in (YearOf(p.started) + 1)..YearOf(EndWalk(p)) : FirstOf(z) <= EndWalk(p)}}
    \cup {e \in {Event(RetentionDay, "retention", 2)} :
             retained /\ p.started <= e.date /\ e.date <= EndWalk(p)}
    \cup {e \in {Event(WindDownDay, "winddown", 3)} :
             p.reason = "liquidation_2016" /\ p.started <= e.date /\ e.date <= EndWalk(p)}

\* A bug to catch: events kept in the order they were collected.
InOrderCollected(events) ==
    Sorted(events, {p \in events \X events : InOrder(<<p[1].rank, p[1].date>>, <<p[2].rank, p[2].date>>)})

EventsInOrder(events) ==
    Sorted(events, {p \in events \X events : InOrder(<<p[1].date, p[1].rank>>, <<p[2].date, p[2].rank>>)})

\* The base records: each lasts until the day before the next, but at least
\* its own day; the last until the end of the spell.
BaseRecords(p, retained) ==
    LET ev == EventsInOrder(Events(p, retained)) IN
    [i \in DOMAIN ev |->
        [kind |-> ev[i].kind, from |-> ev[i].date,
         to |-> IF i < Len(ev) THEN Max({ev[i].date, ev[i + 1].date - 1}) ELSE p.ended]]

\* wageInEffectAt: the last record that spans the day, 0 if there is none.
WageInEffectAt(recs, d) == Max({0} \cup {i \in DOMAIN recs : recs[i].from <= d /\ d <= recs[i].to})

\* The days a bonus is paid, for grades above entry level.
BonusDays(p) ==
    {d \in {FirstOf(y) + BonusOffset : y \in BonusYears} : p.grade > 1 /\ p.started <= d /\ d <= EndWalk(p)}

Bonuses(p, recs) == {[day |-> d, of |-> WageInEffectAt(recs, d)] : d \in BonusDays(p)}

\* computeSeverance: the reasons that pay, after a year of service.
Severed(p) ==
    /\ p.reason \in {"restructuring_2014", "restructuring_2015", "chapter11_2016", "liquidation_2016"}
    /\ p.ended - p.started >= YearLength

-----------------------------------------------------------------------------
\* On every day of a spell the wage in effect is that of the last event up to
\* that day, and no record outlasts the spell, although the events are collected
\* out of order and may fall on one day; so every bonus is sized by a wage, none
\* is paid after the person left, and a severance is sized by the wage of the
\* last day (compensation.go:41-50, 147-224).
WageFollowsTheLastRise ==
    Emitted => \A retained \in BOOLEAN :
        LET recs == BaseRecords(person, retained)
            events == Events(person, retained)
        IN /\ \A i \in DOMAIN recs : recs[i].from <= recs[i].to /\ recs[i].to <= person.ended
           /\ \A d \in person.started..person.ended :
                  LET i == WageInEffectAt(recs, d)
                      upTo == {e \in events : e.date <= d}
                      last == CHOOSE e \in upTo : \A o \in upTo :
                                  o.date < e.date \/ (o.date = e.date /\ o.rank <= e.rank)
                  IN i # 0 /\ recs[i].from = last.date /\ recs[i].kind = last.kind
           /\ \A b \in Bonuses(person, recs) : b.of # 0 /\ b.day <= person.ended
           /\ Severed(person) => WageInEffectAt(recs, person.ended) = Len(recs)
==============================================================================
