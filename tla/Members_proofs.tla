--------------------------- MODULE Members_proofs ----------------------------
(***************************************************************************)
(* Why the index answers for every instant, whatever is sampled: the merge *)
(* hands out sign-ups in order also after coarsening, so the months of a   *)
(* country only grow, and the count of a month is final once it is passed. *)
(* No sign-up follows the cutoff, so its companion rows lie in their eras.  *)
(***************************************************************************)
EXTENDS Members, Sums, TLAPS

-----------------------------------------------------------------------------
(* Coarsening keeps the order of instants.                                 *)

\* What a number leaves on division, in the form the arithmetic uses.
LEMMA Division ==
    ASSUME NEW t \in Int, NEW u \in Nat, u > 0
    PROVE  /\ t \div u \in Int /\ t % u \in 0..(u - 1)
           /\ t % u = t - u * (t \div u)
           /\ t \in Nat => t \div u \in Nat
<1>1. t % u \in 0..(u - 1) /\ t \div u \in Int
  OBVIOUS
<1>2. t % u = t - u * (t \div u)
  OBVIOUS
<1>3. t < u * (t \div u) + u
  OBVIOUS
<1>4. ASSUME t \in Nat PROVE t \div u >= 0
  <2>1. SUFFICES ASSUME NEW q \in Int, q < 0, t < u * q + u PROVE FALSE
    BY <1>1, <1>3
  <2>2. (0 - q - 1) \in Nat /\ u * (0 - q - 1) = 0 - u * q - u
    BY <2>1
  <2>3. u * (0 - q - 1) >= 0
    BY <2>2
  <2> QED
    BY <1>4, <2>1, <2>2, <2>3
<1> QED
  BY <1>1, <1>2, <1>4

LEMMA Divides ==
    ASSUME NEW t \in Nat, NEW u \in Nat, u > 0, t % u = 0
    PROVE  \E k \in Nat : t = u * k
<1>1. t = u * (t \div u)
  OBVIOUS
<1> QED
  BY <1>1, Division

LEMMA RoundedIsLess ==
    ASSUME NEW t \in Nat, NEW u \in Nat, u > 0
    PROVE  t - (t % u) \in Nat /\ t - (t % u) <= t
<1>1. t % u <= t /\ t % u \in 0..(u - 1)
  OBVIOUS
<1> QED
  BY <1>1

\* Rounding down to a unit does not pass a multiple of the unit.
LEMMA RoundedKeepsMultiple ==
    ASSUME NEW t \in Nat, NEW u \in Nat, u > 0, NEW k \in Nat, u * k <= t
    PROVE  u * k <= t - (t % u)
<1> DEFINE q == t \div u
<1>1. q \in Nat /\ t % u \in 0..(u - 1) /\ t % u = t - u * q
  BY Division
<1>2. CASE k <= q
  <2>1. u * k <= u * q
    BY <1>1, <1>2
  <2> QED
    BY <1>1, <2>1
<1>3. CASE q + 1 <= k
  <2>1. u * (q + 1) <= u * k
    BY <1>1, <1>3
  <2>2. u * (q + 1) = u * q + u
    BY <1>1
  <2> QED
    BY <1>1, <2>1, <2>2
<1> QED
  BY <1>1, <1>2, <1>3

LEMMA RoundingMonotone ==
    ASSUME NEW s \in Nat, NEW t \in Nat, s <= t, NEW u \in Nat, u > 0
    PROVE  s - (s % u) <= t - (t % u)
<1>1. s \div u \in Nat /\ s % u \in 0..(u - 1) /\ s % u = s - u * (s \div u)
  BY Division
<1>2. u * (s \div u) <= t /\ s - (s % u) = u * (s \div u)
  BY <1>1
<1> QED
  BY <1>1, <1>2, RoundedKeepsMultiple

LEMMA DivMonotone ==
    ASSUME NEW s \in Int, NEW t \in Int, s <= t, NEW u \in Nat, u > 0
    PROVE  s \div u <= t \div u
<1>1. s \div u \in Int /\ s % u \in 0..(u - 1) /\ s % u = s - u * (s \div u)
  BY Division
<1>2. t \div u \in Int /\ t % u \in 0..(u - 1) /\ t % u = t - u * (t \div u)
  BY Division
<1>3. CASE s \div u <= t \div u
  BY <1>3
<1>4. CASE (t \div u) + 1 <= s \div u
  <2>1. u * ((t \div u) + 1) <= u * (s \div u)
    BY <1>1, <1>2, <1>4
  <2>2. u * ((t \div u) + 1) = u * (t \div u) + u
    BY <1>2
  <2> QED
    BY <1>1, <1>2, <2>1, <2>2
<1> QED
  BY <1>1, <1>2, <1>3, <1>4

\* The unit of a year divides the year.
Unit(y) ==
    CASE y <= YearPrecise -> YearLength
      [] y <= MonthPrecise -> MonthLength
      [] y <= DayPrecise -> DayLength
      [] OTHER -> 1

LEMMA UnitDivides ==
    ASSUME NEW y \in Nat
    PROVE  /\ Unit(y) \in Nat /\ Unit(y) > 0
           /\ \E m \in Nat : YearLength = Unit(y) * m
<1>0. /\ DayLength \in Nat /\ DayLength > 0 /\ MonthLength \in Nat /\ MonthLength > 0
      /\ YearLength \in Nat /\ YearLength > 0
      /\ MonthLength % DayLength = 0 /\ YearLength % MonthLength = 0
  BY MembersAssumption DEF MembersAssumption
<1>1. PICK j \in Nat : MonthLength = DayLength * j
  BY <1>0, Divides
<1>2. PICK k \in Nat : YearLength = MonthLength * k
  BY <1>0, Divides
<1>3. YearLength = DayLength * (j * k) /\ j * k \in Nat
  BY <1>0, <1>1, <1>2
<1>4. YearLength = YearLength * 1 /\ YearLength = 1 * YearLength
  BY <1>0
<1>5. Unit(y) \in {YearLength, MonthLength, DayLength, 1}
  BY DEF Unit
<1>6. \A u \in {YearLength, MonthLength, DayLength, 1} :
         u \in Nat /\ u > 0 /\ \E m \in Nat : YearLength = u * m
  <2>1. 1 \in Nat /\ 1 > 0
    OBVIOUS
  <2> QED
    BY <1>0, <1>2, <1>3, <1>4, <2>1, Zenon
<1> QED
  BY <1>5, <1>6

LEMMA CoarseIsRounded == \A t : coarsenToPrecision(t) = t - (t % Unit(YearOf(t)))
  BY DEF coarsenToPrecision, Unit

LEMMA CoarseMonotone ==
    ASSUME NEW s \in Nat, NEW t \in Nat, s <= t
    PROVE  /\ coarsenToPrecision(s) \in Nat
           /\ coarsenToPrecision(s) <= coarsenToPrecision(t)
<1> DEFINE Y == YearLength
           u == Unit(YearOf(s))
           v == Unit(YearOf(t))
<1>1. Y \in Nat /\ Y > 0
  BY MembersAssumption DEF MembersAssumption
<1>2. /\ YearOf(s) \in Nat /\ s < Y * (YearOf(s) + 1)
      /\ YearOf(t) \in Nat /\ Y * YearOf(t) <= t
      /\ YearOf(s) <= YearOf(t)
  <2>1. s \div Y \in Nat /\ s % Y \in 0..(Y - 1) /\ s % Y = s - Y * (s \div Y)
    BY <1>1, Division
  <2>2. t \div Y \in Nat /\ t % Y \in 0..(Y - 1) /\ t % Y = t - Y * (t \div Y)
    BY <1>1, Division
  <2>3. s \div Y <= t \div Y
    BY <1>1, DivMonotone
  <2>4. Y * (s \div Y + 1) = Y * (s \div Y) + Y
    BY <1>1, <2>1
  <2> QED
    BY <1>1, <2>1, <2>2, <2>3, <2>4 DEF YearOf
<1>3. u \in Nat /\ u > 0 /\ v \in Nat /\ v > 0
  BY <1>2, UnitDivides
<1>4. s - (s % u) \in Nat /\ s - (s % u) <= s
  BY <1>3, RoundedIsLess
<1>5. CASE YearOf(s) = YearOf(t)
  <2>1. s - (s % u) <= t - (t % u)
    BY <1>3, RoundingMonotone
  <2> QED
    BY <1>4, <1>5, <2>1, CoarseIsRounded
<1>6. CASE YearOf(s) + 1 <= YearOf(t)
  <2>1. PICK m \in Nat : Y = v * m
    BY <1>2, UnitDivides
  <2>2. Y * YearOf(t) = v * (m * YearOf(t)) /\ m * YearOf(t) \in Nat
    BY <1>2, <1>3, <2>1
  <2>3. Y * YearOf(t) <= t - (t % v)
    BY <1>2, <1>3, <2>2, RoundedKeepsMultiple
  <2>4. Y * (YearOf(s) + 1) <= Y * YearOf(t)
    BY <1>1, <1>2, <1>6
  <2>5. t - (t % v) \in Int
    BY <1>3
  <2>6. s - (s % u) <= t - (t % v)
    <3>1. Y * (YearOf(s) + 1) \in Int /\ Y * YearOf(t) \in Int
      BY <1>1, <1>2
    <3> QED
      BY <3>1, <1>2, <1>4, <2>3, <2>4, <2>5
  <2> QED
    BY <1>4, <2>6, CoarseIsRounded
<1> QED
  BY <1>2, <1>5, <1>6

-----------------------------------------------------------------------------
(* The invariant.                                                          *)

Customer == [id : Nat, country : Countries, signup : Nat]
Means == {"card_emv", "card_contactless"}
Method == [what : Means, at : Int]
Entry == [id : Nat, country : Countries, signup : Nat, saved : Seq(Method), firstID : Nat]
Ref == [customerID : Nat, firstID : Nat, addedDay : Int, method : Means]

Busy == step \in {"engage", "enrol", "save"}

TypesKnown ==
    /\ cursors \in [Countries -> Seq(Nat)]
    /\ idx \in Nat /\ ctr \in Nat
    /\ step \in {"merge", "engage", "enrol", "save", "done"}
    /\ Busy => cur \in Customer /\ cur.id = idx + 1
    /\ ids \in [Countries -> Seq(Nat)]
    /\ DOMAIN monthCount = Countries
    /\ roll \in Seq(Entry) /\ savedPay \in Seq(Ref)

CursorsSorted ==
    \A c \in Countries : \A i, j \in DOMAIN cursors[c] : i <= j => cursors[c][i] <= cursors[c][j]

\* The customers emitted are in order, the one in hand comes after them ...
RollRises ==
    /\ \A j, k \in DOMAIN roll : j < k => roll[j].id < roll[k].id /\ roll[j].signup <= roll[k].signup
    /\ \A k \in DOMAIN roll : roll[k].id <= idx
    /\ Busy => \A k \in DOMAIN roll : roll[k].signup <= cur.signup

\* ... and those not yet merged after both, also once they are coarsened.
RestIsLater ==
    \A c \in Countries : \A i \in DOMAIN cursors[c] :
        /\ \A k \in DOMAIN roll : roll[k].signup <= coarsenToPrecision(cursors[c][i])
        /\ Busy => cur.signup <= coarsenToPrecision(cursors[c][i])

\* The index's entry for a member of the roll.
Refers(ref, m) ==
    /\ m.saved # <<>>
    /\ ref = [customerID |-> m.id, firstID |-> m.firstID,
              addedDay |-> DayOf(m.saved[1].at), method |-> m.saved[1].what]

SavedListed ==
    /\ \A j, k \in DOMAIN savedPay : j < k => savedPay[j].customerID < savedPay[k].customerID
    /\ \A j \in DOMAIN savedPay : \E k \in DOMAIN roll : Refers(savedPay[j], roll[k])
    /\ \A k \in DOMAIN roll : roll[k].saved # <<>> =>
           \E j \in DOMAIN savedPay : Refers(savedPay[j], roll[k])

MembersOf(c) == {k \in DOMAIN roll : roll[k].country = c}
SignedUpBy(c, m) == {roll[k].id : k \in {j \in MembersOf(c) : MonthOf(roll[j].signup) <= m}}

IdsListed == \A c \in Countries : {ids[c][i] : i \in DOMAIN ids[c]} = {roll[k].id : k \in MembersOf(c)}

\* The count of a month is that of all who signed up by its end.
MonthsCounted ==
    step # "done" => \A c \in Countries :
        /\ DOMAIN monthCount[c] = {MonthOf(roll[k].signup) : k \in MembersOf(c)}
        /\ \A m \in DOMAIN monthCount[c] :
               /\ monthCount[c][m] \in 0..Len(ids[c])
               /\ {ids[c][i] : i \in 1..monthCount[c][m]} = SignedUpBy(c, m)

MembersInv ==
    /\ TypesKnown /\ CursorsSorted /\ RollRises /\ RestIsLater /\ SavedListed
    /\ IdsListed /\ MonthsCounted /\ PickIsExact

-----------------------------------------------------------------------------
\* The constants, in the form the arithmetic uses.
LEMMA Constants ==
    /\ {DayLength, MonthLength, YearLength, AsOf, SignupCutoff} \subseteq Nat
    /\ DayLength > 0 /\ MonthLength > 0 /\ YearLength > 0
  BY MembersAssumption DEF MembersAssumption

LEMMA MonthMonotone ==
    ASSUME NEW s \in Nat, NEW t \in Nat, s <= t
    PROVE  MonthOf(s) \in Nat /\ MonthOf(t) \in Nat /\ MonthOf(s) <= MonthOf(t)
<1>1. MonthLength \in Nat /\ MonthLength > 0
  BY Constants
<1>2. s \div MonthLength \in Nat /\ t \div MonthLength \in Nat
  BY <1>1, Division
<1>3. s \div MonthLength <= t \div MonthLength
  BY <1>1, DivMonotone
<1> QED
  BY <1>2, <1>3 DEF MonthOf

\* Everything drawn is an instant.
LEMMA DrawnIsInstant ==
    ASSUME NEW from \in Int, NEW to \in Int
    PROVE  /\ Drawn(from, to) \subseteq Int
           /\ from \in Nat /\ from <= to => Drawn(from, to) \subseteq Nat
<1>1. ASSUME NEW f \in Draws PROVE ((to - from) * f) \div 100 \in Int
  BY MembersAssumption DEF MembersAssumption
<1>2. ASSUME NEW f \in Draws, from <= to PROVE ((to - from) * f) \div 100 \in Nat
  <2>1. f \in Nat /\ to - from \in Nat
    BY <1>2, MembersAssumption DEF MembersAssumption
  <2>2. (to - from) * f \in Nat
    BY <2>1
  <2> QED
    BY <2>2, Division
<1> QED
  BY <1>1, <1>2 DEF Drawn

LEMMA SignupsAreInstants ==
    ASSUME NEW c \in Countries
    PROVE  sampleSignupDate(EarliestSignup[c]) \subseteq Nat
<1> DEFINE earliest == EarliestSignup[c]
<1>1. earliest \in Nat
  BY MembersAssumption DEF MembersAssumption
<1>2. ASSUME NEW e \in DOMAIN Eras
      PROVE  LET start == Max({Eras[e][1] * YearLength, earliest})
                 end == Min({(Eras[e][2] + 1) * YearLength - 1, SignupCutoff})
             IN (IF end <= start THEN {earliest} ELSE Drawn(start, end)) \subseteq Nat
  <2> DEFINE a == Eras[e][1] * YearLength
             b == (Eras[e][2] + 1) * YearLength - 1
             start == Max({a, earliest})
             end == Min({b, SignupCutoff})
  <2>1. Eras[e][1] \in Nat /\ Eras[e][2] \in Nat /\ YearLength \in Nat /\ YearLength > 0
        /\ SignupCutoff \in Nat
    <3>1. Eras \in Seq(Nat \X Nat)
      BY MembersAssumption DEF MembersAssumption
    <3>2. Eras[e] \in Nat \X Nat
      BY <3>1
    <3> QED
      BY <3>2, Constants
  <2>2. a \in Nat /\ b \in Nat
    <3>1. ASSUME NEW x \in Nat, NEW y \in Nat, y > 0 PROVE x * y \in Nat /\ (x + 1) * y - 1 \in Nat
      <4>1. x * y \in Nat /\ (x + 1) * y = x * y + y
        OBVIOUS
      <4> QED
        BY <3>1, <4>1
    <3> QED
      BY <2>1, <3>1
  <2>3. start \in {a, earliest}
    <3> DEFINE S == {a, earliest}
               top == a + earliest
    <3>1. S \in SUBSET Nat /\ S # {} /\ top \in Nat /\ \A x \in S : x <= top
      BY <1>1, <2>2
    <3> HIDE DEF S, top
    <3>2. Max(S) \in S
      BY <3>1, MaxIsGreatest
    <3> QED
      BY <3>2 DEF S
  <2>4. end \in {b, SignupCutoff}
    <3> DEFINE S == {b, SignupCutoff}
    <3>1. S \in SUBSET Nat /\ S # {}
      BY <2>1, <2>2
    <3> HIDE DEF S
    <3>2. Min(S) \in S
      BY <3>1, MinIsLeast
    <3> QED
      BY <3>2 DEF S
  <2>5. start \in Nat /\ end \in Nat
    BY <1>1, <2>1, <2>2, <2>3, <2>4
  <2>6. (IF end <= start THEN {earliest} ELSE Drawn(start, end)) \subseteq Nat
    <3> HIDE DEF start, end
    <3>1. CASE end <= start
      BY <1>1, <3>1
    <3>2. CASE start <= end
      <4>1. Drawn(start, end) \subseteq Nat
        BY <2>5, <3>2, DrawnIsInstant
      <4> QED
        BY <1>1, <4>1
    <3> QED
      BY <2>5, <3>1, <3>2
  <2> QED
    BY <2>6
<1> QED
  BY <1>2 DEF sampleSignupDate

LEMMA InitHolds == Init => MembersInv
<1> SUFFICES ASSUME Init PROVE MembersInv
  OBVIOUS
<1>1. PICK p \in [Countries -> UNION {SignupLists(c) : c \in Countries}] :
         cursors = p /\ \A c \in Countries : p[c] \in SignupLists(c)
  BY DEF Init
<1>2. ASSUME NEW c \in Countries
      PROVE  /\ cursors[c] \in Seq(Nat)
             /\ \A i, j \in DOMAIN cursors[c] : i <= j => cursors[c][i] <= cursors[c][j]
  <2>1. Allocated[c] \in Nat
    BY MembersAssumption DEF MembersAssumption
  <2>2. cursors[c] \in [1..Allocated[c] -> sampleSignupDate(EarliestSignup[c])]
        /\ \A i, j \in DOMAIN cursors[c] : i <= j => cursors[c][i] <= cursors[c][j]
    BY <1>1 DEF SignupLists
  <2>3. cursors[c] \in [1..Allocated[c] -> Nat]
    BY <2>2, SignupsAreInstants
  <2> QED
    BY <2>1, <2>2, <2>3
<1>3. cursors \in [Countries -> Seq(Nat)] /\ CursorsSorted
  BY <1>1, <1>2 DEF CursorsSorted
<1>4. TypesKnown
  BY <1>3 DEF Init, TypesKnown, Busy
<1>5. roll = <<>> /\ DOMAIN roll = {} /\ savedPay = <<>> /\ DOMAIN savedPay = {} /\ ~Busy
  BY DEF Init, Busy
<1>6. RollRises /\ RestIsLater /\ SavedListed
  BY <1>5 DEF RollRises, RestIsLater, SavedListed
<1>7. IdsListed /\ MonthsCounted
  BY <1>5 DEF Init, IdsListed, MonthsCounted, MembersOf
<1>8. PickIsExact
  BY DEF Init, PickIsExact
<1> QED
  BY <1>3, <1>4, <1>6, <1>7, <1>8 DEF MembersInv

-----------------------------------------------------------------------------
(* The merge.                                                              *)

\* The cursor on top of the heap is the earliest.
LEMMA PeekIsFirst ==
    ASSUME TypesKnown, Live # {}
    PROVE  /\ Peek \in Live
           /\ \A d \in Live : Head(cursors[Peek]) <= Head(cursors[d])
<1> DEFINE heads == {Head(cursors[c]) : c \in Live}
<1>1. \A c \in Live : c \in Nat /\ Head(cursors[c]) \in Nat
  <2>1. Countries \subseteq Nat
    BY MembersAssumption DEF MembersAssumption
  <2>2. \A c \in Live : c \in Countries /\ cursors[c] \in Seq(Nat) /\ cursors[c] # <<>>
    BY DEF TypesKnown, Live
  <2>3. \A q \in Seq(Nat) : q # <<>> => Head(q) \in Nat
    OBVIOUS
  <2> QED
    BY <2>1, <2>2, <2>3
<1>2. PICK h \in heads : \A g \in heads : h <= g
  <2>1. heads \in SUBSET Nat /\ heads # {}
    BY <1>1
  <2> HIDE DEF heads
  <2> QED
    BY <2>1, LeastOfNaturals
<1> DEFINE T == {c \in Live : Head(cursors[c]) = h}
<1>3. PICK c \in T : \A d \in T : c <= d
  <2>1. T \in SUBSET Nat /\ T # {}
    BY <1>1, <1>2
  <2> HIDE DEF T
  <2> QED
    BY <2>1, LeastOfNaturals
<1>4. c \in Live /\ \A d \in Live \ {c} : Less(c, d)
  <2>1. ASSUME NEW d \in Live \ {c} PROVE Less(c, d)
    <3>1. Head(cursors[c]) = h /\ h <= Head(cursors[d])
      BY <1>2, <1>3
    <3>2. Head(cursors[d]) = h => c <= d /\ c # d
      BY <1>3
    <3> QED
      BY <1>1, <1>3, <3>1, <3>2 DEF Less
  <2> QED
    BY <1>3, <2>1
<1>5. Peek \in Live /\ \A d \in Live \ {Peek} : Less(Peek, d)
  BY <1>4 DEF Peek
<1> QED
  BY <1>1, <1>5 DEF Less

\* What is left of the cursors after a slot is part of what was there.
LEMMA RestOfCursors ==
    ASSUME TypesKnown, CursorsSorted, NEW p \in Live,
           cursors' = [cursors EXCEPT ![p] = Tail(@)]
    PROVE  /\ cursors' \in [Countries -> Seq(Nat)] /\ CursorsSorted'
           /\ \A c \in Countries : \A i \in DOMAIN cursors'[c] :
                  \E j \in DOMAIN cursors[c] : cursors'[c][i] = cursors[c][j]
<1>1. p \in Countries /\ cursors[p] \in Seq(Nat) /\ cursors[p] # <<>>
  BY DEF TypesKnown, Live
<1>2. /\ Tail(cursors[p]) \in Seq(Nat)
      /\ \A i \in DOMAIN Tail(cursors[p]) :
             i \in Nat /\ i + 1 \in DOMAIN cursors[p] /\ Tail(cursors[p])[i] = cursors[p][i + 1]
  BY <1>1
<1>3. cursors' \in [Countries -> Seq(Nat)]
  BY <1>1, <1>2 DEF TypesKnown
<1>4. \A c \in Countries : IF c = p THEN cursors'[c] = Tail(cursors[p]) ELSE cursors'[c] = cursors[c]
  BY DEF TypesKnown
<1>5. CursorsSorted'
  <2>1. ASSUME NEW c \in Countries, NEW i \in DOMAIN cursors'[c], NEW j \in DOMAIN cursors'[c], i <= j
        PROVE  cursors'[c][i] <= cursors'[c][j]
    <3>1. CASE c = p
      <4>1. /\ i \in Nat /\ i + 1 \in DOMAIN cursors[p] /\ cursors'[c][i] = cursors[p][i + 1]
            /\ j \in Nat /\ j + 1 \in DOMAIN cursors[p] /\ cursors'[c][j] = cursors[p][j + 1]
        BY <1>2, <1>4, <3>1
      <4>2. i + 1 <= j + 1
        BY <2>1, <4>1
      <4> QED
        BY <1>1, <4>1, <4>2 DEF CursorsSorted
    <3>2. CASE c # p
      BY <1>4, <2>1, <3>2 DEF CursorsSorted
    <3> QED
      BY <3>1, <3>2
  <2> QED
    BY <2>1 DEF CursorsSorted
<1> QED
  BY <1>2, <1>3, <1>4, <1>5

LEMMA IdsKept ==
    ASSUME IdsListed, UNCHANGED <<ids, roll>>
    PROVE  IdsListed'
<1>1. ASSUME NEW c \in Countries
      PROVE  {ids'[c][i] : i \in DOMAIN ids'[c]} = {roll'[k].id : k \in MembersOf(c)'}
  <2>1. {ids[c][i] : i \in DOMAIN ids[c]} = {roll[k].id : k \in MembersOf(c)}
    BY DEF IdsListed
  <2>2. MembersOf(c)' = MembersOf(c)
    BY DEF MembersOf
  <2>3. {roll'[k].id : k \in MembersOf(c)'} = {roll[k].id : k \in MembersOf(c)}
    BY <2>2
  <2> QED
    BY <2>1, <2>3
<1> QED
  BY <1>1 DEF IdsListed

\* The index and the roll are not touched, nor PickIsExact while the merge lasts.
LEMMA IndexKept ==
    ASSUME MembersInv, UNCHANGED <<ids, monthCount, savedPay, roll>>, step # "done", step' # "done"
    PROVE  SavedListed' /\ IdsListed' /\ MonthsCounted' /\ PickIsExact'
<1>1. SavedListed'
  BY DEF MembersInv, SavedListed, Refers, DayOf
<1>2. IdsListed'
  BY IdsKept DEF MembersInv
<1>3. MonthsCounted'
  <2>1. \A c, m : SignedUpBy(c, m)' = SignedUpBy(c, m)
    BY DEF SignedUpBy, MembersOf, MonthOf
  <2>2. \A c : MembersOf(c)' = MembersOf(c)
    BY DEF MembersOf
  <2> QED
    BY <2>1, <2>2 DEF MembersInv, MonthsCounted, MonthOf
<1>4. PickIsExact'
  BY DEF PickIsExact
<1> QED
  BY <1>1, <1>2, <1>3, <1>4

LEMMA SkipSlotKeeps == MembersInv /\ SkipSlot => MembersInv'
<1> SUFFICES ASSUME MembersInv, SkipSlot PROVE MembersInv'
  OBVIOUS
<1>1. Peek \in Live /\ ~Busy /\ ~Busy' /\ step # "done" /\ step' = step
  BY PeekIsFirst DEF MembersInv, SkipSlot, Busy
<1>2. /\ cursors' \in [Countries -> Seq(Nat)] /\ CursorsSorted'
      /\ \A c \in Countries : \A i \in DOMAIN cursors'[c] :
             \E j \in DOMAIN cursors[c] : cursors'[c][i] = cursors[c][j]
  BY <1>1, RestOfCursors DEF MembersInv, SkipSlot
<1>3. TypesKnown'
  BY <1>1, <1>2 DEF MembersInv, TypesKnown, SkipSlot
<1>4. RollRises'
  <2>1. idx \in Nat /\ idx' = idx + 1 /\ roll' = roll /\ roll \in Seq(Entry)
    BY DEF MembersInv, TypesKnown, SkipSlot
  <2>2. \A k \in DOMAIN roll : roll[k].id \in Nat
    <3>1. \A k \in DOMAIN roll : roll[k] \in Entry
      BY <2>1
    <3> QED
      BY <3>1 DEF Entry
  <2> QED
    BY <1>1, <2>1, <2>2 DEF MembersInv, RollRises
<1>5. RestIsLater'
  BY <1>1, <1>2 DEF MembersInv, RestIsLater, SkipSlot
<1>6. SavedListed' /\ IdsListed' /\ MonthsCounted' /\ PickIsExact'
  BY <1>1, IndexKept DEF SkipSlot
<1> QED
  BY <1>2, <1>3, <1>4, <1>5, <1>6 DEF MembersInv

LEMMA TakeSlotKeeps == MembersInv /\ TakeSlot => MembersInv'
<1> SUFFICES ASSUME MembersInv, TakeSlot PROVE MembersInv'
  OBVIOUS
<1> DEFINE top == Head(cursors[Peek])
<1>1. /\ Peek \in Live /\ Peek \in Countries
      /\ \A d \in Live : top <= Head(cursors[d])
  BY PeekIsFirst DEF MembersInv, TakeSlot, Live
<1>2. /\ step = "merge" /\ step' = "engage" /\ ~Busy /\ Busy'
      /\ UNCHANGED <<idx, ids, monthCount, savedPay, ctr, roll>>
      /\ cur' = [id |-> idx + 1, country |-> Peek, signup |-> coarsenToPrecision(top)]
  BY DEF TakeSlot, Busy
<1>3. /\ cursors' \in [Countries -> Seq(Nat)] /\ CursorsSorted'
      /\ \A c \in Countries : \A i \in DOMAIN cursors'[c] :
             \E j \in DOMAIN cursors[c] : cursors'[c][i] = cursors[c][j]
  BY <1>1, RestOfCursors DEF MembersInv, TakeSlot
<1>4. top = cursors[Peek][1] /\ 1 \in DOMAIN cursors[Peek] /\ top \in Nat
  BY <1>1 DEF MembersInv, TypesKnown, Live
<1>5. coarsenToPrecision(top) \in Nat
  BY <1>4, CoarseMonotone
<1>6. TypesKnown'
  BY <1>1, <1>2, <1>3, <1>5 DEF MembersInv, TypesKnown, Customer
<1>7. RollRises'
  BY <1>1, <1>2, <1>4 DEF MembersInv, RollRises, RestIsLater
<1>8. RestIsLater'
  <2>1. ASSUME NEW c \in Countries, NEW j \in DOMAIN cursors[c]
        PROVE  coarsenToPrecision(top) <= coarsenToPrecision(cursors[c][j])
    <3>1. cursors[c] \in Seq(Nat) /\ c \in Live /\ 1 \in DOMAIN cursors[c] /\ j >= 1
          /\ Head(cursors[c]) = cursors[c][1] /\ cursors[c][j] \in Nat /\ cursors[c][1] \in Nat
      BY DEF MembersInv, TypesKnown, Live
    <3>2. cursors[c][1] <= cursors[c][j]
      BY <3>1 DEF MembersInv, CursorsSorted
    <3>3. top <= cursors[c][j]
      BY <1>1, <1>4, <3>1, <3>2
    <3> QED
      BY <1>4, <3>1, <3>3, CoarseMonotone
  <2> QED
    BY <1>2, <1>3, <2>1 DEF MembersInv, RestIsLater
<1>9. SavedListed' /\ IdsListed' /\ MonthsCounted' /\ PickIsExact'
  BY <1>2, IndexKept
<1> QED
  BY <1>3, <1>6, <1>7, <1>8, <1>9 DEF MembersInv

LEMMA CompanionsKeep == MembersInv /\ (Engage \/ Enrol) => MembersInv'
<1> SUFFICES ASSUME MembersInv, Engage \/ Enrol PROVE MembersInv'
  OBVIOUS
<1>1. /\ Busy /\ Busy' /\ step' \in {"enrol", "save"} /\ step # "done" /\ step' # "done"
      /\ UNCHANGED <<cursors, idx, cur, ids, monthCount, savedPay, ctr, roll>>
  BY DEF Engage, Enrol, Busy
<1>2. TypesKnown' /\ CursorsSorted' /\ RollRises' /\ RestIsLater'
  BY <1>1 DEF MembersInv, TypesKnown, CursorsSorted, RollRises, RestIsLater
<1>3. SavedListed' /\ IdsListed' /\ MonthsCounted' /\ PickIsExact'
  BY <1>1, IndexKept
<1> QED
  BY <1>2, <1>3 DEF MembersInv

-----------------------------------------------------------------------------
(* A customer is emitted, and indexed.                                     *)

LEMMA Appended ==
    ASSUME NEW S, NEW s \in Seq(S), NEW e \in S
    PROVE  /\ Append(s, e) \in Seq(S) /\ Len(s) \in Nat /\ Len(Append(s, e)) = Len(s) + 1
           /\ DOMAIN s = 1..Len(s) /\ DOMAIN Append(s, e) = DOMAIN s \cup {Len(s) + 1}
           /\ \A i \in DOMAIN s : Append(s, e)[i] = s[i]
           /\ Append(s, e)[Len(s) + 1] = e
           /\ \A i \in DOMAIN s : i < Len(s) + 1
  OBVIOUS

LEMMA SavedAreMethods ==
    ASSUME TypesKnown, Busy
    PROVE  SavedMethods \subseteq Seq(Method)
<1> DEFINE first == cur.signup + MonthLength
           from == IF first > AsOf THEN cur.signup ELSE first
           choices == {Row(m, t) : m \in SaveableMethods, t \in Drawn(from, AsOf)}
<1>1. from \in Int /\ AsOf \in Int
  <2>1. cur.signup \in Nat
    BY DEF TypesKnown, Customer
  <2> QED
    BY <2>1, Constants
<1>2. Drawn(from, AsOf) \subseteq Int
  <2> HIDE DEF from
  <2> QED
    BY <1>1, DrawnIsInstant
<1>3. choices \subseteq Method
  <2> HIDE DEF from
  <2>2. SaveableMethods \subseteq Means
    <3>1. SaveableMethods \in {{"card_emv"} \cup {"card_contactless"}, {"card_emv"} \cup {}}
      BY Zenon DEF SaveableMethods
    <3> QED
      BY <3>1 DEF Means
  <2>3. \A m \in Means, t \in Int : Row(m, t) \in Method
    BY DEF Row, Method
  <2>4. \A m \in SaveableMethods, t \in Drawn(from, AsOf) : Row(m, t) \in Method
    BY <1>2, <2>2, <2>3
  <2> QED
    BY <2>4
<1>4. BoundedSeq(choices, MaxSaved) \subseteq Seq(Method)
  <2> HIDE DEF choices
  <2>1. \A m \in 0..MaxSaved : [1..m -> choices] \subseteq Seq(Method)
    BY <1>3
  <2> QED
    BY <2>1 DEF BoundedSeq, SeqOf
<1>5. <<>> \in Seq(Method)
  OBVIOUS
<1> HIDE DEF choices
<1>6. SavedMethods = IF SignupYear < OnlineYear THEN {<<>>} ELSE BoundedSeq(choices, MaxSaved)
  BY DEF SavedMethods, choices
<1> QED
  BY <1>4, <1>5, <1>6

LEMMA SaveKeeps == MembersInv /\ Save => MembersInv'
<1> SUFFICES ASSUME MembersInv, Save PROVE MembersInv'
  OBVIOUS
<1>1. PICK saved \in SavedMethods :
         /\ rows' = saved
         /\ savedPay' = IF saved = <<>> THEN savedPay
                        ELSE Append(savedPay, [customerID |-> cur.id, firstID |-> ctr + 1,
                                               addedDay |-> DayOf(saved[1].at), method |-> saved[1].what])
         /\ ctr' = ctr + Len(saved)
         /\ roll' = Append(roll, [id |-> cur.id, country |-> cur.country, signup |-> cur.signup,
                                  saved |-> saved, firstID |-> ctr + 1])
  BY DEF Save
<1> DEFINE e == [id |-> cur.id, country |-> cur.country, signup |-> cur.signup,
                 saved |-> saved, firstID |-> ctr + 1]
           r == [customerID |-> cur.id, firstID |-> ctr + 1,
                 addedDay |-> DayOf(saved[1].at), method |-> saved[1].what]
           n == Len(roll) + 1
<1>a. PICK here, M : here = cur.country /\ M = MonthOf(cur.signup)
  OBVIOUS
<1>2. /\ Busy /\ ~Busy' /\ step # "done" /\ step' = "merge"
      /\ idx' = idx + 1 /\ UNCHANGED <<cursors, cur>>
      /\ ids' = [ids EXCEPT ![here] = Append(@, cur.id)]
      /\ monthCount' = [monthCount EXCEPT ![here] =
             [m \in DOMAIN @ \cup {M} |-> IF m = M THEN Len(ids'[here]) ELSE monthCount[here][m]]]
  BY <1>a DEF Save, Busy
<1>3. /\ cur \in Customer /\ cur.id = idx + 1 /\ cur.id \in Nat /\ here \in Countries
      /\ cur.signup \in Nat /\ idx \in Nat /\ ctr \in Nat
  BY <1>a, <1>2 DEF MembersInv, TypesKnown, Customer
<1>4. saved \in Seq(Method) /\ Len(saved) \in Nat
      /\ (saved # <<>> => saved[1].at \in Int /\ saved[1].what \in Means)
  <2>1. saved \in Seq(Method)
    BY <1>2, SavedAreMethods DEF MembersInv
  <2>2. saved # <<>> => saved[1] \in Method
    BY <2>1
  <2> QED
    BY <2>1, <2>2 DEF Method
<1>5. e \in Entry
  BY <1>a, <1>3, <1>4 DEF Entry
<1>6. /\ roll' \in Seq(Entry) /\ DOMAIN roll' = DOMAIN roll \cup {n} /\ n \in Nat
      /\ roll'[n] = e /\ \A k \in DOMAIN roll : k \in Nat /\ k < n /\ roll'[k] = roll[k]
  BY <1>1, <1>5, Appended DEF MembersInv, TypesKnown
<1>7. \A k \in DOMAIN roll : /\ roll[k].id \in Nat /\ roll[k].signup \in Nat
                             /\ roll[k].country \in Countries /\ roll[k].saved \in Seq(Method)
  <2>1. \A k \in DOMAIN roll : roll[k] \in Entry
    BY DEF MembersInv, TypesKnown
  <2> QED
    BY <2>1 DEF Entry
<1>8. /\ saved # <<>> => r \in Ref /\ savedPay' = Append(savedPay, r)
      /\ saved = <<>> => savedPay' = savedPay
  <2>1. saved # <<>> => DayOf(saved[1].at) \in Int
    BY <1>4, Constants, Division DEF DayOf
  <2> QED
    BY <1>1, <1>3, <1>4, <2>1 DEF Ref
<1>9. savedPay' \in Seq(Ref)
  <2>1. savedPay \in Seq(Ref)
    BY DEF MembersInv, TypesKnown
  <2> HIDE DEF r
  <2>2. saved # <<>> => Append(savedPay, r) \in Seq(Ref)
    BY <1>8, <2>1, Appended
  <2> QED
    BY <1>8, <2>1, <2>2
<1>10. /\ ids' \in [Countries -> Seq(Nat)]
       /\ \A c \in Countries : c # here => ids'[c] = ids[c]
       /\ ids'[here] = Append(ids[here], cur.id)
       /\ ids[here] \in Seq(Nat)
  BY <1>2, <1>3 DEF MembersInv, TypesKnown
<1>11. TypesKnown'
  BY <1>2, <1>3, <1>4, <1>6, <1>9, <1>10, <1>1 DEF MembersInv, TypesKnown
<1>12. CursorsSorted'
  BY <1>2 DEF MembersInv, CursorsSorted
<1>13. RollRises'
  <2>1. \A k \in DOMAIN roll : roll[k].id <= idx /\ roll[k].signup <= cur.signup
    BY <1>2 DEF MembersInv, RollRises
  <2>2. e.id = idx + 1 /\ e.signup = cur.signup
    BY <1>3
  <2> HIDE DEF e
  <2>3. ASSUME NEW j \in DOMAIN roll', NEW k \in DOMAIN roll', j < k
        PROVE  roll'[j].id < roll'[k].id /\ roll'[j].signup <= roll'[k].signup
    <3>1. CASE k = n
      <4>1. j \in DOMAIN roll
        BY <1>6, <2>3, <3>1
      <4> QED
        BY <1>3, <1>6, <1>7, <2>1, <2>2, <3>1, <4>1
    <3>2. CASE k # n
      <4>1. j \in DOMAIN roll /\ k \in DOMAIN roll
        BY <1>6, <2>3, <3>2
      <4> QED
        BY <1>6, <2>3, <4>1 DEF MembersInv, RollRises
    <3> QED
      BY <3>1, <3>2
  <2>4. \A k \in DOMAIN roll' : roll'[k].id <= idx'
    BY <1>2, <1>3, <1>6, <1>7, <2>1, <2>2
  <2> QED
    BY <1>2, <2>3, <2>4 DEF RollRises
<1>14. RestIsLater'
  <2>1. e.signup = cur.signup
    OBVIOUS
  <2> HIDE DEF e
  <2> QED
    BY <1>2, <1>6, <2>1 DEF MembersInv, RestIsLater
<1>15. SavedListed'
  <2>1. e.saved = saved /\ e.id = cur.id /\ (saved # <<>> => Refers(r, e))
    BY DEF Refers
  <2> HIDE DEF e
  <2>3. \A j \in DOMAIN savedPay : savedPay[j].customerID \in Nat /\ savedPay[j].customerID <= idx
    <3>1. ASSUME NEW j \in DOMAIN savedPay
          PROVE  savedPay[j].customerID \in Nat /\ savedPay[j].customerID <= idx
      <4>1. PICK k \in DOMAIN roll : Refers(savedPay[j], roll[k])
        BY DEF MembersInv, SavedListed
      <4>2. savedPay[j].customerID = roll[k].id
        BY <4>1 DEF Refers
      <4>3. roll[k].id <= idx
        BY DEF MembersInv, RollRises
      <4> QED
        BY <1>7, <4>2, <4>3
    <3> QED
      BY <3>1
  <2>4. CASE saved = <<>>
    <3>1. savedPay' = savedPay
      BY <1>8, <2>4
    <3>2. \A j, k \in DOMAIN savedPay' : j < k => savedPay'[j].customerID < savedPay'[k].customerID
      BY <3>1 DEF MembersInv, SavedListed
    <3>3. \A j \in DOMAIN savedPay' : \E k \in DOMAIN roll' : Refers(savedPay'[j], roll'[k])
      BY <3>1, <1>6 DEF MembersInv, SavedListed
    <3>4. \A k \in DOMAIN roll' : roll'[k].saved # <<>> =>
              \E j \in DOMAIN savedPay' : Refers(savedPay'[j], roll'[k])
      BY <3>1, <1>6, <2>1, <2>4 DEF MembersInv, SavedListed
    <3> QED
      BY <3>2, <3>3, <3>4, <1>2 DEF SavedListed, Refers
  <2>5. CASE saved # <<>>
    <3> DEFINE p == Len(savedPay) + 1
    <3>0. r.customerID = idx + 1
      BY <1>3
    <3> HIDE DEF r
    <3>1. /\ DOMAIN savedPay' = DOMAIN savedPay \cup {p} /\ p \in Nat /\ savedPay'[p] = r
          /\ \A j \in DOMAIN savedPay : j \in Nat /\ j < p /\ savedPay'[j] = savedPay[j]
      <4>1. savedPay \in Seq(Ref)
        BY DEF MembersInv, TypesKnown
      <4> QED
        BY <1>8, <2>5, <4>1, Appended
    <3>2. ASSUME NEW j \in DOMAIN savedPay', NEW k \in DOMAIN savedPay', j < k
          PROVE  savedPay'[j].customerID < savedPay'[k].customerID
      <4>1. j \in DOMAIN savedPay
        BY <3>1, <3>2
      <4>2. CASE k = p
        BY <1>3, <2>3, <3>0, <3>1, <4>1, <4>2
      <4>3. CASE k # p
        BY <3>1, <3>2, <4>1, <4>3 DEF MembersInv, SavedListed
      <4> QED
        BY <4>2, <4>3
    <3>3. \A j \in DOMAIN savedPay' : \E k \in DOMAIN roll' : Refers(savedPay'[j], roll'[k])
      BY <3>1, <1>6, <2>1, <2>5 DEF MembersInv, SavedListed
    <3>4. \A k \in DOMAIN roll' : roll'[k].saved # <<>> =>
              \E j \in DOMAIN savedPay' : Refers(savedPay'[j], roll'[k])
      BY <3>1, <1>6, <2>1, <2>5 DEF MembersInv, SavedListed
    <3> QED
      BY <3>2, <3>3, <3>4 DEF SavedListed
  <2> QED
    BY <2>4, <2>5
<1>16. /\ \A c \in Countries : MembersOf(c)' = IF c = here THEN MembersOf(c) \cup {n} ELSE MembersOf(c)
       /\ n \notin DOMAIN roll
  <2>1. e.country = here
    BY <1>a
  <2> HIDE DEF e
  <2>2. n \notin DOMAIN roll
    BY <1>6
  <2> HIDE DEF n
  <2>3. ASSUME NEW c \in Countries, c = here PROVE MembersOf(c)' = MembersOf(c) \cup {n}
    BY <1>6, <2>1, <2>2, <2>3 DEF MembersOf
  <2>4. ASSUME NEW c \in Countries, c # here PROVE MembersOf(c)' = MembersOf(c)
    BY <1>6, <2>1, <2>2, <2>4 DEF MembersOf
  <2> QED
    BY <2>2, <2>3, <2>4
<1>17. IdsListed'
  <2>1. e.id = cur.id
    OBVIOUS
  <2> HIDE DEF e
  <2>2. ASSUME NEW c \in Countries
        PROVE  {ids'[c][i] : i \in DOMAIN ids'[c]} = {roll'[k].id : k \in MembersOf(c)'}
    <3>1. CASE c # here
      <4>1. \A k \in MembersOf(c) : roll'[k].id = roll[k].id
        BY <1>6 DEF MembersOf
      <4>2. {roll'[k].id : k \in MembersOf(c)'} = {roll[k].id : k \in MembersOf(c)}
        BY <1>16, <3>1, <4>1
      <4>3. {ids[c][i] : i \in DOMAIN ids[c]} = {roll[k].id : k \in MembersOf(c)}
        BY DEF MembersInv, IdsListed
      <4> QED
        BY <1>10, <3>1, <4>2, <4>3
    <3>2. CASE c = here
      <4> DEFINE l == Len(ids[c]) + 1
      <4>0. ids[c] \in Seq(Nat) /\ cur.id \in Nat /\ ids'[c] = Append(ids[c], cur.id)
        BY <1>3, <1>10, <3>2
      <4>1. /\ DOMAIN ids'[c] = DOMAIN ids[c] \cup {l} /\ ids'[c][l] = cur.id
            /\ \A i \in DOMAIN ids[c] : ids'[c][i] = ids[c][i]
        BY <4>0, Appended
      <4> HIDE DEF l
      <4>2. {ids'[c][i] : i \in DOMAIN ids'[c]} = {ids[c][i] : i \in DOMAIN ids[c]} \cup {cur.id}
        BY <4>1
      <4>3. \A k \in MembersOf(c) : roll'[k].id = roll[k].id
        BY <1>6 DEF MembersOf
      <4>4. MembersOf(c)' = MembersOf(c) \cup {n}
        BY <1>16, <3>2
      <4>5. {roll'[k].id : k \in MembersOf(c)'} = {roll[k].id : k \in MembersOf(c)} \cup {cur.id}
        BY <1>6, <2>1, <4>3, <4>4
      <4>6. {ids[c][i] : i \in DOMAIN ids[c]} = {roll[k].id : k \in MembersOf(c)}
        BY DEF MembersInv, IdsListed
      <4> QED
        BY <4>2, <4>5, <4>6
    <3> QED
      BY <3>1, <3>2
  <2> QED
    BY <2>2 DEF IdsListed
<1>18. PickIsExact'
  BY <1>2 DEF PickIsExact
<1>19. MonthsCounted'
  <2>1. e.id = cur.id /\ e.signup = cur.signup /\ MonthOf(e.signup) = M
    BY <1>a
  <2> HIDE DEF e
  <2>2. M \in Int /\ \A k \in DOMAIN roll : MonthOf(roll[k].signup) \in Int /\ MonthOf(roll[k].signup) <= M
    <3>1. M \in Int
      BY <1>a, <1>3, MonthMonotone
    <3>2. ASSUME NEW k \in DOMAIN roll PROVE MonthOf(roll[k].signup) \in Int /\ MonthOf(roll[k].signup) <= M
      <4>1. roll[k].signup <= cur.signup
        BY <1>2 DEF MembersInv, RollRises
      <4> QED
        BY <1>a, <1>3, <1>7, <4>1, MonthMonotone
    <3> QED
      BY <3>1, <3>2
  <2>3. ASSUME NEW c \in Countries
        PROVE  /\ DOMAIN monthCount'[c] = {MonthOf(roll'[k].signup) : k \in MembersOf(c)'}
               /\ \A m \in DOMAIN monthCount'[c] :
                      /\ monthCount'[c][m] \in 0..Len(ids'[c])
                      /\ {ids'[c][i] : i \in 1..monthCount'[c][m]} = SignedUpBy(c, m)'
    <3>0. /\ DOMAIN monthCount[c] = {MonthOf(roll[k].signup) : k \in MembersOf(c)}
          /\ \A m \in DOMAIN monthCount[c] :
                 /\ monthCount[c][m] \in 0..Len(ids[c])
                 /\ {ids[c][i] : i \in 1..monthCount[c][m]} = SignedUpBy(c, m)
          /\ ids[c] \in Seq(Nat)
      BY <1>2 DEF MembersInv, MonthsCounted, TypesKnown
    <3>1. \A k \in MembersOf(c) : roll'[k].id = roll[k].id /\ roll'[k].signup = roll[k].signup /\ k \in DOMAIN roll
      BY <1>6 DEF MembersOf
    <3>2. \A m : SignedUpBy(c, m)' = {roll'[k].id : k \in {j \in MembersOf(c)' : MonthOf(roll'[j].signup) <= m}}
      BY DEF SignedUpBy, MonthOf
    <3>3. CASE c # here
      <4>1. MembersOf(c)' = MembersOf(c) /\ ids'[c] = ids[c] /\ monthCount'[c] = monthCount[c]
        BY <1>2, <1>10, <1>16, <3>3 DEF MembersInv, TypesKnown
      <4>2. \A m : SignedUpBy(c, m)' = SignedUpBy(c, m)
        BY <3>1, <3>2, <4>1 DEF SignedUpBy
      <4>3. {MonthOf(roll'[k].signup) : k \in MembersOf(c)'} = {MonthOf(roll[k].signup) : k \in MembersOf(c)}
        BY <3>1, <4>1
      <4> QED
        BY <3>0, <4>1, <4>2, <4>3
    <3>4. CASE c = here
      <4>1. MembersOf(c)' = MembersOf(c) \cup {n}
        BY <1>16, <3>4
      <4>2. ids'[c] = Append(ids[c], cur.id) /\ Len(ids'[c]) = Len(ids[c]) + 1 /\ Len(ids[c]) \in Nat
            /\ DOMAIN ids'[c] = 1..Len(ids'[c])
            /\ \A i \in 1..Len(ids[c]) : ids'[c][i] = ids[c][i]
        <5>1. ids[c] \in Seq(Nat) /\ cur.id \in Nat /\ ids'[c] = Append(ids[c], cur.id)
          BY <1>3, <1>10, <3>4
        <5> QED
          BY <5>1
      <4>3. /\ DOMAIN monthCount'[c] = DOMAIN monthCount[c] \cup {M}
            /\ monthCount'[c][M] = Len(ids'[c])
            /\ \A m \in DOMAIN monthCount[c] : m # M => monthCount'[c][m] = monthCount[c][m]
        <5>1. monthCount'[c] = [m \in DOMAIN monthCount[c] \cup {M} |->
                                   IF m = M THEN Len(ids'[c]) ELSE monthCount[c][m]]
          BY <1>2, <3>4 DEF MembersInv, TypesKnown
        <5> QED
          BY <5>1
      <4>4. {MonthOf(roll'[k].signup) : k \in MembersOf(c)'} = DOMAIN monthCount[c] \cup {M}
        BY <1>6, <2>1, <3>0, <3>1, <4>1
      <4>5. ASSUME NEW m \in DOMAIN monthCount[c], m # M
            PROVE  /\ monthCount'[c][m] \in 0..Len(ids'[c])
                   /\ {ids'[c][i] : i \in 1..monthCount'[c][m]} = SignedUpBy(c, m)'
        <5>1. m \in Int /\ m < M
          <6>1. PICK k \in MembersOf(c) : m = MonthOf(roll[k].signup)
            BY <3>0
          <6> QED
            BY <2>2, <3>1, <4>5, <6>1
        <5>2. SignedUpBy(c, m)' = SignedUpBy(c, m)
          <6>1. ~ (MonthOf(roll'[n].signup) <= m)
            BY <1>6, <2>1, <2>2, <5>1
          <6>2. {j \in MembersOf(c)' : MonthOf(roll'[j].signup) <= m} = {j \in MembersOf(c) : MonthOf(roll[j].signup) <= m}
            BY <3>1, <4>1, <6>1
          <6> QED
            BY <3>1, <3>2, <6>2 DEF SignedUpBy
        <5>3. monthCount'[c][m] = monthCount[c][m] /\ monthCount[c][m] \in 0..Len(ids[c])
          BY <3>0, <4>3, <4>5
        <5>4. {ids'[c][i] : i \in 1..monthCount[c][m]} = {ids[c][i] : i \in 1..monthCount[c][m]}
          BY <4>2, <5>3
        <5> QED
          BY <3>0, <4>2, <5>2, <5>3, <5>4
      <4>6. {ids'[c][i] : i \in 1..Len(ids'[c])} = SignedUpBy(c, M)'
        <5>1. \A j \in MembersOf(c)' : MonthOf(roll'[j].signup) <= M
          BY <1>6, <2>1, <2>2, <3>1, <4>1
        <5>2. SignedUpBy(c, M)' = {roll'[k].id : k \in MembersOf(c)'}
          BY <3>2, <5>1
        <5> QED
          BY <1>17, <4>2, <5>2 DEF IdsListed
      <4>7. Len(ids'[c]) \in 0..Len(ids'[c])
        BY <4>2
      <4> QED
        BY <4>3, <4>4, <4>5, <4>6, <4>7
    <3> QED
      BY <3>3, <3>4
  <2> QED
    BY <1>2, <2>3 DEF MonthsCounted, MonthOf
<1> QED
  BY <1>11, <1>12, <1>13, <1>14, <1>15, <1>17, <1>18, <1>19 DEF MembersInv

-----------------------------------------------------------------------------
(* The index is completed.                                                 *)

\* The count filled in for a month is that of all who signed up by its end;
\* a month without one lies before everybody's.
LEMMA FilledCounts ==
    ASSUME MembersInv, step # "done", NEW c \in Countries, ids[c] # <<>>,
           NEW m \in Int, m <= MonthOf(AsOf)
    PROVE  LET fm == Filled(monthCount[c])
               n == IF m \in DOMAIN fm THEN fm[m] ELSE 0
           IN {ids[c][i] : i \in 1..n} = SignedUpBy(c, m)
<1> DEFINE D == DOMAIN monthCount[c]
           fm == Filled(monthCount[c])
           start == Min(D)
           S == {k \in D : k <= m}
<1>1. /\ ids[c] \in Seq(Nat)
      /\ D = {MonthOf(roll[k].signup) : k \in MembersOf(c)}
      /\ \A k \in D : {ids[c][i] : i \in 1..monthCount[c][k]} = SignedUpBy(c, k)
  BY DEF MembersInv, TypesKnown, MonthsCounted
<1>2. \A k \in MembersOf(c) : MonthOf(roll[k].signup) \in Nat /\ MonthOf(roll[k].signup) \in D
  <2>1. ASSUME NEW k \in MembersOf(c) PROVE MonthOf(roll[k].signup) \in Nat
    <3>1. roll[k] \in Entry
      BY DEF MembersInv, TypesKnown, MembersOf
    <3>2. roll[k].signup \in Nat
      BY <3>1 DEF Entry
    <3> QED
      BY <3>2, MonthMonotone
  <2> QED
    BY <1>1, <2>1
<1>3. D \in SUBSET Nat /\ D # {}
  <2>1. D \in SUBSET Nat
    BY <1>1, <1>2
  <2>2. ids[c][1] \in {ids[c][i] : i \in DOMAIN ids[c]}
    BY <1>1
  <2>3. MembersOf(c) # {}
    BY <2>2 DEF MembersInv, IdsListed
  <2> QED
    BY <1>2, <2>1, <2>3
<1>4. start \in D /\ \A k \in D : start <= k
  <2> HIDE DEF D
  <2> QED
    BY <1>3, MinIsLeast
<1>5. /\ DOMAIN fm = (start..MonthOf(AsOf)) \cup D
      /\ m \in DOMAIN fm => fm[m] = monthCount[c][Max(S)]
  BY DEF Filled
<1>6. CASE m \in DOMAIN fm
  <2>1. m \in Nat /\ S # {}
    <3> HIDE DEF D, start, fm
    <3>1. CASE m \in D
      BY <1>3, <3>1
    <3>2. CASE m \in start..MonthOf(AsOf)
      BY <1>3, <1>4, <3>2
    <3> QED
      BY <1>5, <1>6, <3>1, <3>2
  <2>2. Max(S) \in S /\ \A k \in S : k <= Max(S)
    <3>1. S \in SUBSET Nat /\ \A k \in S : k <= m
      BY <1>3
    <3> HIDE DEF S
    <3> QED
      BY <2>1, <3>1, MaxIsGreatest
  <2> DEFINE x == Max(S)
  <2>3. x \in D /\ x \in Nat /\ x <= m
    <3>1. x \in S
      BY <2>2
    <3> HIDE DEF x
    <3> QED
      BY <1>3, <3>1
  <2>4. \A j \in MembersOf(c) : MonthOf(roll[j].signup) <= m => MonthOf(roll[j].signup) <= x
    BY <1>2, <2>2
  <2> HIDE DEF x
  <2>5. {j \in MembersOf(c) : MonthOf(roll[j].signup) <= m} = {j \in MembersOf(c) : MonthOf(roll[j].signup) <= x}
    BY <1>2, <2>3, <2>4
  <2>6. SignedUpBy(c, m) = SignedUpBy(c, x)
    BY <2>5 DEF SignedUpBy
  <2>7. fm[m] = monthCount[c][x]
    BY <1>5, <1>6 DEF x
  <2>8. {ids[c][i] : i \in 1..fm[m]} = SignedUpBy(c, m)
    BY <1>1, <2>3, <2>6, <2>7
  <2> QED
    BY <1>6, <2>8
<1>7. CASE m \notin DOMAIN fm
  <2>1. ASSUME NEW j \in MembersOf(c), MonthOf(roll[j].signup) <= m PROVE FALSE
    <3>1. start <= MonthOf(roll[j].signup) /\ start \in Nat /\ MonthOf(roll[j].signup) \in Nat
      BY <1>2, <1>3, <1>4
    <3> HIDE DEF start, D, fm
    <3>2. AsOf \in Nat /\ MonthOf(AsOf) \in Nat
      BY Constants, MonthMonotone
    <3>3. m \in start..MonthOf(AsOf)
      BY <2>1, <3>1, <3>2
    <3> QED
      BY <1>5, <1>7, <3>3
  <2>2. SignedUpBy(c, m) = {}
    BY <2>1 DEF SignedUpBy
  <2>3. {ids[c][i] : i \in 1..0} = {}
    OBVIOUS
  <2> QED
    BY <1>7, <2>2, <2>3
<1> QED
  BY <1>6, <1>7

LEMMA CompleteIndexKeeps == MembersInv /\ CompleteIndex => MembersInv'
<1> SUFFICES ASSUME MembersInv, CompleteIndex PROVE MembersInv'
  OBVIOUS
<1>1. /\ step = "merge" /\ step' = "done" /\ ~Busy /\ ~Busy'
      /\ \A c \in Countries : ids[c] # <<>>
      /\ monthCount' = [c \in Countries |-> Filled(monthCount[c])]
      /\ UNCHANGED <<cursors, idx, cur, rows, ids, savedPay, ctr, roll>>
  BY DEF CompleteIndex, Busy
<1>2. TypesKnown' /\ CursorsSorted' /\ RollRises' /\ RestIsLater'
  BY <1>1 DEF MembersInv, TypesKnown, CursorsSorted, RollRises, RestIsLater
<1>3. SavedListed'
  BY <1>1 DEF MembersInv, SavedListed, Refers, DayOf
<1>4. IdsListed' /\ MonthsCounted'
  BY <1>1, IdsKept DEF MembersInv, MonthsCounted
<1>5. PickIsExact'
  <2>1. ASSUME NEW c \in Countries, NEW t \in 0..AsOf
        PROVE  Pickable(c, t)' = {roll'[k].id : k \in {k \in DOMAIN roll' :
                                    roll'[k].country = c /\ MonthOf(roll'[k].signup) < MonthOf(t)}}
    <3> DEFINE m == MonthOf(t) - 1
               fm == Filled(monthCount[c])
               n == IF m \in DOMAIN fm THEN fm[m] ELSE 0
    <3>1. t \in Nat /\ t <= AsOf /\ AsOf \in Nat
      BY Constants
    <3>2. m \in Int /\ m <= MonthOf(AsOf) /\ MonthOf(t) \in Nat
      BY <3>1, MonthMonotone
    <3>3. {ids[c][i] : i \in 1..n} = SignedUpBy(c, m)
      <4> HIDE DEF m
      <4> QED
        BY <1>1, <3>2, FilledCounts
    <3>4. \A k \in MembersOf(c) : MonthOf(roll[k].signup) <= m <=> MonthOf(roll[k].signup) < MonthOf(t)
      <4>1. ASSUME NEW k \in MembersOf(c) PROVE MonthOf(roll[k].signup) \in Nat
        <5>1. roll[k] \in Entry
          BY DEF MembersInv, TypesKnown, MembersOf
        <5>2. roll[k].signup \in Nat
          BY <5>1 DEF Entry
        <5> QED
          BY <5>2, MonthMonotone
      <4> QED
        BY <3>2, <4>1
    <3>5. SignedUpBy(c, m) = {roll[k].id : k \in {k \in DOMAIN roll :
                                 roll[k].country = c /\ MonthOf(roll[k].signup) < MonthOf(t)}}
      BY <3>4 DEF SignedUpBy, MembersOf
    <3>6. Pickable(c, t)' = {ids[c][i] : i \in 1..n}
      BY <1>1 DEF Pickable, MonthOf
    <3> QED
      BY <1>1, <3>3, <3>5, <3>6
  <2> QED
    BY <2>1 DEF PickIsExact, MonthOf
<1> QED
  BY <1>2, <1>3, <1>4, <1>5 DEF MembersInv

-----------------------------------------------------------------------------
(* The theorems.                                                           *)

\* The invariant holds of every emission of the customers.
THEOREM MembersHolds == Spec => []MembersInv
<1>1. MembersInv /\ [Next]_vars => MembersInv'
  <2> SUFFICES ASSUME MembersInv, [Next]_vars PROVE MembersInv'
    OBVIOUS
  <2>1. CASE UNCHANGED vars
    <3>1. UNCHANGED <<cursors, idx, step, cur, rows, ids, monthCount, savedPay, ctr, roll>> /\ Busy' = Busy
      BY <2>1 DEF vars, Busy
    <3>2. TypesKnown' /\ CursorsSorted' /\ RollRises' /\ RestIsLater'
      BY <3>1 DEF MembersInv, TypesKnown, CursorsSorted, RollRises, RestIsLater
    <3>3. SavedListed'
      BY <3>1 DEF MembersInv, SavedListed, Refers, DayOf
    <3>4. \A c, m : MembersOf(c)' = MembersOf(c) /\ SignedUpBy(c, m)' = SignedUpBy(c, m)
      BY <3>1 DEF MembersOf, SignedUpBy, MonthOf
    <3>5. IdsListed' /\ MonthsCounted'
      <4>1. IdsListed'
        BY <3>1, IdsKept DEF MembersInv
      <4>2. MonthsCounted'
        BY <3>1, <3>4 DEF MembersInv, MonthsCounted, MonthOf
      <4> QED
        BY <4>1, <4>2
    <3>6. PickIsExact'
      <4>1. \A c, t : Pickable(c, t)' = Pickable(c, t)
        BY <3>1 DEF Pickable, MonthOf
      <4> QED
        BY <3>1, <4>1 DEF MembersInv, PickIsExact, MonthOf
    <3> QED
      BY <3>2, <3>3, <3>5, <3>6 DEF MembersInv
  <2>2. CASE Next
    BY <2>2, SkipSlotKeeps, TakeSlotKeeps, CompanionsKeep, SaveKeeps, CompleteIndexKeeps DEF Next
  <2> QED
    BY <2>1, <2>2
<1> QED
  BY InitHolds, <1>1, PTL DEF Spec

\* Ids rise with the signups on record, for any countries, samples, gaps and
\* precisions.
THEOREM IdsRise == Spec => []IdsFollowSignups
<1>1. MembersInv => IdsFollowSignups
  BY DEF MembersInv, RollRises, SavedListed, IdsFollowSignups
<1> QED
  BY MembersHolds, <1>1, PTL

\* A payment is linked to a saved method exactly when it may be: the search
\* finds the customer's entry, because the entries rise with the ids.
LEMMA LinksFound ==
    ASSUME MembersInv, NEW k \in DOMAIN roll, NEW t \in Nat, NEW m \in Means
    PROVE  LET hit == SavedPaymentFor(roll[k].id, t, m)
               s == roll[k].saved
           IN /\ hit # None => s[1].at < t /\ hit = roll[k].firstID
              /\ (s # <<>> /\ s[1].what = m /\ DayOf(s[1].at) < DayOf(t)) => hit # None
<1> DEFINE id == roll[k].id
           s == roll[k].saved
           from == {j \in DOMAIN savedPay : savedPay[j].customerID >= id}
           hit == SavedPaymentFor(id, t, m)
<1>1. /\ roll[k] \in Entry /\ id \in Nat /\ roll[k].firstID \in Nat /\ s \in Seq(Method)
      /\ s # <<>> => s[1].at \in Int
  <2>1. roll[k] \in Entry
    BY DEF MembersInv, TypesKnown
  <2>2. s \in Seq(Method) /\ roll[k].firstID \in Nat /\ id \in Nat
    BY <2>1 DEF Entry
  <2>3. s # <<>> => s[1] \in Method
    BY <2>2
  <2> QED
    BY <2>1, <2>2, <2>3 DEF Method
<1>2. \A j \in DOMAIN savedPay : j \in Nat /\ savedPay[j].customerID \in Nat
  <2>1. savedPay \in Seq(Ref)
    BY DEF MembersInv, TypesKnown
  <2>2. \A j \in DOMAIN savedPay : j \in Nat /\ savedPay[j] \in Ref
    BY <2>1
  <2> QED
    BY <2>2 DEF Ref
<1>3. from \in SUBSET Nat
  BY <1>2
\* An entry of this customer is the one made for it.
<1>4. ASSUME NEW j \in DOMAIN savedPay, savedPay[j].customerID = id
      PROVE  Refers(savedPay[j], roll[k])
  <2>1. PICK l \in DOMAIN roll : Refers(savedPay[j], roll[l])
    BY DEF MembersInv, SavedListed
  <2>2. roll[l].id = id
    BY <1>4, <2>1 DEF Refers
  <2>3. k \in Nat /\ l \in Nat /\ roll[l].id \in Nat
    <3>1. roll \in Seq(Entry)
      BY DEF MembersInv, TypesKnown
    <3> QED
      BY <1>1, <2>2, <3>1
  <2>4. l = k
    BY <1>1, <2>2, <2>3 DEF MembersInv, RollRises
  <2> QED
    BY <2>1, <2>4
<1>5. hit = IF from = {} THEN None
            ELSE IF /\ savedPay[Min(from)].customerID = id /\ savedPay[Min(from)].method = m
                    /\ DayOf(t) > savedPay[Min(from)].addedDay
                 THEN savedPay[Min(from)].firstID ELSE None
  BY DEF SavedPaymentFor, Usable
<1>6. from # {} => Min(from) \in from /\ \A y \in from : Min(from) <= y
  <2> HIDE DEF from
  <2> QED
    BY <1>3, MinIsLeast
<1>7. ASSUME hit # None PROVE s[1].at < t /\ hit = roll[k].firstID
  <2> DEFINE j == Min(from)
  <2>1. /\ j \in DOMAIN savedPay /\ savedPay[j].customerID = id
        /\ hit = savedPay[j].firstID /\ DayOf(t) > savedPay[j].addedDay
    BY <1>5, <1>6, <1>7
  <2> HIDE DEF j
  <2>2. Refers(savedPay[j], roll[k])
    BY <1>4, <2>1
  <2>3. s # <<>> /\ savedPay[j].firstID = roll[k].firstID /\ savedPay[j].addedDay = DayOf(s[1].at)
    BY <2>2 DEF Refers
  <2>4. DayOf(t) > DayOf(s[1].at) /\ s[1].at \in Int
    BY <1>1, <2>1, <2>3
  <2>5. s[1].at < t
    <3>0. PICK at : at = s[1].at
      OBVIOUS
    <3> HIDE DEF s
    <3>1. DayLength \in Nat /\ DayLength > 0 /\ DayOf(t) \in Int /\ DayOf(at) \in Int
      BY <2>4, <3>0, Constants, Division DEF DayOf
    <3>2. t <= at => DayOf(t) <= DayOf(at)
      BY <2>4, <3>0, <3>1, DivMonotone DEF DayOf
    <3> QED
      BY <2>4, <3>0, <3>1, <3>2
  <2> QED
    BY <2>1, <2>3, <2>5
<1>8. ASSUME s # <<>>, s[1].what = m, DayOf(s[1].at) < DayOf(t) PROVE hit # None
  <2>1. PICK j \in DOMAIN savedPay : Refers(savedPay[j], roll[k])
    BY <1>8 DEF MembersInv, SavedListed
  <2>2. /\ savedPay[j].customerID = id /\ savedPay[j].firstID = roll[k].firstID
        /\ savedPay[j].addedDay = DayOf(s[1].at) /\ savedPay[j].method = m
    BY <1>8, <2>1 DEF Refers
  <2>3. j \in from
    BY <1>1, <2>2
  <2>4. Min(from) = j
    <3>1. Min(from) \in from /\ Min(from) <= j
      BY <1>6, <2>3
    <3> DEFINE x == Min(from)
    <3>2. x \in DOMAIN savedPay /\ savedPay[x].customerID >= id /\ x <= j /\ x \in Nat /\ j \in Nat
      BY <1>2, <1>3, <3>1
    <3> HIDE DEF x
    <3>3. ~ (x < j)
      <4>1. x < j => savedPay[x].customerID < savedPay[j].customerID
        BY <3>2 DEF MembersInv, SavedListed
      <4> QED
        BY <1>1, <1>2, <2>2, <3>2, <4>1
    <3>4. x = j
      BY <3>2, <3>3
    <3> QED
      BY <3>4 DEF x
  <2>5. hit = roll[k].firstID
    <3>1. DayOf(t) > savedPay[j].addedDay
      <4>1. DayOf(t) \in Int /\ DayOf(s[1].at) \in Int
        BY <1>1, <1>8, Constants, Division DEF DayOf
      <4> QED
        BY <1>8, <2>2, <4>1
    <3>2. from # {}
      BY <2>3
    <3> HIDE DEF from, hit
    <3> QED
      BY <1>5, <2>2, <2>4, <3>1, <3>2
  <2> HIDE DEF hit
  <2> QED
    BY <1>1, <2>5 DEF None
<1> QED
  BY <1>7, <1>8

\* A saved method is on a payment of a later day than it was added, and on
\* every payment made that way then, for any methods saved.
THEOREM SavedRight == Spec => []SavedBeforeUse
<1>1. MembersInv => SavedBeforeUse
  <2>1. AsOf \in Nat /\ 0..AsOf \subseteq Nat /\ Means = {"card_emv", "card_contactless"}
    BY Constants DEF Means
  <2> QED
    BY <2>1, LinksFound DEF SavedBeforeUse
<1> QED
  BY MembersHolds, <1>1, PTL

\* At every instant the index offers exactly the members of earlier months.
THEOREM PickExact == Spec => []PickIsExact
<1>1. MembersInv => PickIsExact
  BY DEF MembersInv
<1> QED
  BY MembersHolds, <1>1, PTL

-----------------------------------------------------------------------------
(* The dates of the companion rows.                                        *)

\* A draw stays in its window.
LEMMA DrawnWithin ==
    ASSUME NEW from \in Int, NEW to \in Int, from <= to, NEW t \in Drawn(from, to)
    PROVE  t \in Int /\ from <= t /\ t <= to
<1>1. PICK f \in Draws : t = from + ((to - from) * f) \div 100
  BY DEF Drawn
<1> DEFINE n == to - from
           q == (n * f) \div 100
<1>2. f \in 0..99 /\ n \in Nat
  BY MembersAssumption DEF MembersAssumption
<1>3. n * f \in Nat /\ n * f <= n * 99 /\ n * 99 \in Nat
  BY <1>2
<1>4. q \in Nat /\ (n * f) % 100 \in 0..99 /\ (n * f) % 100 = n * f - 100 * q
  <2> DEFINE m == n * f
  <2>1. m \in Nat
    BY <1>3
  <2> HIDE DEF m
  <2>2. m \div 100 \in Nat /\ m % 100 \in 0..99 /\ m % 100 = m - 100 * (m \div 100)
    BY <2>1, Division
  <2> QED
    BY <2>2 DEF m
<1>5. 100 * q <= n * 99
  BY <1>2, <1>3, <1>4
<1>6. q <= n
  <2> HIDE DEF n, q
  <2> QED
    BY <1>2, <1>4, <1>5
<1>7. t = from + q /\ to = from + n
  BY <1>1
<1> QED
  <2> HIDE DEF n, q
  <2> QED
    BY <1>2, <1>4, <1>6, <1>7

LEMMA SignupsBeforeCutoff ==
    ASSUME NEW c \in Countries, NEW t \in sampleSignupDate(EarliestSignup[c])
    PROVE  t \in Nat /\ t <= SignupCutoff
<1> DEFINE earliest == EarliestSignup[c]
<1>1. earliest \in Nat /\ earliest < SignupCutoff /\ SignupCutoff \in Nat
  BY MembersAssumption DEF MembersAssumption
<1>2. t \in Nat
  BY SignupsAreInstants
<1>3. PICK e \in DOMAIN Eras :
         t \in (LET start == Max({Eras[e][1] * YearLength, earliest})
                    end == Min({(Eras[e][2] + 1) * YearLength - 1, SignupCutoff})
                IN IF end <= start THEN {earliest} ELSE Drawn(start, end))
  BY DEF sampleSignupDate
<1> DEFINE a == Eras[e][1] * YearLength
           b == (Eras[e][2] + 1) * YearLength - 1
           start == Max({a, earliest})
           end == Min({b, SignupCutoff})
<1>4. a \in Int /\ b \in Int
  <2>1. Eras \in Seq(Nat \X Nat)
    BY MembersAssumption DEF MembersAssumption
  <2>2. Eras[e] \in Nat \X Nat
    BY <2>1
  <2>3. Eras[e][1] \in Int /\ Eras[e][2] \in Int /\ YearLength \in Int
    BY <2>2, Constants
  <2>4. \A x, y \in Int : x * y \in Int /\ (x + 1) * y - 1 \in Int
    OBVIOUS
  <2> QED
    BY <2>3, <2>4
<1> HIDE DEF a, b
<1>5. start \in Int /\ end \in Int /\ end <= SignupCutoff
  <2>1. earliest \in Int /\ SignupCutoff \in Int
    BY <1>1
  <2>2. start = IF a <= earliest THEN earliest ELSE a
    BY <1>4, <2>1, OfPair
  <2>3. end = IF b <= SignupCutoff THEN b ELSE SignupCutoff
    BY <1>4, <2>1, OfPair
  <2> HIDE DEF start, end
  <2> QED
    BY <1>4, <2>1, <2>2, <2>3
<1>6. t \in IF end <= start THEN {earliest} ELSE Drawn(start, end)
  BY <1>3 DEF a, b
<1> HIDE DEF start, end
<1>7. CASE end <= start
  BY <1>1, <1>2, <1>6, <1>7
<1>8. CASE start <= end /\ ~(end <= start)
  BY <1>1, <1>2, <1>5, <1>6, <1>8, DrawnWithin
<1> QED
  BY <1>5, <1>7, <1>8

\* The last instant a companion row may bear.
Horizon == Max({AsOf, GDPRPulse, CCPAPulse})

LEMMA HorizonIsLast ==
    /\ {AsOf, SignupCutoff, GDPRPulse, CCPAPulse, Horizon} \subseteq Nat
    /\ SignupCutoff <= AsOf /\ AsOf <= Horizon
    /\ GDPRPulse <= Horizon /\ CCPAPulse <= Horizon
<1> DEFINE S == {AsOf, GDPRPulse, CCPAPulse}
<1>1. S \subseteq Nat /\ S # {} /\ SignupCutoff \in Nat /\ SignupCutoff <= AsOf
  BY MembersAssumption, SchemeAssumption DEF MembersAssumption, SchemeAssumption
<1>2. AsOf + GDPRPulse + CCPAPulse \in Nat /\ \A x \in S : x <= AsOf + GDPRPulse + CCPAPulse
  BY <1>1
<1>3. Max(S) \in S /\ \A y \in S : y <= Max(S)
  <2> HIDE DEF S
  <2> QED
    BY <1>1, <1>2, MaxIsGreatest
<1> QED
  BY <1>1, <1>3 DEF Horizon

CompanionInv ==
    /\ CompanionDates
    /\ \A c \in Countries : \A i \in DOMAIN cursors[c] : cursors[c][i] <= SignupCutoff
    /\ Busy => cur.signup <= SignupCutoff

LEMMA CompanionInit == Init => CompanionInv
<1> SUFFICES ASSUME Init PROVE CompanionInv
  OBVIOUS
<1>1. PICK p \in [Countries -> UNION {SignupLists(c) : c \in Countries}] :
         cursors = p /\ \A c \in Countries : p[c] \in SignupLists(c)
  BY DEF Init
<1>2. ASSUME NEW c \in Countries, NEW i \in DOMAIN cursors[c] PROVE cursors[c][i] <= SignupCutoff
  <2>1. cursors[c] \in [1..Allocated[c] -> sampleSignupDate(EarliestSignup[c])]
    BY <1>1 DEF SignupLists
  <2> QED
    BY <2>1, SignupsBeforeCutoff
<1>3. CompanionDates
  BY DEF Init, CompanionDates
<1> QED
  BY <1>2, <1>3 DEF Init, CompanionInv, Busy

\* A year earlier is earlier, and no earlier instant is in a later year.
LEMMA YearsFollow ==
    ASSUME NEW s \in Nat, NEW t \in Nat
    PROVE  /\ YearOf(s) \in Nat
           /\ s <= t => YearOf(s) <= YearOf(t)
           /\ YearOf(s) < YearOf(t) => s < t
<1>1. YearLength \in Nat /\ YearLength > 0
  BY Constants
<1>2. s \div YearLength \in Nat /\ t \div YearLength \in Nat
  BY <1>1, Division
<1>3. s <= t => s \div YearLength <= t \div YearLength
  BY <1>1, DivMonotone
<1>4. t <= s => t \div YearLength <= s \div YearLength
  BY <1>1, DivMonotone
<1> QED
  BY <1>2, <1>3, <1>4 DEF YearOf

\* The first day of a year is not after any instant of that year or a later one.
LEMMA NotBeforeYear ==
    ASSUME NEW d \in Nat, NEW s \in Nat, d % YearLength = 0, YearOf(d) <= YearOf(s)
    PROVE  s >= d
<1> DEFINE L == YearLength
<1>1. L \in Nat /\ L > 0 /\ d % L = 0 /\ d \div L <= s \div L
  BY Constants DEF YearOf
<1> HIDE DEF L
<1>2. s \div L \in Nat /\ s % L \in 0..(L - 1) /\ s % L = s - L * (s \div L)
  BY <1>1, Division
<1>3. d \div L \in Nat /\ d % L = d - L * (d \div L)
  BY <1>1, Division
<1>4. L * (d \div L) <= L * (s \div L)
  BY <1>1, <1>2, <1>3
<1>5. L * (d \div L) \in Int /\ L * (s \div L) \in Int
  BY <1>1, <1>2, <1>3
<1>6. s % L >= 0 /\ s % L \in Int
  BY <1>1, <1>2
<1> QED
  BY <1>1, <1>2, <1>3, <1>4, <1>5, <1>6

LEMMA OptInsFinite ==
    ASSUME NEW optIn \in OptIns
    PROVE  Cardinality(optIn) \in Nat
<1> DEFINE a == EmailMarketing
           b == <<"email", "service">>
           c == <<"email", "trade_in_alerts">>
           d == <<"post", "marketing">>
           e == <<"sms", "marketing">>
<1>1. \A s : IsFiniteSet({s})
  BY FS_Singleton
<1>2. IsFiniteSet({}) /\ IsFiniteSet({a})
  BY <1>1, FS_EmptySet
<1>3. IsFiniteSet(CommPrefs)
  <2> HIDE DEF a, b, c, d, e
  <2>1. IsFiniteSet({a} \cup {b})
    BY <1>1, FS_Union
  <2>2. IsFiniteSet({c} \cup {d})
    BY <1>1, FS_Union
  <2>3. IsFiniteSet(({a} \cup {b}) \cup ({c} \cup {d}))
    BY <2>1, <2>2, FS_Union
  <2>4. IsFiniteSet((({a} \cup {b}) \cup ({c} \cup {d})) \cup {e})
    BY <1>1, <2>3, FS_Union
  <2>5. ({a} \cup {b}) \cup ({c} \cup {d}) = {a, b, c, d}
    OBVIOUS
  <2>6. CommPrefs = {a, b, c, d} \cup IF SignupYear >= SmsYear THEN {e} ELSE {}
    BY DEF CommPrefs, a, b, c, d, e
  <2>7. {a, b, c, d} \cup {} = {a, b, c, d}
    OBVIOUS
  <2> QED
    BY <2>3, <2>4, <2>5, <2>6, <2>7
<1> QED
  BY <1>2, <1>3, FS_CardinalityType DEF OptIns

LEMMA EngageDates ==
    ASSUME MembersInv, CompanionInv, Engage
    PROVE  CompanionDates'
<1>1. cur \in Customer /\ cur.signup \in Nat /\ cur.country \in Countries
      /\ cur' = cur /\ step' = "enrol" /\ cur.signup <= SignupCutoff /\ cur.signup <= Horizon
  <2>1. Busy /\ cur \in Customer
    BY DEF Engage, MembersInv, TypesKnown, Busy
  <2> QED
    BY <2>1, HorizonIsLast DEF CompanionInv, Customer, Engage
<1>2. PICK emails \in Emails, optIn \in OptIns,
           answer \in {<<>>} \cup UNION {Answers(p) : p \in Campaigns} :
         rows' = <<Row("signup", cur.signup)>>
             \o IF emails = 0 THEN <<>>
                ELSE [i \in 1..Cardinality(optIn) |-> Row("granted", cur.signup)] \o answer
  BY DEF Engage
<1> DEFINE n == Cardinality(optIn)
           g == [i \in 1..n |-> Row("granted", cur.signup)]
<1>3. n \in Nat
  BY OptInsFinite
<1>4. \/ answer = <<>>
      \/ \E p \in Nat, a \in {"granted", "revoked"} :
            answer = <<Row(a, p)>> /\ cur.signup <= p /\ p <= Horizon
  <2> SUFFICES ASSUME answer # <<>>
               PROVE  \E p \in Nat, a \in {"granted", "revoked"} :
                         answer = <<Row(a, p)>> /\ cur.signup <= p /\ p <= Horizon
    OBVIOUS
  <2>1. PICK p \in Campaigns : answer \in Answers(p)
    OBVIOUS
  <2>2. PICK a \in {"granted", "revoked"} : answer = <<Row(a, p)>>
    BY <2>1 DEF Answers
  <2>3. p \in Nat /\ p <= Horizon /\ YearOf(cur.signup) < YearOf(p)
    BY HorizonIsLast DEF Campaigns, SignupYear
  <2>4. cur.signup <= p
    BY <1>1, <2>3, YearsFollow
  <2> QED
    BY <2>2, <2>3, <2>4
<1>5. ASSUME NEW m \in Nat, \A i \in 1..m : rows'[i].at = cur.signup,
             NEW at \in Nat, cur.signup <= at, at <= Horizon,
             DOMAIN rows' = 1..(m + 1), rows'[m + 1].at = at
      PROVE  CompanionDates'
  <2>1. \A k \in DOMAIN rows' : rows'[k].at = IF k <= m THEN cur.signup ELSE at
    BY <1>5
  <2>2. \A k \in DOMAIN rows' : rows'[k].at >= cur'.signup /\ rows'[k].at <= Horizon
    BY <1>1, <1>5, <2>1, HorizonIsLast
  <2>3. \A j, k \in DOMAIN rows' : j < k => rows'[j].at <= rows'[k].at
    BY <1>1, <1>5, <2>1
  <2> QED
    BY <1>1, <2>2, <2>3 DEF CompanionDates, Horizon
<1>6. CASE emails = 0
  <2>1. rows' = <<Row("signup", cur.signup)>>
    BY <1>2, <1>6
  <2>2. DOMAIN rows' = {1} /\ rows'[1].at = cur.signup
    BY <2>1 DEF Row
  <2> QED
    BY <1>1, <2>2, HorizonIsLast DEF CompanionDates, Horizon
<1> HIDE DEF n, g
<1>7. g = [i \in 1..n |-> Row("granted", cur.signup)]
  BY DEF g
<1>8. CASE emails # 0 /\ answer = <<>>
  <2>1. rows' = <<Row("signup", cur.signup)>> \o g
    <3>1. g \o <<>> = g
      BY <1>3, <1>7
    <3> QED
      BY <1>2, <1>8, <3>1 DEF g, n
  <2>2. DOMAIN rows' = 1..(n + 1)
    BY <1>3, <1>7, <2>1
  <2>3. \A i \in 1..(n + 1) : rows'[i].at = cur.signup
    BY <1>3, <1>7, <2>1 DEF Row
  <2>4. \A i \in 1..n : rows'[i].at = cur.signup
    BY <1>3, <2>3
  <2>5. rows'[n + 1].at = cur.signup
    BY <1>3, <2>3
  <2> QED
    BY <1>1, <1>3, <1>5, <2>2, <2>4, <2>5
<1>9. CASE emails # 0 /\ answer # <<>>
  <2>1. PICK p \in Nat, a \in {"granted", "revoked"} :
            answer = <<Row(a, p)>> /\ cur.signup <= p /\ p <= Horizon
    BY <1>4, <1>9
  <2>2. rows' = <<Row("signup", cur.signup)>> \o (g \o <<Row(a, p)>>)
    BY <1>2, <1>9, <2>1 DEF g, n
  <2>3. DOMAIN rows' = 1..(n + 2)
    BY <1>3, <1>7, <2>2
  <2>4. \A i \in 1..(n + 1) : rows'[i].at = cur.signup
    BY <1>3, <1>7, <2>2 DEF Row
  <2>5. rows'[n + 2].at = p
    BY <1>3, <1>7, <2>2 DEF Row
  <2>6. n + 1 \in Nat /\ (n + 1) + 1 = n + 2
    BY <1>3
  <2> QED
    BY <1>5, <2>1, <2>3, <2>4, <2>5, <2>6
<1> QED
  BY <1>6, <1>8, <1>9

\* A row of enrolment, by scheme.
LEMMA EnrolDates ==
    ASSUME MembersInv, CompanionInv, Enrol
    PROVE  CompanionDates'
<1>1. cur.signup \in Nat /\ cur' = cur /\ step' = "save" /\ cur.signup <= SignupCutoff
      /\ cur.signup <= AsOf /\ cur.signup <= Horizon
  <2>1. Busy /\ cur \in Customer
    BY DEF Enrol, MembersInv, TypesKnown, Busy
  <2> QED
    BY <2>1, HorizonIsLast DEF CompanionInv, Customer, Enrol
<1>2. PICK stamp \in Option({r \in {Row("stamp_1986", cur.signup)} :
                                StampYears[1] <= SignupYear /\ SignupYear <= StampYears[2]}),
           card \in Option({r \in Enrolment("card_1998", CardFrom) :
                                StampYears[1] <= SignupYear /\ SignupYear <= CardYears[2]}),
           unified \in Option({r \in Enrolment("unified_2011", UnifiedFrom) : r.at <= AsOf}) :
         rows' = stamp \o card \o unified
  BY DEF Enrol
<1> DEFINE Fine(r) ==
         /\ r.at \in Int /\ r.at >= cur.signup /\ r.at <= Horizon
         /\ CASE r.what = "stamp_1986" -> YearOf(r.at) \in StampYears[1]..StampYears[2]
              [] r.what = "card_1998" -> r.at >= CardFrom /\ YearOf(r.at) <= CardYears[2]
              [] OTHER -> YearOf(r.at) >= YearOf(UnifiedFrom) /\ r.at <= AsOf
<1>3. /\ {CardFrom, UnifiedFrom, EnrolWindow} \subseteq Nat
      /\ StampYears[1] \in Nat /\ StampYears[2] \in Nat /\ CardYears[2] \in Nat
      /\ CardFrom % YearLength = 0 /\ CardFrom + EnrolWindow <= AsOf
      /\ YearOf(CardFrom + EnrolWindow) <= CardYears[2] /\ YearOf(cur.signup) \in Nat
  BY <1>1, YearsFollow, MembersAssumption, SchemeAssumption DEF MembersAssumption, SchemeAssumption, YearOf
<1>4. stamp = <<>> \/ \E r : stamp = <<r>> /\ Fine(r)
  <2> SUFFICES ASSUME stamp # <<>> PROVE \E r : stamp = <<r>> /\ Fine(r)
    OBVIOUS
  <2>1. /\ stamp = <<Row("stamp_1986", cur.signup)>>
        /\ StampYears[1] <= SignupYear /\ SignupYear <= StampYears[2]
    BY DEF Option
  <2>2. Fine(Row("stamp_1986", cur.signup))
    BY <1>1, <1>3, <2>1 DEF Row, SignupYear
  <2> QED
    BY <2>1, <2>2
<1>5. card = <<>> \/ \E r : card = <<r>> /\ Fine(r)
  <2> SUFFICES ASSUME card # <<>> PROVE \E r : card = <<r>> /\ Fine(r)
    OBVIOUS
  <2>1. PICK r \in Enrolment("card_1998", CardFrom) : card = <<r>> /\ SignupYear <= CardYears[2]
    BY DEF Option
  <2>2. CASE YearOf(cur.signup) < YearOf(CardFrom)
    <3>1. PICK t \in Drawn(CardFrom, CardFrom + EnrolWindow) : r = Row("card_1998", t)
      BY <2>1, <2>2 DEF Enrolment
    <3>2. t \in Int /\ CardFrom <= t /\ t <= CardFrom + EnrolWindow
      BY <1>3, DrawnWithin
    <3>3. cur.signup < CardFrom
      BY <1>1, <1>3, <2>2, YearsFollow
    <3>4. YearOf(t) \in Nat /\ YearOf(t) <= YearOf(CardFrom + EnrolWindow) /\ YearOf(CardFrom + EnrolWindow) \in Nat
      BY <1>3, <3>2, YearsFollow
    <3>5. Fine(r)
      <4>1. r.at = t /\ r.what = "card_1998"
        BY <3>1 DEF Row
      <4>2. t >= cur.signup /\ t <= Horizon
        BY <1>1, <1>3, <3>2, <3>3, HorizonIsLast
      <4>3. YearOf(t) <= CardYears[2]
        BY <1>3, <3>4
      <4> QED
        BY <3>2, <4>1, <4>2, <4>3
    <3> QED
      BY <2>1, <3>5
  <2>3. CASE ~(YearOf(cur.signup) < YearOf(CardFrom))
    <3>1. r = Row("card_1998", cur.signup)
      BY <2>1, <2>3 DEF Enrolment
    <3>2. cur.signup >= CardFrom
      <4>1. YearOf(CardFrom) <= YearOf(cur.signup)
        BY <1>1, <1>3, <2>3, YearsFollow
      <4> QED
        BY <1>1, <1>3, <4>1, NotBeforeYear
    <3>3. Fine(r)
      BY <1>1, <1>3, <2>1, <3>1, <3>2 DEF Row, SignupYear
    <3> QED
      BY <2>1, <3>3
  <2> QED
    BY <2>2, <2>3
<1>6. unified = <<>> \/ \E r : unified = <<r>> /\ Fine(r)
  <2> SUFFICES ASSUME unified # <<>> PROVE \E r : unified = <<r>> /\ Fine(r)
    OBVIOUS
  <2>1. PICK r \in Enrolment("unified_2011", UnifiedFrom) : unified = <<r>> /\ r.at <= AsOf
    BY DEF Option
  <2>2. CASE YearOf(cur.signup) < YearOf(UnifiedFrom)
    <3>1. PICK t \in Drawn(UnifiedFrom, UnifiedFrom + EnrolWindow) : r = Row("unified_2011", t)
      BY <2>1, <2>2 DEF Enrolment
    <3>2. t \in Int /\ UnifiedFrom <= t
      BY <1>3, DrawnWithin
    <3>3. cur.signup < UnifiedFrom
      BY <1>1, <1>3, <2>2, YearsFollow
    <3>4. YearOf(t) \in Nat /\ YearOf(UnifiedFrom) <= YearOf(t) /\ YearOf(UnifiedFrom) \in Nat
      BY <1>3, <3>2, YearsFollow
    <3>5. Fine(r)
      BY <1>1, <1>3, <2>1, <3>1, <3>2, <3>3, <3>4, HorizonIsLast DEF Row
    <3> QED
      BY <2>1, <3>5
  <2>3. CASE ~(YearOf(cur.signup) < YearOf(UnifiedFrom))
    <3>1. r = Row("unified_2011", cur.signup)
      BY <2>1, <2>3 DEF Enrolment
    <3>2. YearOf(UnifiedFrom) \in Nat
      BY <1>3, YearsFollow
    <3>3. Fine(r)
      BY <1>1, <1>3, <2>1, <2>3, <3>1, <3>2 DEF Row
    <3> QED
      BY <2>1, <3>3
  <2> QED
    BY <2>2, <2>3
<1>7. \A k \in DOMAIN rows' : Fine(rows'[k])
  <2> HIDE DEF Fine
  <2>1. \A q : q = <<>> \/ (\E r : q = <<r>> /\ Fine(r)) => q \in Seq({r \in {q[1]} : Fine(r)})
    <3> TAKE q
    <3>1. CASE q = <<>>
      BY <3>1
    <3>2. ASSUME NEW r, q = <<r>>, Fine(r) PROVE q \in Seq({x \in {q[1]} : Fine(x)})
      <4>1. r \in {x \in {q[1]} : Fine(x)}
        BY <3>2
      <4> QED
        BY <3>2, <4>1
    <3> QED
      BY <3>1, <3>2
  <2>2. stamp \in Seq({r \in {stamp[1]} : Fine(r)})
    BY <1>4, <2>1
  <2>3. card \in Seq({r \in {card[1]} : Fine(r)})
    BY <1>5, <2>1
  <2>4. unified \in Seq({r \in {unified[1]} : Fine(r)})
    BY <1>6, <2>1
  <2> DEFINE G == {r \in {stamp[1], card[1], unified[1]} : Fine(r)}
  <2>5. stamp \in Seq(G) /\ card \in Seq(G) /\ unified \in Seq(G)
    BY <2>2, <2>3, <2>4
  <2>6. rows' \in Seq(G)
    <3> HIDE DEF G
    <3> QED
      BY <1>2, <2>5
  <2> QED
    BY <2>6
<1> QED
  BY <1>1, <1>7 DEF CompanionDates, Horizon

LEMMA SaveDates ==
    ASSUME MembersInv, CompanionInv, Save
    PROVE  CompanionDates'
<1>1. cur.signup \in Nat /\ cur' = cur /\ step' = "merge" /\ cur.signup <= AsOf
  <2>1. Busy /\ cur \in Customer
    BY DEF Save, MembersInv, TypesKnown, Busy
  <2> QED
    BY <2>1, HorizonIsLast DEF CompanionInv, Customer, Save
<1> DEFINE first == cur.signup + MonthLength
           from == IF first > AsOf THEN cur.signup ELSE first
           S == {Row(m, t) : m \in SaveableMethods, t \in Drawn(from, AsOf)}
<1>2. from \in Nat /\ cur.signup <= from /\ from <= AsOf
  BY <1>1, Constants
<1>3. rows' = <<>> \/ rows' \in Seq(S)
  <2>1. rows' \in SavedMethods
    BY DEF Save
  <2>2. BoundedSeq(S, MaxSaved) \subseteq Seq(S)
    <3> HIDE DEF S
    <3>1. \A m \in 0..MaxSaved : [1..m -> S] \subseteq Seq(S)
      OBVIOUS
    <3> QED
      BY <3>1 DEF BoundedSeq, SeqOf
  <2>3. SavedMethods = IF SignupYear < OnlineYear THEN {<<>>} ELSE BoundedSeq(S, MaxSaved)
    BY DEF SavedMethods
  <2> HIDE DEF S
  <2> QED
    BY <2>1, <2>2, <2>3
<1>4. \A r \in S : r.at \in Int /\ r.at >= cur.signup /\ r.at <= Horizon
  <2> SUFFICES ASSUME NEW m \in SaveableMethods, NEW t \in Drawn(from, AsOf)
               PROVE  Row(m, t).at \in Int /\ Row(m, t).at >= cur.signup /\ Row(m, t).at <= Horizon
    OBVIOUS
  <2> HIDE DEF from
  <2> QED
    BY <1>1, <1>2, DrawnWithin, HorizonIsLast DEF Row
<1>5. \A k \in DOMAIN rows' : rows'[k].at >= cur'.signup /\ rows'[k].at <= Horizon
  <2> HIDE DEF S
  <2> QED
    BY <1>1, <1>3, <1>4
<1> QED
  BY <1>1, <1>5 DEF CompanionDates, Horizon

LEMMA CompanionStep == MembersInv /\ CompanionInv /\ [Next]_vars => CompanionInv'
<1> SUFFICES ASSUME MembersInv, CompanionInv, [Next]_vars PROVE CompanionInv'
  OBVIOUS
<1>1. CASE SkipSlot
  <2>1. Peek \in Live /\ cursors[Peek] \in Seq(Nat) /\ cursors[Peek] # <<>>
    BY <1>1, PeekIsFirst DEF SkipSlot, MembersInv, TypesKnown, Live
  <2>2. \A c \in Countries : \A i \in DOMAIN cursors'[c] : cursors'[c][i] <= SignupCutoff
    BY <1>1, <2>1 DEF SkipSlot, CompanionInv, MembersInv, TypesKnown
  <2> QED
    BY <1>1, <2>2 DEF SkipSlot, CompanionInv, CompanionDates, Busy
<1>2. CASE TakeSlot
  <2>1. Peek \in Live /\ Peek \in Countries /\ cursors[Peek] \in Seq(Nat) /\ cursors[Peek] # <<>>
    BY <1>2, PeekIsFirst DEF TakeSlot, MembersInv, TypesKnown, Live
  <2>2. \A c \in Countries : \A i \in DOMAIN cursors'[c] : cursors'[c][i] <= SignupCutoff
    <3>1. cursors' = [cursors EXCEPT ![Peek] = Tail(@)]
      BY <1>2 DEF TakeSlot
    <3> QED
      BY <2>1, <3>1 DEF CompanionInv, MembersInv, TypesKnown
  <2>3. Head(cursors[Peek]) \in Nat /\ Head(cursors[Peek]) <= SignupCutoff
    BY <2>1 DEF CompanionInv
  <2>4. coarsenToPrecision(Head(cursors[Peek])) <= Head(cursors[Peek])
    <3> DEFINE t == Head(cursors[Peek])
    <3>1. YearOf(t) \in Nat
      BY <2>3, YearsFollow
    <3>2. Unit(YearOf(t)) \in Nat /\ Unit(YearOf(t)) > 0
      BY <3>1, UnitDivides
    <3>3. t - (t % Unit(YearOf(t))) <= t
      BY <2>3, <3>2, RoundedIsLess
    <3> QED
      BY <3>3, CoarseIsRounded
  <2>5. cur'.signup <= SignupCutoff
    <3>1. coarsenToPrecision(Head(cursors[Peek])) \in Nat
      BY <2>3, CoarseMonotone
    <3>2. cur'.signup = coarsenToPrecision(Head(cursors[Peek]))
      BY <1>2 DEF TakeSlot
    <3> QED
      BY <2>3, <2>4, <3>1, <3>2, Constants
  <2>6. CompanionDates'
    BY <1>2 DEF TakeSlot, CompanionDates
  <2> QED
    BY <2>2, <2>5, <2>6 DEF CompanionInv
<1>3. CASE Engage
  BY <1>3, EngageDates DEF Engage, CompanionInv, Busy
<1>4. CASE Enrol
  BY <1>4, EnrolDates DEF Enrol, CompanionInv, Busy
<1>5. CASE Save
  BY <1>5, SaveDates DEF Save, CompanionInv, Busy
<1>6. CASE CompleteIndex
  BY <1>6 DEF CompleteIndex, CompanionInv, CompanionDates, Busy
<1>7. CASE UNCHANGED vars
  BY <1>7 DEF vars, CompanionInv, CompanionDates, Busy
<1> QED
  BY <1>1, <1>2, <1>3, <1>4, <1>5, <1>6, <1>7 DEF Next

\* No companion row predates the signup on record, every consent trail is in order
\* of time, and nobody is in a loyalty scheme before it opens, whatever is drawn and
\* however coarsely the signup was recorded (generateLoyaltyMemberships).
THEOREM CompanionsFollow == Spec => []CompanionDates
<1>1. CompanionInv => CompanionDates
  BY DEF CompanionInv
<1>2. Init => MembersInv /\ CompanionInv
  BY InitHolds, CompanionInit
<1> QED
  BY <1>1, <1>2, MembersHolds, CompanionStep, PTL DEF Spec
==============================================================================
