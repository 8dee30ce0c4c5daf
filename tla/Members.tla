------------------------------- MODULE Members -------------------------------
(***************************************************************************)
(* The customer estate (customers.Generate) and the index the sales        *)
(* generator reads from it.  Sign-up instants are sampled and sorted       *)
(* country by country, merged in order of time, numbered, and streamed     *)
(* out one customer at a time; only the index stays.  Instants are ticks:  *)
(* DayLength of them make a day, MonthLength a month, YearLength a year.   *)
(***************************************************************************)
EXTENDS Integers, Sequences, FiniteSets, SequencesExt, FiniteSetsExt, Functions

CONSTANTS
    Countries,              \* the rank of a country is its code's, as a string
    Allocated,              \* country -> customers (allocatePerCountry)
    Regime,                 \* country -> governing regime
    EarliestSignup,         \* country -> its first possible signup
    Eras,                   \* SignupEras: <<first year, last year>>
    DayLength, MonthLength, YearLength,
    YearPrecise, MonthPrecise, DayPrecise, \* last years recorded at that precision
    SignupCutoff,           \* the liquidation
    AsOf,                   \* the instant the data is generated for
    EmailYear, WorkEmailYear, SmsYear, OnlineYear, ContactlessYear,
    StampYears, CardYears, CardFrom, UnifiedFrom, EnrolWindow,
    GDPRPulse, CCPAPulse,   \* the instants of the re-consent campaigns
    MaxSaved,               \* bound: methods a customer may save (3)
    Draws                   \* fractions a uniform draw may return, in percent

MembersAssumption ==
    /\ Countries \subseteq Nat /\ Countries # {}
    /\ Allocated \in [Countries -> Nat]
    /\ EarliestSignup \in [Countries -> Nat]
    /\ Eras \in Seq(Nat \X Nat)
    /\ {DayLength, MonthLength, YearLength} \subseteq Nat \ {0}
    /\ MonthLength % DayLength = 0 /\ YearLength % MonthLength = 0
    /\ {YearPrecise, MonthPrecise, DayPrecise, SignupCutoff, AsOf} \subseteq Nat
    /\ YearPrecise <= MonthPrecise /\ MonthPrecise <= DayPrecise
    /\ \A c \in Countries : EarliestSignup[c] < SignupCutoff
    /\ SignupCutoff <= AsOf
    /\ Draws \subseteq 0..99 /\ MaxSaved \in Nat

\* The card scheme opens on the first day of 1998; those who signed up before
\* enrol within half a year, and the scheme runs until 2010.
SchemeAssumption ==
    /\ {CardFrom, UnifiedFrom, EnrolWindow, GDPRPulse, CCPAPulse} \subseteq Nat
    /\ StampYears \in Nat \X Nat /\ CardYears \in Nat \X Nat
    /\ CardFrom % YearLength = 0
    /\ (CardFrom + EnrolWindow) \div YearLength <= CardYears[2]
    /\ CardFrom + EnrolWindow <= AsOf

ASSUME MembersAssumption
ASSUME SchemeAssumption

VARIABLES
    cursors,     \* country -> sorted sign-ups not yet merged
    idx,         \* the slot of the merge
    step, cur,   \* the step of the loop, and the customer it is about
    rows,        \* the companion rows the last step gave this customer
    ids,         \* Index: country -> customer ids in emission order
    monthCount,  \* Index: country -> month -> customers up to its end
    savedPay,    \* Index: first saved methods, in emission order
    ctr,         \* the id counter of saved methods
    roll         \* history: every customer emitted, with the signup on record

vars == <<cursors, idx, step, cur, rows, ids, monthCount, savedPay, ctr, roll>>

YearOf(t) == t \div YearLength
MonthOf(t) == t \div MonthLength
DayOf(t) == t \div DayLength
None == -1

-----------------------------------------------------------------------------
(* Sampling: an era, clamped to what the country and the company allow.    *)

Drawn(from, to) == {from + ((to - from) * f) \div 100 : f \in Draws}

sampleSignupDate(earliest) ==
    UNION {LET start == Max({Eras[e][1] * YearLength, earliest})
               end == Min({(Eras[e][2] + 1) * YearLength - 1, SignupCutoff})
           IN IF end <= start THEN {earliest} ELSE Drawn(start, end) : e \in DOMAIN Eras}

\* The sign-ups of a country: as many as allocated, sorted (sort.Slice).
SignupLists(c) ==
    {s \in [1..Allocated[c] -> sampleSignupDate(EarliestSignup[c])] :
        \A i, j \in DOMAIN s : i <= j => s[i] <= s[j]}

Init ==
    /\ cursors \in {p \in [Countries -> UNION {SignupLists(c) : c \in Countries}] :
                        \A c \in Countries : p[c] \in SignupLists(c)}
    /\ idx = 0 /\ step = "merge" /\ cur = <<>> /\ rows = <<>>
    /\ ids = [c \in Countries |-> <<>>]
    /\ monthCount = [c \in Countries |-> [m \in {} |-> 0]]
    /\ savedPay = <<>> /\ ctr = 0 /\ roll = <<>>

\* The signup on record: filled with zeros below its year's precision.
coarsenToPrecision(t) ==
    LET y == YearOf(t)
        unit == CASE y <= YearPrecise -> YearLength
                  [] y <= MonthPrecise -> MonthLength
                  [] y <= DayPrecise -> DayLength
                  [] OTHER -> 1
    IN t - (t % unit)

-----------------------------------------------------------------------------
(* The merge: the heap holds one cursor per country, the earliest on top.  *)

\* A bug to catch: the cursors compared by country only.
LessByCountry(c, d) == c < d

Less(c, d) ==
    \/ Head(cursors[c]) < Head(cursors[d])
    \/ Head(cursors[c]) = Head(cursors[d]) /\ c < d

Live == {c \in Countries : cursors[c] # <<>>}
Peek == CHOOSE c \in Live : \A d \in Live \ {c} : Less(c, d)

\* A slot of the merge becomes a gap in the ids (customerIDGapRate) ...
SkipSlot ==
    /\ step = "merge" /\ Live # {}
    /\ cursors' = [cursors EXCEPT ![Peek] = Tail(@)]
    /\ idx' = idx + 1
    /\ UNCHANGED <<step, cur, rows, ids, monthCount, savedPay, ctr, roll>>

\* ... or a customer.
TakeSlot ==
    /\ step = "merge" /\ Live # {}
    /\ cur' = [id |-> idx + 1, country |-> Peek, signup |-> coarsenToPrecision(Head(cursors[Peek]))]
    /\ cursors' = [cursors EXCEPT ![Peek] = Tail(@)]
    /\ step' = "engage" /\ rows' = <<>>
    /\ UNCHANGED <<idx, ids, monthCount, savedPay, ctr, roll>>

-----------------------------------------------------------------------------
(* Companion rows.                                                         *)

SignupYear == YearOf(cur.signup)
Row(what, at) == [what |-> what, at |-> at]

\* generateEmails: how many addresses the customer may have.
Emails ==
    CASE SignupYear < EmailYear -> {0}
      [] SignupYear < WorkEmailYear -> {0, 1}
      [] OTHER -> {0, 1, 2}

EmailMarketing == <<"email", "marketing">>

\* generateCommPrefs: the pairs of channel and purpose asked about.
CommPrefs ==
    {EmailMarketing, <<"email", "service">>, <<"email", "trade_in_alerts">>, <<"post", "marketing">>}
        \cup IF SignupYear >= SmsYear THEN {<<"sms", "marketing">>} ELSE {}

\* Which pairs are opted in; the pairs no campaign asks about go together.
OptIns == {{}, {EmailMarketing}, CommPrefs}

\* The re-consent campaigns that reach this customer.
Campaigns ==
    {p \in {GDPRPulse, CCPAPulse} :
        \/ p = GDPRPulse /\ Regime[cur.country] \in {"gdpr", "uk_gdpr"} /\ SignupYear < YearOf(p)
        \/ p = CCPAPulse /\ Regime[cur.country] = "ccpa" /\ SignupYear < YearOf(p)}

Answers(p) == {<<>>} \cup {<<Row(a, p)>> : a \in {"granted", "revoked"}}

\* generateLifecycleEvents, generateEmails, generateCommPrefs and
\* generateConsentEvents: without an address there is nothing to consent to.
Engage ==
    /\ step = "engage"
    /\ \E emails \in Emails, optIn \in OptIns,
          answer \in {<<>>} \cup UNION {Answers(p) : p \in Campaigns} :
         rows' = <<Row("signup", cur.signup)>>
             \o IF emails = 0 THEN <<>>
                ELSE [i \in 1..Cardinality(optIn) |-> Row("granted", cur.signup)] \o answer
    /\ step' = "enrol"
    /\ UNCHANGED <<cursors, idx, cur, ids, monthCount, savedPay, ctr, roll>>

Option(rs) == {<<>>} \cup {<<r>> : r \in rs}

\* A bug to catch: the enrolment not held back to the scheme's launch.
EnrolmentAtOnce(scheme, from) == {Row(scheme, cur.signup)}

\* The instants of enrolment in a scheme launched at from.
Enrolment(scheme, from) ==
    IF YearOf(cur.signup) < YearOf(from) THEN {Row(scheme, t) : t \in Drawn(from, from + EnrolWindow)}
    ELSE {Row(scheme, cur.signup)}

\* generateLoyaltyMemberships.
Enrol ==
    /\ step = "enrol"
    /\ \E stamp \in Option({r \in {Row("stamp_1986", cur.signup)} :
                                StampYears[1] <= SignupYear /\ SignupYear <= StampYears[2]}),
          card \in Option({r \in Enrolment("card_1998", CardFrom) :
                                StampYears[1] <= SignupYear /\ SignupYear <= CardYears[2]}),
          unified \in Option({r \in Enrolment("unified_2011", UnifiedFrom) : r.at <= AsOf}) :
         rows' = stamp \o card \o unified
    /\ step' = "save"
    /\ UNCHANGED <<cursors, idx, cur, ids, monthCount, savedPay, ctr, roll>>

\* pickSavedMethodForYear.
SaveableMethods ==
    {"card_emv"} \cup IF SignupYear >= ContactlessYear THEN {"card_contactless"} ELSE {}

\* generateSavedPaymentMethods: from a month after the signup on.
SavedMethods ==
    IF SignupYear < OnlineYear THEN {<<>>}
    ELSE LET first == cur.signup + MonthLength
             from == IF first > AsOf THEN cur.signup ELSE first
         IN BoundedSeq({Row(m, t) : m \in SaveableMethods, t \in Drawn(from, AsOf)}, MaxSaved)

\* Saved methods, the index's entries for the customer, and emit.
Save ==
    /\ step = "save"
    /\ \E saved \in SavedMethods :
         /\ rows' = saved
         /\ savedPay' = IF saved = <<>> THEN savedPay
                        ELSE Append(savedPay, [customerID |-> cur.id, firstID |-> ctr + 1,
                                               addedDay |-> DayOf(saved[1].at), method |-> saved[1].what])
         /\ ctr' = ctr + Len(saved)
         /\ roll' = Append(roll, [id |-> cur.id, country |-> cur.country, signup |-> cur.signup,
                                  saved |-> saved, firstID |-> ctr + 1])
    /\ ids' = [ids EXCEPT ![cur.country] = Append(@, cur.id)]
    /\ monthCount' = [monthCount EXCEPT ![cur.country] =
                         [m \in DOMAIN @ \cup {MonthOf(cur.signup)} |->
                             IF m = MonthOf(cur.signup) THEN Len(ids'[cur.country])
                             ELSE monthCount[cur.country][m]]]
    /\ idx' = idx + 1 /\ step' = "merge"
    /\ UNCHANGED <<cursors, cur>>

\* A bug to catch: months without a signup left out of the index.
FilledNot(count) == count

\* Every month from the first signup to the generation date gets the count
\* of the last month before it that has one.
Filled(count) ==
    LET start == Min(DOMAIN count)
    IN [m \in (start..MonthOf(AsOf)) \cup DOMAIN count |->
           count[Max({k \in DOMAIN count : k <= m})]]

\* A country that emitted nobody stops the program here (keys[0]).
CompleteIndex ==
    /\ step = "merge" /\ Live = {}
    /\ \A c \in Countries : ids[c] # <<>>
    /\ monthCount' = [c \in Countries |-> Filled(monthCount[c])]
    /\ step' = "done"
    /\ UNCHANGED <<cursors, idx, cur, rows, ids, savedPay, ctr, roll>>

Next == SkipSlot \/ TakeSlot \/ Engage \/ Enrol \/ Save \/ CompleteIndex
Spec == Init /\ [][Next]_vars

-----------------------------------------------------------------------------
(* What the sales generator reads.                                         *)

\* Pick: the customers it may return; those counted by the end of the month before.
Pickable(c, t) ==
    LET m == MonthOf(t) - 1
        eligible == IF m \in DOMAIN monthCount[c] THEN monthCount[c][m] ELSE 0
    IN {ids[c][k] : k \in 1..eligible}

\* A bug to catch: a method usable on the day it is added.
UsableSameDay(ref, t) == DayOf(t) >= ref.addedDay

Usable(ref, t) == DayOf(t) > ref.addedDay

\* SavedPaymentFor: the first entry not below the customer, by binary search.
SavedPaymentFor(id, t, method) ==
    LET from == {k \in DOMAIN savedPay : savedPay[k].customerID >= id}
    IN IF from = {} THEN None
       ELSE LET ref == savedPay[Min(from)]
            IN IF ref.customerID = id /\ ref.method = method /\ Usable(ref, t) THEN ref.firstID ELSE None

-----------------------------------------------------------------------------
\* A sale may be linked to exactly those customers of its country whose signup
\* on record lies in an earlier month, through gaps in the ids, months nobody
\* signed up in and coarsened dates (customers.go:200-219, 450-498).
PickIsExact ==
    step = "done" =>
        \A c \in Countries, t \in 0..AsOf :
            Pickable(c, t) = {roll[k].id : k \in {k \in DOMAIN roll :
                                 roll[k].country = c /\ MonthOf(roll[k].signup) < MonthOf(t)}}

\* Ids rise with the signup on record over all countries, the ordering both
\* searches of the index rest on (customers.go:103-121, 503-525).
IdsFollowSignups ==
    /\ \A j, k \in DOMAIN roll : j < k =>
           roll[j].id < roll[k].id /\ roll[j].signup <= roll[k].signup
    /\ \A j, k \in DOMAIN savedPay : j < k => savedPay[j].customerID < savedPay[k].customerID

\* A payment carries a customer's first saved method exactly when it is paid
\* that way on a later day than the method was added: never before the instant
\* it was (customers.go:137-171).
SavedBeforeUse ==
    step = "done" =>
        \A k \in DOMAIN roll, t \in 0..AsOf, m \in {"card_emv", "card_contactless"} :
            LET hit == SavedPaymentFor(roll[k].id, t, m)
                s == roll[k].saved
            IN /\ hit # None => s[1].at < t /\ hit = roll[k].firstID
               /\ (s # <<>> /\ s[1].what = m /\ DayOf(s[1].at) < DayOf(t)) => hit # None

\* No companion row predates the signup on record, a customer's consent trail
\* is in order of time, and nobody is in a loyalty scheme before it opens
\* (engagement.go:418-546).
CompanionDates ==
    /\ \A k \in DOMAIN rows : rows[k].at >= cur.signup /\ rows[k].at <= Max({AsOf, GDPRPulse, CCPAPulse})
    /\ step = "enrol" => \A j, k \in DOMAIN rows : j < k => rows[j].at <= rows[k].at
    /\ step = "save" => \A k \in DOMAIN rows :
           CASE rows[k].what = "stamp_1986" -> YearOf(rows[k].at) \in StampYears[1]..StampYears[2]
             [] rows[k].what = "card_1998" -> rows[k].at >= CardFrom /\ YearOf(rows[k].at) <= CardYears[2]
             [] OTHER -> YearOf(rows[k].at) >= YearOf(UnifiedFrom) /\ rows[k].at <= AsOf

\* Nobody saves a payment method at a shop that is no longer trading:
\* policy.go:540-545 lets privacy events follow the liquidation, and says the
\* storefront does not.
SavedWhileTrading ==
    step = "merge" => \A k \in DOMAIN roll : \A j \in DOMAIN roll[k].saved :
                          roll[k].saved[j].at <= SignupCutoff
==============================================================================
