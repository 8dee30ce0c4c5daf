------------------------------ MODULE ShopSales ------------------------------
(***************************************************************************)
(* The receipts of one shop (transactions.generateShopTransactions): day   *)
(* after day a pass of software sales, a pass of hardware sales, a pass of *)
(* accessory sales and, at the fraud shop, the manager's keyed refunds.    *)
(* A sale may take a trade-in, grant and spend store credit, and be        *)
(* refunded days later; all these write dated receipts and ledger rows in  *)
(* the order the generator reaches them, which is not the order of the     *)
(* dates.  Amounts are hundredths of the currency; instants are seconds,   *)
(* Seconds to a day, counted from the first day.                           *)
(***************************************************************************)
EXTENDS Integers, Sequences, FiniteSetsExt

CONSTANTS
    Customers,     \* the customers who may be linked to a sale
    Anonymous,     \* a sale without a customer
    Software, Hardware, Accessories,  \* the stock-keeping units of each kind
    Price,         \* what one unit costs, tax and discount included
    Baskets,       \* the sequences of units a receipt may list
    TradeValues,   \* what a trade-in may be worth
    Unit,          \* the smallest amount of the currency, in hundredths
    Seconds,       \* instants per day (bound of the model)
    Precision,     \* instants a timestamp is truncated to in the early years
    FineDay,       \* first day of the years recorded to the instant
    OpenDay,       \* the shop opens
    CloseDay,      \* dayCutoff: its last trading day
    ClosureDay,    \* BusinessClosureDate: the liquidation of the company
    EraDay,        \* first day of a later point-of-sale system
    MaxLag,        \* a return comes back 1..MaxLag days later
    FraudShop,     \* whether the fraud pocket is armed at this shop
    FraudStart, FraudEnd, FraudLagMin, FraudLagMax,  \* its window and lags, in days
    FraudMax,      \* the largest receipt a keyed refund targets
    MaxReceipts    \* receipts generated before the model stops (bound)

SalesAssumption ==
    /\ Anonymous \notin Customers
    /\ Price \in [Software \cup Hardware \cup Accessories -> Nat \ {0}]
    /\ TradeValues \subseteq Nat \ {0}
    /\ {Unit, Seconds, Precision} \subseteq Nat \ {0}
    /\ OpenDay \in Nat /\ OpenDay <= CloseDay /\ CloseDay <= ClosureDay
    /\ FineDay \in Nat
    /\ \A x \in {Price[p] : p \in DOMAIN Price} \cup TradeValues : x % Unit = 0
    /\ FraudLagMin < FraudLagMax /\ FraudStart <= FraudEnd
    /\ {FraudLagMin, FraudLagMax, FraudStart, FraudEnd, MaxLag} \subseteq Nat
    /\ FraudShop \in BOOLEAN /\ (FraudShop => FineDay <= FraudStart)
    /\ ClosureDay \in Nat /\ CloseDay \in Nat
    /\ \A b \in Baskets : b \in Seq(Software \cup Hardware \cup Accessories) \ {<< >>}

ASSUME SalesAssumption

VARIABLES
    day, pass,   \* the shop-day and the pass over it being generated
    clock,       \* second of the last sale of the pass: draws are sorted
    receipts,    \* the receipts emitted so far, in transaction_id order
    ledger,      \* the store-credit ledger rows, in ledger_id order
    balance,     \* creditState: each customer's credit at this shop
    stockRows,   \* how often an inventory row was emitted for a unit
    moved,       \* units with an inventory movement
    targets      \* fraudState.buf: receipts a keyed refund may refer to

vars == <<day, pass, clock, receipts, ledger, balance, stockRows, moved, targets>>

Units == Software \cup Hardware \cup Accessories
Passes == {"software", "hardware", "accessories", "fraud", "closed"}

-----------------------------------------------------------------------------
(* Dates.                                                                  *)

Midnight(d) == d * Seconds
DayOf(t) == t \div Seconds

\* coarsenToPrecision, at the precision of the date's year: the ladder of
\* precisions is one coarse step and one exact one.
Coarse(t) == IF t < Midnight(FineDay) THEN t - (t % Precision) ELSE t

\* A sale's timestamp: coarsened, but not to before the shop opened.
Stamp(d, s) ==
    LET t == Coarse(Midnight(d) + s) IN
    IF t < Midnight(OpenDay) THEN Midnight(OpenDay) ELSE t

\* transactionSourceSystem: the point-of-sale system of an instant.
SourceSystem(t) == IF t < Midnight(EraDay) THEN "legacy" ELSE "transitional"

\* When a return of a sale dated t, lag days later, is dated (before and after
\* coarsening); the fallback keeps it after the sale.
Returned(t, lag) == Min({t + Midnight(lag), Midnight(ClosureDay)})

\* A bug to catch: no fallback when coarsening moves the return back.
ReturnStampCoarseOnly(t, lag) == Coarse(Returned(t, lag))

ReturnStamp(t, lag) ==
    LET r == Coarse(Returned(t, lag)) IN IF r > t THEN r ELSE t + Midnight(1)

-----------------------------------------------------------------------------
(* Amounts.                                                                *)

Total(basket) == MapThenSumSet(LAMBDA k : Price[basket[k]], DOMAIN basket)

NoTradeIn == [value |-> 0, payout |-> "none"]

\* samplePayoutMethod: only an identified customer is paid in store credit.
TradeIns(c) ==
    {NoTradeIn} \cup [value : TradeValues,
                      payout : IF c = Anonymous THEN {"cash"} ELSE {"cash", "credit"}]

\* A bug to catch: the offset set for every payout, store credit included.
OffsetAlways(total, trade) == Min({trade.value, total})

\* Cash and bank payouts settle part of the receipt; store credit does not.
Offset(total, trade) ==
    IF trade.payout = "cash" THEN Min({trade.value, total}) ELSE 0

Grant(trade) == IF trade.payout = "credit" THEN trade.value ELSE 0

\* A bug to catch: a redemption that is not capped at the balance.
RedeemUncapped(held, due) == due - (due % Unit)

\* creditState.redeem, for a positive balance and a positive amount due.
Redeem(held, due) == LET r == Min({held, due}) IN r - (r % Unit)

-----------------------------------------------------------------------------
(* Receipts.                                                               *)

\* A sale to customer c settled by trade-in offset, credit and a tender.
Sale(at, c, basket, trade, spent) ==
    LET due == Total(basket) - Offset(Total(basket), trade) IN
    [kind |-> "sale", at |-> at, customer |-> c, lines |-> basket,
     total |-> Total(basket), trade |-> trade,
     offset |-> Offset(Total(basket), trade), tender |-> due - spent,
     parent |-> 0, source |-> SourceSystem(at)]

\* A refund of one line of receipt number n, in the tender it was paid with.
Refund(kind, n, of, unit, at, source) ==
    [kind |-> kind, at |-> at, customer |-> of.customer, lines |-> <<unit>>,
     total |-> -Price[unit], trade |-> NoTradeIn, offset |-> 0, tender |-> -Price[unit],
     parent |-> n, source |-> source]

LedgerRow(c, at, amount, n) == [customer |-> c, at |-> at, amount |-> amount, tx |-> n]

\* The ledger rows of receipt n: the grant, then what is spent of the balance.
Entries(c, at, granted, spent, n) ==
    (IF granted > 0 THEN <<LedgerRow(c, at, granted, n)>> ELSE << >>) \o
    (IF spent > 0 THEN <<LedgerRow(c, at, -spent, n)>> ELSE << >>)

\* A bug to catch: a trade-in granted on the ledger but not on the balance.
CreditWithoutBalance(c, at, granted, spent) ==
    /\ ledger' = ledger \o Entries(c, at, granted, spent, Len(receipts) + 1)
    /\ balance' = IF c = Anonymous THEN balance
                  ELSE [balance EXCEPT ![c] = @ - spent]

\* creditState and ledger take the grant and the redemption together.
Credit(c, at, granted, spent) ==
    /\ ledger' = ledger \o Entries(c, at, granted, spent, Len(receipts) + 1)
    /\ balance' = IF c = Anonymous THEN balance
                  ELSE [balance EXCEPT ![c] = @ + granted - spent]

\* A bug to catch: an inventory row for every movement.
StockEveryTime(units) ==
    /\ moved' = moved \cup units
    /\ stockRows' = [u \in Units |-> IF u \in units THEN stockRows[u] + 1 ELSE stockRows[u]]

\* The units of a sale, and the unit taken in (if any), get stock movements;
\* the tracker emits an inventory row for those it has not seen.
Stock(units) ==
    /\ moved' = moved \cup units
    /\ stockRows' = [u \in Units |->
           IF u \in units /\ stockRows[u] = 0 THEN 1 ELSE stockRows[u]]

UnitsOf(basket) == {basket[k] : k \in DOMAIN basket}

-----------------------------------------------------------------------------
Init ==
    /\ day = OpenDay
    /\ pass = "software"
    /\ clock = 0
    /\ receipts = << >>
    /\ ledger = << >>
    /\ balance = [c \in Customers |-> 0]
    /\ stockRows = [u \in Units |-> 0]
    /\ moved = {}
    /\ targets = {}

\* The bound of the model: n more receipts may be generated.
Room(n) == Len(receipts) + n <= MaxReceipts

\* The unit a trade-in brings into stock: a game, or any hardware.
TakenIn(trade, kind) == IF trade = NoTradeIn THEN {{}} ELSE {{u} : u \in kind}

\* What of the balance a sale spends: a grant made on this receipt is always
\* applied, an older balance if the customer so chooses.
Spent(c, granted, due, chooses) ==
    IF c # Anonymous /\ due > 0 /\ balance[c] + granted > 0 /\ (granted > 0 \/ chooses)
    THEN Redeem(balance[c] + granted, due)
    ELSE 0

\* emitReturn's conditions: a normal tender, and a return after the sale.
Returnable(sale, lag) == sale.tender > 0 /\ Returned(sale.at, lag) > sale.at

\* fraudState.maybeBuffer: a small, tendered sale dated around the window.
Targetable(sale) ==
    /\ FraudShop
    /\ sale.at >= Midnight(FraudStart - FraudLagMax)
    /\ sale.at <= Midnight(FraudEnd)
    /\ sale.tender > 0
    /\ sale.total <= FraudMax

\* A bug to catch: every sale becomes a target, refunded or not.
AftermathBuffersAll(sale, n) ==
    /\ \/ \E lag \in 1..MaxLag, k \in DOMAIN sale.lines :
             receipts' = receipts \o
                IF Returnable(sale, lag)
                THEN <<sale, Refund("return", n, sale, sale.lines[k],
                                    ReturnStamp(sale.at, lag), sale.source)>>
                ELSE <<sale>>
       \/ receipts' = Append(receipts, sale)
    /\ targets' = IF Targetable(sale) THEN targets \cup {n} ELSE targets

\* What follows a sale: it comes back (if it can), or it may become a target.
\* A return is generated at once, though dated later; its source system is the
\* sale's.
Aftermath(sale, n) ==
    \/ \E lag \in 1..MaxLag, k \in DOMAIN sale.lines :
          /\ receipts' = receipts \o
                IF Returnable(sale, lag)
                THEN <<sale, Refund("return", n, sale, sale.lines[k],
                                    ReturnStamp(sale.at, lag), sale.source)>>
                ELSE <<sale>>
          /\ UNCHANGED targets
    \/ /\ receipts' = Append(receipts, sale)
       /\ targets' = IF Targetable(sale) THEN targets \cup {n} ELSE targets

\* The day's seconds are drawn up front and sorted.
\* A bug to catch: seconds in the order they are drawn.
DrawnUnsorted == 0..(Seconds - 1)

Drawn == clock..(Seconds - 1)

\* emitTransaction
SoftwareSale ==
    /\ pass = "software"
    /\ Room(2)
    /\ \E s \in Drawn, c \in Customers \cup {Anonymous} :
       \E basket \in {b \in Baskets : UnitsOf(b) \subseteq Software},
          trade \in TradeIns(c), chooses \in BOOLEAN :
       \E taken \in TakenIn(trade, Software) :
          LET at == Stamp(day, s)
              due == Total(basket) - Offset(Total(basket), trade)
              spent == Spent(c, Grant(trade), due, chooses)
          IN  /\ clock' = s
              /\ Credit(c, at, Grant(trade), spent)
              /\ Stock(UnitsOf(basket) \cup taken)
              /\ Aftermath(Sale(at, c, basket, trade, spent), Len(receipts) + 1)
    /\ UNCHANGED <<day, pass>>

\* emitHardwareTransaction: a console with its attached games and accessory, or
\* one accessory alone; neither spends credit nor comes back, and only a console
\* sale takes a trade-in.
HardwareSale ==
    /\ pass \in {"hardware", "accessories"}
    /\ Room(1)
    /\ \E s \in Drawn, c \in Customers \cup {Anonymous} :
       \E basket \in {b \in Baskets : b[1] \in IF pass = "hardware" THEN Hardware ELSE Accessories},
          trade \in IF pass = "hardware" THEN TradeIns(c) ELSE {NoTradeIn} :
       \E taken \in TakenIn(trade, Hardware \cup Accessories) :
          /\ clock' = s
          /\ Credit(c, Stamp(day, s), Grant(trade), 0)
          /\ Stock(UnitsOf(basket) \cup taken)
          /\ receipts' = Append(receipts, Sale(Stamp(day, s), c, basket, trade, 0))
    /\ UNCHANGED <<day, pass, targets>>

FraudDay == FraudShop /\ FraudStart <= day /\ day <= FraudEnd

\* A bug to catch: refunds of any target, however recent.
StaleEver(n) == receipts[n].at < Midnight(day + 1)

Stale(n) == receipts[n].at < Midnight(day - FraudLagMin)

\* emitFraudDay, emitKeyedRefund: after closing, in cash, nothing restocked.
KeyedRefund ==
    /\ pass = "fraud"
    /\ FraudDay
    /\ Room(1)
    /\ \E n \in targets :
          /\ Stale(n)
          /\ targets' = targets \ {n}
          /\ LET at == Coarse(Midnight(day) + Seconds - 1) IN
             receipts' = Append(receipts, Refund("keyed", n, receipts[n],
                                                 receipts[n].lines[1], at, SourceSystem(at)))
    /\ UNCHANGED <<day, pass, clock, ledger, balance, stockRows, moved>>

\* The pass is over; the fraud pass first drops targets too old to refer to.
EndPass ==
    /\ clock' = 0
    /\ \/ /\ pass \in {"software", "hardware"}
          /\ pass' = IF pass = "software" THEN "hardware" ELSE "accessories"
          /\ UNCHANGED <<day, targets>>
       \/ /\ pass = "accessories"
          /\ pass' = "fraud"
          /\ targets' = IF FraudDay
                        THEN {n \in targets : receipts[n].at >= Midnight(day - FraudLagMax)}
                        ELSE targets
          /\ UNCHANGED day
       \/ /\ pass = "fraud"
          /\ pass' = IF day = CloseDay THEN "closed" ELSE "software"
          /\ day' = IF day = CloseDay THEN day ELSE day + 1
          /\ UNCHANGED targets
    /\ UNCHANGED <<receipts, ledger, balance, stockRows, moved>>

Next == SoftwareSale \/ HardwareSale \/ KeyedRefund \/ EndPass

Spec == Init /\ [][Next]_vars

-----------------------------------------------------------------------------
Sales == {n \in DOMAIN receipts : receipts[n].kind = "sale"}
Refunds == DOMAIN receipts \ Sales

\* The ledger rows of receipt n, granted and spent.
Granted(n) ==
    MapThenSumSet(LAMBDA k : ledger[k].amount,
                  {k \in DOMAIN ledger : ledger[k].tx = n /\ ledger[k].amount > 0})
Redeemed(n) ==
    -MapThenSumSet(LAMBDA k : ledger[k].amount,
                   {k \in DOMAIN ledger : ledger[k].tx = n /\ ledger[k].amount < 0})

\* Each variable holds a value of its kind; what the tracker, the buffer and the
\* ledger refer to are receipts that exist.
TypeOK ==
    /\ day \in OpenDay..CloseDay
    /\ pass \in Passes
    /\ clock \in 0..(Seconds - 1)
    /\ \A n \in Refunds : receipts[n].parent \in Sales /\ receipts[n].parent < n
    /\ \A k \in DOMAIN ledger : ledger[k].tx \in Sales /\ ledger[k].customer \in Customers
    /\ balance \in [Customers -> Nat]
    /\ stockRows \in [Units -> Nat]
    /\ moved \subseteq Units
    /\ targets \subseteq Sales

\* "SUM(payments) = total - trade_in_offset still holds exactly" and a trade-in is
\* paid out once ("setting both would pay the customer twice"): across the receipt
\* and its ledger rows, tender, offset and credit make up the total, and offset
\* and grant do not exceed what was traded in.
Settled ==
    \A n \in Sales :
        LET r == receipts[n] IN
        /\ r.tender >= 0 /\ r.offset >= 0
        /\ r.total = r.offset + r.tender + Redeemed(n)
        /\ r.offset + Granted(n) <= r.trade.value

\* At no instant of the recorded history has a customer spent credit the shop had
\* not granted by then: replaying the ledger by date, and by ledger_id within a
\* date, never goes below zero, although hardware sales are generated after the
\* software sales of the same day and early dates are coarse.
CreditNeverOverdrawn ==
    \A k \in DOMAIN ledger :
        MapThenSumSet(LAMBDA j : ledger[j].amount,
            {j \in DOMAIN ledger :
                /\ ledger[j].customer = ledger[k].customer
                /\ \/ ledger[j].at < ledger[k].at
                   \/ ledger[j].at = ledger[k].at /\ j <= k}) >= 0

\* The balance the generator redeems from is the ledger it emitted.
BalanceIsLedger ==
    \A c \in Customers :
        balance[c] = MapThenSumSet(LAMBDA k : ledger[k].amount,
                                   {k \in DOMAIN ledger : ledger[k].customer = c})

\* Every unit with a movement has exactly one inventory row, whichever of sales,
\* attached games, accessories, trade-ins and returns touched it first.
StockRowOnce ==
    \A u \in Units : stockRows[u] = IF u \in moved THEN 1 ELSE 0

\* "a parent is never refunded twice": by a return and a keyed refund, or by two.
RefundedOnce ==
    \A m, n \in Refunds : receipts[m].parent = receipts[n].parent => m = n

\* A refund is dated after the sale it refunds, however coarse the dates are.
RefundAfterSale ==
    \A n \in Refunds : receipts[n].at > receipts[receipts[n].parent].at

\* A keyed refund refers to a sale at least FraudLagMin and at most FraudLagMax
\* days old, and within the fraud window.
KeyedIsStale ==
    \A n \in Refunds : receipts[n].kind = "keyed" =>
        LET d == DayOf(receipts[n].at) IN
        /\ FraudStart <= d /\ d <= FraudEnd
        /\ receipts[receipts[n].parent].at < Midnight(d - FraudLagMin)
        /\ receipts[receipts[n].parent].at >= Midnight(d - FraudLagMax)

\* "bound the transaction window by (shop.closed_date, BusinessClosureDate, asOf)"
\* (generateShopTransactions): no receipt is dated after the shop's last day.
WithinTradingDays ==
    \A n \in DOMAIN receipts : DayOf(receipts[n].at) <= CloseDay

\* "Refund original tender only" (emitReturn): no more is refunded in a tender
\* than the sale was paid with in it.
RefundWithinTender ==
    \A n \in Refunds : receipts[n].kind = "return" =>
        -receipts[n].tender <= receipts[receipts[n].parent].tender

\* "tags a tx with the POS lineage" of its year (transactionSourceSystem): the
\* source system of a receipt is the one in use at its date.
SourceOfDate ==
    \A n \in DOMAIN receipts : receipts[n].source = SourceSystem(receipts[n].at)
=============================================================================
