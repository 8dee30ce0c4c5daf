--------------------------- MODULE ShopSales_proofs ---------------------------
(* Refunds, stock rows, settlement and store credit of a shop, for every       *)
(* catalogue, calendar, precision and fraud window.                            *)
EXTENDS ShopSales, Sums, SequenceTheorems, TLAPS

LEMMA DaysNat ==
    /\ OpenDay \in Nat /\ ClosureDay \in Nat /\ CloseDay \in Nat /\ FineDay \in Nat
    /\ MaxLag \in Nat /\ FraudLagMin \in Nat /\ FraudLagMax \in Nat
    /\ FraudStart \in Nat /\ FraudEnd \in Nat /\ Seconds \in Nat /\ Seconds > 0
  BY SalesAssumption DEF SalesAssumption

\* Every early truncated date is an instant not after the true one.
LEMMA CoarseBefore ==
    ASSUME NEW t \in Int
    PROVE  Coarse(t) \in Int /\ Coarse(t) <= t
  BY SalesAssumption DEF SalesAssumption, Coarse, Midnight

LEMMA MidnightInt ==
    ASSUME NEW d \in Int
    PROVE  Midnight(d) \in Int
  BY SalesAssumption DEF SalesAssumption, Midnight

LEMMA MidnightMonotone ==
    ASSUME NEW d \in Int, NEW e \in Int, d <= e
    PROVE  Midnight(d) <= Midnight(e)
  <1>1. PICK s \in Nat : s = Seconds /\ s > 0
    BY SalesAssumption DEF SalesAssumption
  <1>2. d * s <= e * s
    <2>1. PICK k \in Nat : e = d + k
      <3>1. e - d \in Nat /\ e = d + (e - d)
        OBVIOUS
      <3>2. QED BY <3>1
    <2>2. e * s = d * s + k * s /\ k * s \in Nat
      BY <1>1, <2>1
    <2>3. QED BY <1>1, <2>2
  <1>3. QED BY <1>1, <1>2 DEF Midnight

\* A sale is dated at an instant.
LEMMA StampInt ==
    ASSUME NEW d \in Int, NEW s \in Int
    PROVE  Stamp(d, s) \in Int
  <1>1. Midnight(d) + s \in Int /\ Midnight(OpenDay) \in Int
    BY MidnightInt, DaysNat
  <1>2. Coarse(Midnight(d) + s) \in Int
    BY <1>1, CoarseBefore
  <1>3. QED BY <1>1, <1>2 DEF Stamp

LEMMA MinOfTwo ==
    ASSUME NEW a \in Int, NEW b \in Int
    PROVE  Min({a, b}) \in Int
  <1>1. \E x \in {a, b} : \A y \in {a, b} : x <= y
    <2>1. CASE a <= b
      BY <2>1
    <2>2. CASE b <= a
      BY <2>2
    <2>3. QED BY <2>1, <2>2
  <1>2. Min({a, b}) \in {a, b}
    BY <1>1 DEF Min
  <1>3. QED BY <1>2

\* A return is dated after its sale, by the fallback if coarsening moved it back.
LEMMA ReturnAfter ==
    ASSUME NEW t \in Int, NEW lag \in 1..MaxLag
    PROVE  ReturnStamp(t, lag) \in Int /\ ReturnStamp(t, lag) > t
  <1>1. Returned(t, lag) \in Int
    <2>1. t + Midnight(lag) \in Int /\ Midnight(ClosureDay) \in Int
      BY MidnightInt, DaysNat
    <2>2. QED BY <2>1, MinOfTwo DEF Returned
  <1>2. Coarse(Returned(t, lag)) \in Int
    BY <1>1, CoarseBefore
  <1>3. Midnight(1) \in Int /\ Midnight(1) > 0
    BY SalesAssumption DEF SalesAssumption, Midnight
  <1>4. QED BY <1>2, <1>3 DEF ReturnStamp

\* A keyed refund is dated exactly: on its day, after every earlier day.
LEMMA KeyedDate ==
    ASSUME FraudShop, NEW d \in Nat, FraudStart <= d
    PROVE  LET at == Coarse(Midnight(d) + Seconds - 1) IN
           at \in Int /\ DayOf(at) = d /\ at >= Midnight(d)
  <1>1. PICK s \in Nat : s = Seconds /\ s > 0
    BY SalesAssumption DEF SalesAssumption
  <1>2. FineDay \in Nat /\ FineDay <= d
    BY SalesAssumption DEF SalesAssumption
  <1>3. Midnight(FineDay) <= Midnight(d) /\ Midnight(FineDay) \in Int /\ Midnight(d) \in Int
    BY <1>2, MidnightMonotone, MidnightInt
  <1>4. Coarse(Midnight(d) + Seconds - 1) = Midnight(d) + s - 1
    BY <1>1, <1>3 DEF Coarse
  <1>5. (d * s + s - 1) \div s = d
    <2>1. (d * s + s - 1) \div s \in Int
      BY <1>1
    <2>2. d * s <= d * s + s - 1 /\ d * s + s - 1 < (d + 1) * s
      BY <1>1
    <2>3. QED BY <1>1, <2>1, <2>2
  <1>6. QED BY <1>1, <1>3, <1>4, <1>5 DEF DayOf, Midnight

\* Appending to a sequence.
LEMMA OneMore ==
    ASSUME NEW S, NEW s \in Seq(S), NEW e
    PROVE  /\ Append(s, e) \in Seq(S \cup {e}) /\ s \o <<e>> = Append(s, e)
           /\ DOMAIN Append(s, e) = DOMAIN s \cup {Len(s) + 1}
           /\ DOMAIN s = 1..Len(s) /\ Len(s) \in Nat
           /\ \A i \in DOMAIN s : Append(s, e)[i] = s[i]
           /\ Append(s, e)[Len(s) + 1] = e
  <1>1. s \in Seq(S \cup {e}) /\ e \in S \cup {e}
    OBVIOUS
  <1>2. QED BY <1>1

LEMMA TwoMore ==
    ASSUME NEW S, NEW s \in Seq(S), NEW e, NEW f
    PROVE  s \o <<e, f>> = Append(Append(s, e), f)
  <1>1. s \in Seq(S \cup {e, f}) /\ e \in S \cup {e, f} /\ f \in S \cup {e, f}
    OBVIOUS
  <1>2. QED BY <1>1

-----------------------------------------------------------------------------
(* The book of receipts rs, with the targets ts still open to keyed refunds.   *)

KeyedInWindow(refund, sale) ==
    refund.kind = "keyed" =>
        /\ FraudStart <= DayOf(refund.at) /\ DayOf(refund.at) <= FraudEnd
        /\ sale.at < Midnight(DayOf(refund.at) - FraudLagMin)
        /\ sale.at >= Midnight(DayOf(refund.at) - FraudLagMax)

IsSale(rs, n) == n \in DOMAIN rs /\ rs[n].kind = "sale"
IsRefund(rs, n) == n \in DOMAIN rs /\ rs[n].kind # "sale"

\* A refund refers to an earlier sale, which is no longer open.
Refers(rs, ts, n) ==
    /\ IsSale(rs, rs[n].parent)
    /\ rs[n].parent \notin ts
    /\ rs[n].at > rs[rs[n].parent].at
    /\ KeyedInWindow(rs[n], rs[rs[n].parent])

Book(rs, ts) ==
    /\ \E S : rs \in Seq(S)
    /\ \A n \in DOMAIN rs : rs[n].at \in Int
    /\ \A n \in ts : IsSale(rs, n)
    /\ \A n \in DOMAIN rs : IsRefund(rs, n) => Refers(rs, ts, n)
    /\ \A m, n \in DOMAIN rs :
          IsRefund(rs, m) /\ IsRefund(rs, n) /\ rs[m].parent = rs[n].parent => m = n

\* A sale is entered, and may be open to a keyed refund.
LEMMA SaleEntered ==
    ASSUME NEW rs, NEW ts, NEW us, Book(rs, ts), NEW sale,
           sale.kind = "sale", sale.at \in Int, us \subseteq ts \cup {Len(rs) + 1}
    PROVE  Book(Append(rs, sale), us)
  <1> DEFINE qs == Append(rs, sale)
  <1>1. PICK S : rs \in Seq(S)
    BY DEF Book
  <1>2. /\ qs \in Seq(S \cup {sale})
        /\ DOMAIN qs = DOMAIN rs \cup {Len(rs) + 1}
        /\ \A i \in DOMAIN rs : qs[i] = rs[i]
        /\ qs[Len(rs) + 1] = sale
        /\ Len(rs) + 1 \notin DOMAIN rs
    BY <1>1, OneMore
  <1> HIDE DEF qs
  <1>3. \A n \in DOMAIN qs : qs[n].at \in Int
    BY <1>2 DEF Book
  <1>4. \A n \in us : IsSale(qs, n)
    BY <1>2 DEF Book, IsSale
  <1>5. \A n : IsRefund(qs, n) <=> IsRefund(rs, n)
    BY <1>2 DEF IsRefund
  <1>6. ASSUME NEW n \in DOMAIN qs, IsRefund(qs, n) PROVE Refers(qs, us, n)
    <2>1. IsRefund(rs, n) /\ n \in DOMAIN rs /\ Refers(rs, ts, n)
      BY <1>5, <1>6 DEF Book, IsRefund
    <2>2. rs[n].parent \in DOMAIN rs /\ rs[n].parent \notin us
      BY <1>2, <2>1 DEF Refers, IsSale
    <2>3. qs[n] = rs[n] /\ qs[rs[n].parent] = rs[rs[n].parent]
      BY <1>2, <2>1, <2>2
    <2>4. QED BY <1>2, <2>1, <2>2, <2>3 DEF Refers, IsSale
  <1>7. ASSUME NEW m \in DOMAIN qs, NEW n \in DOMAIN qs,
               IsRefund(qs, m), IsRefund(qs, n), qs[m].parent = qs[n].parent
        PROVE  m = n
    <2>1. IsRefund(rs, m) /\ IsRefund(rs, n) /\ rs[m].parent = rs[n].parent
      BY <1>2, <1>5, <1>7 DEF IsRefund
    <2>2. QED BY <2>1 DEF Book, IsRefund
  <1>8. Book(qs, us)
    BY <1>2, <1>3, <1>4, <1>6, <1>7 DEF Book
  <1>9. QED BY <1>8 DEF qs

\* A refund is entered of a sale that has none and is no longer open.
LEMMA RefundEntered ==
    ASSUME NEW rs, NEW ts, NEW us, Book(rs, ts), NEW refund,
           refund.kind # "sale", refund.at \in Int, us \subseteq ts,
           IsSale(rs, refund.parent), refund.parent \notin us,
           refund.at > rs[refund.parent].at,
           KeyedInWindow(refund, rs[refund.parent]),
           \A n \in DOMAIN rs : IsRefund(rs, n) => rs[n].parent # refund.parent
    PROVE  Book(Append(rs, refund), us)
  <1> DEFINE qs == Append(rs, refund)
  <1>1. PICK S : rs \in Seq(S)
    BY DEF Book
  <1>2. /\ qs \in Seq(S \cup {refund})
        /\ DOMAIN qs = DOMAIN rs \cup {Len(rs) + 1}
        /\ \A i \in DOMAIN rs : qs[i] = rs[i]
        /\ qs[Len(rs) + 1] = refund
        /\ Len(rs) + 1 \notin DOMAIN rs
    BY <1>1, OneMore
  <1> HIDE DEF qs
  <1>3. \A n \in DOMAIN qs : qs[n].at \in Int
    BY <1>2 DEF Book
  <1>4. \A n : IsSale(qs, n) <=> IsSale(rs, n)
    BY <1>2 DEF IsSale
  <1>5. ASSUME NEW n \in DOMAIN qs, IsRefund(qs, n) PROVE Refers(qs, us, n)
    <2>1. CASE n \in DOMAIN rs
      <3>1. IsRefund(rs, n) /\ Refers(rs, ts, n)
        BY <1>2, <1>5, <2>1 DEF Book, IsRefund
      <3>2. rs[n].parent \in DOMAIN rs /\ rs[n].parent \notin us
        BY <3>1 DEF Refers, IsSale
      <3>3. qs[n] = rs[n] /\ qs[rs[n].parent] = rs[rs[n].parent]
        BY <1>2, <2>1, <3>2
      <3>4. QED BY <1>4, <3>1, <3>2, <3>3 DEF Refers
    <2>2. CASE n = Len(rs) + 1
      <3>1. qs[n] = refund /\ qs[refund.parent] = rs[refund.parent]
        BY <1>2, <2>2 DEF IsSale
      <3>2. QED BY <1>4, <3>1 DEF Refers
    <2>3. QED BY <1>2, <2>1, <2>2
  <1>6. ASSUME NEW m \in DOMAIN qs, NEW n \in DOMAIN qs,
               IsRefund(qs, m), IsRefund(qs, n), qs[m].parent = qs[n].parent
        PROVE  m = n
    <2>1. ASSUME NEW k \in DOMAIN rs, IsRefund(qs, k)
          PROVE  IsRefund(rs, k) /\ qs[k].parent = rs[k].parent /\ qs[k].parent # refund.parent
      BY <1>2, <2>1 DEF IsRefund
    <2>2. CASE m \in DOMAIN rs /\ n \in DOMAIN rs
      BY <1>6, <2>1, <2>2 DEF Book
    <2>3. CASE m = Len(rs) + 1 \/ n = Len(rs) + 1
      BY <1>2, <1>6, <2>1, <2>3
    <2>4. QED BY <1>2, <2>2, <2>3
  <1>7. Book(qs, us)
    BY <1>2, <1>3, <1>4, <1>5, <1>6 DEF Book
  <1>8. QED BY <1>7 DEF qs

\* Fewer targets are open.
LEMMA FewerOpen ==
    ASSUME NEW rs, NEW ts, NEW us, Book(rs, ts), us \subseteq ts
    PROVE  Book(rs, us)
  BY DEF Book, Refers

-----------------------------------------------------------------------------
(* The generator's steps.                                                      *)

SalesInv ==
    /\ Book(receipts, targets)
    /\ day \in OpenDay..CloseDay /\ clock \in 0..(Seconds - 1)
    /\ pass = "fraud" /\ FraudDay =>
          \A n \in targets : receipts[n].at >= Midnight(day - FraudLagMax)

LEMMA SalesInit == Init => SalesInv /\ StockRowOnce
  <1> SUFFICES ASSUME Init PROVE SalesInv /\ StockRowOnce
    OBVIOUS
  <1>1. receipts \in Seq({}) /\ DOMAIN receipts = {} /\ targets = {}
    BY DEF Init
  <1>2. Book(receipts, targets)
    BY <1>1 DEF Book
  <1>3. day \in OpenDay..CloseDay /\ clock \in 0..(Seconds - 1) /\ pass = "software"
    BY SalesAssumption DEF Init, SalesAssumption
  <1>4. StockRowOnce
    BY DEF Init, StockRowOnce
  <1>5. QED BY <1>2, <1>3, <1>4 DEF SalesInv

\* What follows a sale leaves a book in which only this sale may be newly open.
LEMMA AftermathKeeps ==
    ASSUME Book(receipts, targets), NEW sale, sale.kind = "sale", sale.at \in Int,
           Aftermath(sale, Len(receipts) + 1)
    PROVE  Book(receipts', targets')
  <1> DEFINE n == Len(receipts) + 1
             one == Append(receipts, sale)
  <1>1. PICK S : receipts \in Seq(S)
    BY DEF Book
  <1>2. one \in Seq(S \cup {sale}) /\ receipts \o <<sale>> = one /\ one[n] = sale
        /\ DOMAIN one = DOMAIN receipts \cup {n} /\ n \notin DOMAIN receipts
        /\ \A i \in DOMAIN receipts : one[i] = receipts[i]
    BY <1>1, OneMore
  <1>3. Book(one, targets) /\ Book(one, targets \cup {n})
    BY SaleEntered
  <1>4. CASE \E lag \in 1..MaxLag, k \in DOMAIN sale.lines :
               /\ receipts' = receipts \o
                     IF Returnable(sale, lag)
                     THEN <<sale, Refund("return", n, sale, sale.lines[k],
                                         ReturnStamp(sale.at, lag), sale.source)>>
                     ELSE <<sale>>
               /\ UNCHANGED targets
    <2>1. PICK lag \in 1..MaxLag, k \in DOMAIN sale.lines :
               /\ receipts' = receipts \o
                     IF Returnable(sale, lag)
                     THEN <<sale, Refund("return", n, sale, sale.lines[k],
                                         ReturnStamp(sale.at, lag), sale.source)>>
                     ELSE <<sale>>
               /\ targets' = targets
      BY <1>4
    <2> DEFINE refund == Refund("return", n, sale, sale.lines[k],
                                ReturnStamp(sale.at, lag), sale.source)
    <2>2. CASE ~Returnable(sale, lag)
      BY <1>2, <1>3, <2>1, <2>2
    <2>3. CASE Returnable(sale, lag)
      <3>1. receipts' = Append(one, refund)
        BY <1>1, <2>1, <2>3, TwoMore
      <3>2. /\ refund.kind = "return" /\ refund.parent = n
            /\ refund.at = ReturnStamp(sale.at, lag)
        BY DEF Refund
      <3>3. refund.at \in Int /\ refund.at > sale.at
        BY <3>2, ReturnAfter
      <3>4. IsSale(one, n) /\ n \notin targets
        BY <1>2 DEF IsSale, Book
      <3>5. \A m \in DOMAIN one : IsRefund(one, m) => one[m].parent # n
        <4> SUFFICES ASSUME NEW m \in DOMAIN one, IsRefund(one, m) PROVE one[m].parent # n
          OBVIOUS
        <4>1. m \in DOMAIN receipts /\ one[m] = receipts[m]
          BY <1>2 DEF IsRefund
        <4>2. Refers(receipts, targets, m)
          BY <4>1 DEF IsRefund, Book
        <4>3. QED BY <1>2, <4>1, <4>2 DEF Refers, IsSale
      <3>6. KeyedInWindow(refund, one[n])
        BY <3>2 DEF KeyedInWindow
      <3> HIDE DEF refund, one
      <3>7. Book(Append(one, refund), targets)
        BY <1>2, <1>3, <3>2, <3>3, <3>4, <3>5, <3>6, RefundEntered
      <3>8. QED BY <2>1, <3>1, <3>7
    <2>4. QED BY <2>2, <2>3
  <1>5. CASE /\ receipts' = Append(receipts, sale)
             /\ targets' = IF Targetable(sale) THEN targets \cup {n} ELSE targets
    BY <1>3, <1>5
  <1>6. QED BY <1>4, <1>5 DEF Aftermath

\* The tracker's rows follow the movements.
LEMMA StockKeeps ==
    ASSUME StockRowOnce, NEW units, Stock(units)
    PROVE  StockRowOnce'
  BY DEF StockRowOnce, Stock, Units

LEMMA SoftwareKeeps ==
    ASSUME SalesInv, StockRowOnce, SoftwareSale
    PROVE  SalesInv' /\ StockRowOnce'
  <1> DEFINE Sold(s, c, basket, trade, chooses, taken) ==
          LET at == Stamp(day, s)
              due == Total(basket) - Offset(Total(basket), trade)
              spent == Spent(c, Grant(trade), due, chooses)
          IN  /\ clock' = s
              /\ Credit(c, at, Grant(trade), spent)
              /\ Stock(UnitsOf(basket) \cup taken)
              /\ Aftermath(Sale(at, c, basket, trade, spent), Len(receipts) + 1)
  <1>a. \E s \in Drawn, c \in Customers \cup {Anonymous} :
        \E basket \in {b \in Baskets : UnitsOf(b) \subseteq Software},
           trade \in TradeIns(c), chooses \in BOOLEAN :
        \E taken \in TakenIn(trade, Software) : Sold(s, c, basket, trade, chooses, taken)
    BY Zenon DEF SoftwareSale
  <1> HIDE DEF Sold
  <1>b. PICK s, c, basket, trade, chooses, taken :
            s \in Drawn /\ Sold(s, c, basket, trade, chooses, taken)
    BY <1>a
  <1>1. /\ clock' = s
        /\ Stock(UnitsOf(basket) \cup taken)
        /\ Aftermath(Sale(Stamp(day, s), c, basket, trade,
                          Spent(c, Grant(trade), Total(basket) - Offset(Total(basket), trade), chooses)),
                     Len(receipts) + 1)
    BY <1>b DEF Sold
  <1> DEFINE spent == Spent(c, Grant(trade), Total(basket) - Offset(Total(basket), trade), chooses)
             sale == Sale(Stamp(day, s), c, basket, trade, spent)
  <1>2. s \in 0..(Seconds - 1) /\ s \in Int /\ day \in Int
    BY <1>b, <1>1, DaysNat DEF SalesInv, Drawn
  <1>3. sale.kind = "sale" /\ sale.at = Stamp(day, s) /\ Stamp(day, s) \in Int
    BY <1>2, StampInt DEF Sale
  <1>4. Aftermath(sale, Len(receipts) + 1)
    BY <1>1
  <1> HIDE DEF sale
  <1>5. Book(receipts', targets')
    BY <1>3, <1>4, AftermathKeeps DEF SalesInv
  <1>6. StockRowOnce'
    BY <1>1, StockKeeps
  <1>7. day' = day /\ pass' = pass /\ pass = "software" /\ clock' = s
    BY <1>1 DEF SoftwareSale
  <1>8. QED BY <1>2, <1>5, <1>6, <1>7 DEF SalesInv

LEMMA HardwareKeeps ==
    ASSUME SalesInv, StockRowOnce, HardwareSale
    PROVE  SalesInv' /\ StockRowOnce'
  <1>1. PICK s, c, basket, trade, taken :
          /\ s \in Drawn
          /\ clock' = s
          /\ Stock(UnitsOf(basket) \cup taken)
          /\ receipts' = Append(receipts, Sale(Stamp(day, s), c, basket, trade, 0))
    BY DEF HardwareSale
  <1> DEFINE sale == Sale(Stamp(day, s), c, basket, trade, 0)
  <1>2. s \in 0..(Seconds - 1) /\ s \in Int /\ day \in Int
    BY <1>1, DaysNat DEF SalesInv, Drawn
  <1>3. sale.kind = "sale" /\ sale.at = Stamp(day, s) /\ Stamp(day, s) \in Int
    BY <1>2, StampInt DEF Sale
  <1>4. receipts' = Append(receipts, sale) /\ day' = day /\ pass' = pass /\ targets' = targets
        /\ clock' = s /\ pass # "fraud"
    BY <1>1 DEF HardwareSale
  <1> HIDE DEF sale
  <1>5. Book(receipts', targets')
    BY <1>3, <1>4, SaleEntered DEF SalesInv
  <1>6. StockRowOnce'
    BY <1>1, StockKeeps
  <1>7. QED BY <1>2, <1>4, <1>5, <1>6 DEF SalesInv

LEMMA KeyedKeeps ==
    ASSUME SalesInv, StockRowOnce, KeyedRefund
    PROVE  SalesInv' /\ StockRowOnce'
  <1> DEFINE at == Coarse(Midnight(day) + Seconds - 1)
  <1>1. PICK n \in targets :
          /\ Stale(n)
          /\ targets' = targets \ {n}
          /\ receipts' = Append(receipts, Refund("keyed", n, receipts[n],
                                                 receipts[n].lines[1], at, SourceSystem(at)))
    BY DEF KeyedRefund
  <1> DEFINE refund == Refund("keyed", n, receipts[n], receipts[n].lines[1], at, SourceSystem(at))
  <1>2. /\ pass = "fraud" /\ FraudDay /\ day \in Nat
        /\ UNCHANGED <<day, pass, clock, stockRows, moved>>
    BY DaysNat DEF KeyedRefund, SalesInv
  <1>3. at \in Int /\ DayOf(at) = day /\ at >= Midnight(day)
    BY <1>2, KeyedDate DEF FraudDay
  <1> HIDE DEF at
  <1>4. refund.kind = "keyed" /\ refund.parent = n /\ refund.at = at
    BY DEF Refund
  <1>5. IsSale(receipts, n) /\ receipts[n].at \in Int
    BY DEF SalesInv, Book, IsSale
  <1>6. Midnight(day - FraudLagMin) <= Midnight(day) /\ Midnight(day) \in Int
        /\ Midnight(day - FraudLagMin) \in Int
    BY <1>2, DaysNat, MidnightMonotone, MidnightInt
  <1>7. at > receipts[n].at
    BY <1>1, <1>3, <1>5, <1>6 DEF Stale
  <1>8. receipts[n].at >= Midnight(day - FraudLagMax)
    BY <1>2 DEF SalesInv
  <1>9. KeyedInWindow(refund, receipts[n])
    BY <1>1, <1>2, <1>3, <1>4, <1>8 DEF KeyedInWindow, Stale, FraudDay
  <1>10. \A m \in DOMAIN receipts : IsRefund(receipts, m) => receipts[m].parent # n
    BY DEF SalesInv, Book, Refers
  <1> HIDE DEF refund
  <1>11. Book(receipts', targets')
    <2>1. receipts' = Append(receipts, refund) /\ targets' = targets \ {n}
      BY <1>1 DEF refund
    <2>2. Book(Append(receipts, refund), targets \ {n})
      BY <1>3, <1>4, <1>5, <1>7, <1>9, <1>10, RefundEntered DEF SalesInv
    <2>3. QED BY <2>1, <2>2
  <1>12. \A m \in targets' : receipts'[m] = receipts[m]
    <2>1. PICK S : receipts \in Seq(S)
      BY DEF SalesInv, Book
    <2>2. \A m \in DOMAIN receipts : receipts'[m] = receipts[m]
      BY <1>1, <2>1, OneMore
    <2>3. QED BY <1>1, <2>2 DEF SalesInv, Book, IsSale
  <1>13. StockRowOnce'
    BY <1>2 DEF StockRowOnce, Units
  <1>14. QED BY <1>1, <1>2, <1>11, <1>12, <1>13 DEF SalesInv, FraudDay

LEMMA EndPassKeeps ==
    ASSUME SalesInv, StockRowOnce, EndPass
    PROVE  SalesInv' /\ StockRowOnce'
  <1>1. UNCHANGED <<receipts, stockRows, moved>> /\ clock' = 0 /\ targets' \subseteq targets
    BY DEF EndPass
  <1>2. Book(receipts', targets')
    BY <1>1, FewerOpen DEF SalesInv
  <1>3. StockRowOnce'
    BY <1>1 DEF StockRowOnce, Units
  <1>4. day' \in OpenDay..CloseDay /\ clock' \in 0..(Seconds - 1)
    BY <1>1, DaysNat DEF EndPass, SalesInv
  <1>5. pass' = "fraud" /\ FraudDay' =>
            \A n \in targets' : receipts'[n].at >= Midnight(day' - FraudLagMax)
    BY <1>1 DEF EndPass, FraudDay
  <1>6. QED BY <1>2, <1>3, <1>4, <1>5 DEF SalesInv

LEMMA SalesInvariance == Spec => [](SalesInv /\ StockRowOnce)
  <1>1. (SalesInv /\ StockRowOnce) /\ [Next]_vars => (SalesInv /\ StockRowOnce)'
    <2> SUFFICES ASSUME SalesInv, StockRowOnce, [Next]_vars
                 PROVE  SalesInv' /\ StockRowOnce'
      OBVIOUS
    <2>1. CASE Next
      BY <2>1, SoftwareKeeps, HardwareKeeps, KeyedKeeps, EndPassKeeps DEF Next
    <2>2. CASE UNCHANGED vars
      BY <2>2 DEF vars, SalesInv, StockRowOnce, FraudDay, Units
    <2>3. QED BY <2>1, <2>2
  <1>2. QED BY SalesInit, <1>1, PTL DEF Spec

\* "a parent is never refunded twice" (emitTransaction): by a return, by a keyed
\* refund or by both, for every catalogue, calendar and fraud window.
THEOREM NeverRefundedTwice == Spec => []RefundedOnce
  <1>1. SalesInv => RefundedOnce
    <2> SUFFICES ASSUME SalesInv, NEW m \in Refunds, NEW n \in Refunds,
                        receipts[m].parent = receipts[n].parent
                 PROVE  m = n
      BY DEF RefundedOnce
    <2>1. IsRefund(receipts, m) /\ IsRefund(receipts, n)
      BY DEF Refunds, Sales, IsRefund
    <2>2. QED BY <2>1 DEF SalesInv, Book, IsRefund
  <1>2. QED BY SalesInvariance, <1>1, PTL

\* emitReturn and emitKeyedRefund date a refund after its sale, at every
\* precision of the dates.
THEOREM RefundsFollowSales == Spec => []RefundAfterSale
  <1>1. SalesInv => RefundAfterSale
    <2> SUFFICES ASSUME SalesInv, NEW n \in Refunds
                 PROVE  receipts[n].at > receipts[receipts[n].parent].at
      BY DEF RefundAfterSale
    <2>1. IsRefund(receipts, n)
      BY DEF Refunds, Sales, IsRefund
    <2>2. QED BY <2>1 DEF SalesInv, Book, IsRefund, Refers
  <1>2. QED BY SalesInvariance, <1>1, PTL

\* emitKeyedRefund only refers to sales of FraudLagMin to FraudLagMax days ago,
\* and only inside the fraud window.
THEOREM KeyedRefundsAreStale == Spec => []KeyedIsStale
  <1>1. SalesInv => KeyedIsStale
    <2> SUFFICES ASSUME SalesInv, NEW n \in Refunds, receipts[n].kind = "keyed"
                 PROVE  LET d == DayOf(receipts[n].at) IN
                        /\ FraudStart <= d /\ d <= FraudEnd
                        /\ receipts[receipts[n].parent].at < Midnight(d - FraudLagMin)
                        /\ receipts[receipts[n].parent].at >= Midnight(d - FraudLagMax)
      BY DEF KeyedIsStale
    <2>1. IsRefund(receipts, n)
      BY DEF Refunds, Sales, IsRefund
    <2>2. KeyedInWindow(receipts[n], receipts[receipts[n].parent])
      BY <2>1 DEF SalesInv, Book, IsRefund, Refers
    <2>3. QED BY <2>2 DEF KeyedInWindow
  <1>2. QED BY SalesInvariance, <1>1, PTL

\* inventoryTracker: every unit that moves has one inventory row, whichever pass
\* touches it first.
THEOREM EachUnitOneRow == Spec => []StockRowOnce
  BY SalesInvariance, PTL

-----------------------------------------------------------------------------
(* The ledger.  Amounts are summed over sets of its rows.                      *)

Amounts(l) == [k \in DOMAIN l |-> l[k].amount]
AmountOver(l, S) == SumFunctionOnSet(Amounts(l), S)

\* A sum over rows, as the model writes it, is that of the amounts.
AmountSums(l, S, g) ==
    g = [s \in SUBSET S |-> IF s = {} THEN 0
                            ELSE l[CHOOSE k \in s : TRUE].amount + g[s \ {CHOOSE k \in s : TRUE}]]

LEMMA AmountsSummed ==
    ASSUME NEW l, NEW S \in SUBSET DOMAIN l
    PROVE  MapThenSumSet(LAMBDA k : l[k].amount, S) = AmountOver(l, S)
  <1> DEFINE a == Amounts(l)
  <1>1. MapThenSumSet(LAMBDA k : l[k].amount, S) = (CHOOSE g : AmountSums(l, S, g))[S]
    BY DEF MapThenSumSet, MapThenFoldSet, AmountSums
  <1>2. ASSUME NEW s \in SUBSET S, s # {}
        PROVE  l[CHOOSE k \in s : TRUE].amount = a[Picked(s)] /\ Picked(s) = CHOOSE k \in s : TRUE
    <2>1. Picked(s) \in s
      BY <1>2, PickedIsMember
    <2>2. QED BY <2>1 DEF Amounts, Picked
  <1>3. \A g : AmountSums(l, S, g) <=> PartialSums(a, S, g)
    <2> TAKE g
    <2>1. \A s \in SUBSET S :
              (IF s = {} THEN 0
               ELSE l[CHOOSE k \in s : TRUE].amount + g[s \ {CHOOSE k \in s : TRUE}])
              = (IF s = {} THEN 0 ELSE a[Picked(s)] + g[s \ {Picked(s)}])
      <3> TAKE s \in SUBSET S
      <3>1. CASE s = {}
        BY <3>1
      <3>2. CASE s # {}
        <4>1. l[CHOOSE k \in s : TRUE].amount = a[Picked(s)] /\ Picked(s) = CHOOSE k \in s : TRUE
          BY <1>2, <3>2
        <4> HIDE DEF a
        <4>2. QED BY <3>2, <4>1
      <3>3. QED BY <3>1, <3>2
    <2>2. QED BY <2>1, Zenon DEF AmountSums, PartialSums
  <1>4. (CHOOSE g : AmountSums(l, S, g)) = (CHOOSE g : PartialSums(a, S, g))
    BY <1>3, Zenon
  <1>5. QED BY <1>1, <1>4, SumIsPartialSum DEF AmountOver

Rows == [customer : Customers, at : Int, amount : Int, tx : Nat]

LEMMA LedgerRows ==
    ASSUME NEW l \in Seq(Rows), NEW S \in SUBSET DOMAIN l
    PROVE  /\ IsFiniteSet(S)
           /\ \A k \in S : Amounts(l)[k] \in Int /\ Amounts(l)[k] = l[k].amount
           /\ AmountOver(l, S) \in Int
  <1>1. IsFiniteSet(S)
    <2>1. DOMAIN l = 1..Len(l) /\ Len(l) \in Nat
      OBVIOUS
    <2>2. IsFiniteSet(1..Len(l))
      BY <2>1, FS_Interval
    <2>3. QED BY <2>1, <2>2, FS_Subset
  <1>2. \A k \in S : Amounts(l)[k] \in Int /\ Amounts(l)[k] = l[k].amount
    <2> SUFFICES ASSUME NEW k \in S PROVE Amounts(l)[k] \in Int /\ Amounts(l)[k] = l[k].amount
      OBVIOUS
    <2>1. k \in DOMAIN l /\ l[k] \in Rows
      OBVIOUS
    <2>2. QED BY <2>1 DEF Amounts, Rows
  <1>3. QED BY <1>1, <1>2, SumType DEF AmountOver

\* One row more leaves the sums over the old rows, and adds its amount to others.
LEMMA RowAdds ==
    ASSUME NEW l \in Seq(Rows), NEW row \in Rows, NEW S \in SUBSET DOMAIN l
    PROVE  /\ AmountOver(Append(l, row), S) = AmountOver(l, S)
           /\ AmountOver(Append(l, row), S \cup {Len(l) + 1}) = AmountOver(l, S) + row.amount
  <1> DEFINE m == Append(l, row)
             n == Len(l) + 1
  <1>1. /\ m \in Seq(Rows) /\ DOMAIN m = DOMAIN l \cup {n} /\ n \notin DOMAIN l
        /\ \A i \in DOMAIN l : m[i] = l[i]
        /\ m[n] = row
    OBVIOUS
  <1> HIDE DEF m, n
  <1>2. S \in SUBSET DOMAIN m /\ n \in DOMAIN m /\ n \notin S
    BY <1>1
  <1>3. /\ IsFiniteSet(S) /\ \A k \in S : Amounts(m)[k] \in Int
        /\ \A k \in S : Amounts(m)[k] = Amounts(l)[k]
        /\ AmountOver(l, S) \in Int
    <2>1. IsFiniteSet(S) /\ \A k \in S : Amounts(m)[k] \in Int /\ Amounts(m)[k] = m[k].amount
      BY <1>1, <1>2, LedgerRows
    <2>2. AmountOver(l, S) \in Int /\ \A k \in S : Amounts(l)[k] = l[k].amount
      BY LedgerRows
    <2>3. QED BY <1>1, <2>1, <2>2
  <1>4. AmountOver(m, S) = AmountOver(l, S)
    BY <1>3, SumOfEqual DEF AmountOver
  <1>5. Amounts(m)[n] = row.amount /\ row.amount \in Int
    BY <1>1, <1>2 DEF Amounts, Rows
  <1>6. AmountOver(m, S \cup {n}) = AmountOver(m, S) + Amounts(m)[n]
    <2> DEFINE a == Amounts(m)
    <2>1. (\A k \in S : a[k] \in Int) /\ a[n] \in Int
      BY <1>3, <1>5
    <2> HIDE DEF a
    <2>2. SumFunctionOnSet(a, S \cup {n}) = SumFunctionOnSet(a, S) + a[n]
      BY <1>2, <1>3, <2>1, SumAdd
    <2>3. QED BY <2>2 DEF AmountOver, a
  <1>7. QED BY <1>4, <1>5, <1>6 DEF m, n

\* What a customer held after n rows.
Held(l, c, n) == AmountOver(l, {k \in 1..n : l[k].customer = c})

\* The ledger l and the balances agree, nobody ever held less than nothing in
\* the order of generation, and what is spent is dated after all before it.
Credits(l, bal) ==
    /\ l \in Seq(Rows)
    /\ bal \in [Customers -> Nat]
    /\ \A c \in Customers : bal[c] = Held(l, c, Len(l))
    /\ \A c \in Customers, n \in 0..Len(l) : Held(l, c, n) >= 0
    /\ \A j, k \in DOMAIN l : j < k /\ l[k].amount < 0 => l[j].at <= l[k].at

LEMMA RowEntered ==
    ASSUME NEW l, NEW bal, Credits(l, bal), NEW row \in Rows,
           bal[row.customer] + row.amount >= 0,
           row.amount < 0 => \A k \in DOMAIN l : l[k].at <= row.at
    PROVE  Credits(Append(l, row), [bal EXCEPT ![row.customer] = @ + row.amount])
  <1> DEFINE m == Append(l, row)
             new == [bal EXCEPT ![row.customer] = @ + row.amount]
             n == Len(l) + 1
  <1>1. /\ m \in Seq(Rows) /\ Len(m) = n /\ DOMAIN m = DOMAIN l \cup {n} /\ n \notin DOMAIN l
        /\ DOMAIN l = 1..Len(l) /\ Len(l) \in Nat
        /\ \A i \in DOMAIN l : m[i] = l[i]
        /\ m[n] = row /\ l \in Seq(Rows)
    BY DEF Credits
  <1>2. row.customer \in Customers /\ row.amount \in Int
    BY DEF Rows
  <1>3. new \in [Customers -> Nat]
    BY <1>2 DEF Credits
  <1> HIDE DEF m
  <1>4. ASSUME NEW c \in Customers, NEW i \in 0..Len(l) PROVE Held(m, c, i) = Held(l, c, i)
    <2> DEFINE S == {k \in 1..i : l[k].customer = c}
    <2>1. S \in SUBSET DOMAIN l
      BY <1>1
    <2>2. {k \in 1..i : m[k].customer = c} = S
      BY <1>1
    <2>3. AmountOver(m, S) = AmountOver(l, S)
      <3> HIDE DEF S
      <3>1. QED BY <1>1, <2>1, RowAdds DEF m
    <2>4. QED BY <2>2, <2>3 DEF Held
  <1>5. ASSUME NEW c \in Customers
        PROVE  Held(m, c, n) = Held(l, c, Len(l)) + IF c = row.customer THEN row.amount ELSE 0
    <2> DEFINE S == {k \in 1..Len(l) : l[k].customer = c}
    <2>1. S \in SUBSET DOMAIN l
      BY <1>1
    <2>2. AmountOver(m, S) = AmountOver(l, S) /\ AmountOver(m, S \cup {n}) = AmountOver(l, S) + row.amount
          /\ AmountOver(l, S) \in Int
      <3> HIDE DEF S
      <3>1. QED BY <1>1, <2>1, RowAdds, LedgerRows DEF m
    <2>3. {k \in 1..n : m[k].customer = c} = IF c = row.customer THEN S \cup {n} ELSE S
      BY <1>1
    <2>4. Held(m, c, n) = IF c = row.customer THEN AmountOver(m, S \cup {n}) ELSE AmountOver(m, S)
      BY <2>3 DEF Held
    <2>5. Held(l, c, Len(l)) = AmountOver(l, S)
      BY DEF Held
    <2> HIDE DEF S
    <2>6. QED BY <2>2, <2>4, <2>5
  <1>6. \A c \in Customers : new[c] = Held(m, c, Len(m))
    <2> SUFFICES ASSUME NEW c \in Customers PROVE new[c] = Held(m, c, n)
      BY <1>1
    <2>1. bal[c] = Held(l, c, Len(l)) /\ bal[c] \in Nat
      BY DEF Credits
    <2>2. new[c] = bal[c] + IF c = row.customer THEN row.amount ELSE 0
      BY <1>2, <2>1 DEF Credits
    <2>3. QED BY <1>5, <2>1, <2>2
  <1>7. \A c \in Customers, i \in 0..Len(m) : Held(m, c, i) >= 0
    <2> SUFFICES ASSUME NEW c \in Customers, NEW i \in 0..Len(m) PROVE Held(m, c, i) >= 0
      OBVIOUS
    <2>1. CASE i \in 0..Len(l)
      BY <1>4, <2>1 DEF Credits
    <2>2. CASE i = n
      <3>1. new[c] \in Nat
        BY <1>3
      <3>2. QED BY <1>1, <1>6, <2>2, <3>1
    <2>3. QED BY <1>1, <2>1, <2>2
  <1>8. \A j, k \in DOMAIN m : j < k /\ m[k].amount < 0 => m[j].at <= m[k].at
    <2> SUFFICES ASSUME NEW j \in DOMAIN m, NEW k \in DOMAIN m, j < k, m[k].amount < 0
                 PROVE  m[j].at <= m[k].at
      OBVIOUS
    <2>1. j \in DOMAIN l /\ m[j] = l[j]
      BY <1>1
    <2>2. CASE k \in DOMAIN l
      BY <1>1, <2>1, <2>2 DEF Credits
    <2>3. CASE k = n
      BY <1>1, <2>1, <2>3
    <2>4. QED BY <1>1, <2>2, <2>3
  <1>9. Credits(m, new)
    BY <1>1, <1>3, <1>6, <1>7, <1>8 DEF Credits
  <1>10. QED BY <1>9 DEF m

\* What receipt n granted, and what it spent.
GrantedOn(l, n) == AmountOver(l, {k \in DOMAIN l : l[k].tx = n /\ l[k].amount > 0})
SpentOn(l, n) == -AmountOver(l, {k \in DOMAIN l : l[k].tx = n /\ l[k].amount < 0})

LEMMA LedgerCounts ==
    ASSUME NEW l \in Seq(Rows), NEW n \in Nat
    PROVE  GrantedOn(l, n) \in Int /\ SpentOn(l, n) \in Int
  <1> DEFINE G == {k \in DOMAIN l : l[k].tx = n /\ l[k].amount > 0}
             S == {k \in DOMAIN l : l[k].tx = n /\ l[k].amount < 0}
  <1>1. G \in SUBSET DOMAIN l /\ S \in SUBSET DOMAIN l
    OBVIOUS
  <1>2. GrantedOn(l, n) = AmountOver(l, G) /\ SpentOn(l, n) = -AmountOver(l, S)
    BY DEF GrantedOn, SpentOn
  <1> HIDE DEF G, S
  <1>3. QED BY <1>1, <1>2, LedgerRows

LEMMA RowCounted ==
    ASSUME NEW l \in Seq(Rows), NEW row \in Rows, NEW n \in Nat
    PROVE  /\ GrantedOn(l, n) \in Int /\ SpentOn(l, n) \in Int
           /\ GrantedOn(Append(l, row), n) = GrantedOn(l, n) +
                  IF row.tx = n /\ row.amount > 0 THEN row.amount ELSE 0
           /\ SpentOn(Append(l, row), n) = SpentOn(l, n) +
                  IF row.tx = n /\ row.amount < 0 THEN -row.amount ELSE 0
  <1> DEFINE m == Append(l, row)
             i == Len(l) + 1
             G == {k \in DOMAIN l : l[k].tx = n /\ l[k].amount > 0}
             S == {k \in DOMAIN l : l[k].tx = n /\ l[k].amount < 0}
  <1>1. /\ DOMAIN m = DOMAIN l \cup {i} /\ i \notin DOMAIN l
        /\ \A k \in DOMAIN l : m[k] = l[k]
        /\ m[i] = row
    OBVIOUS
  <1>2. G \in SUBSET DOMAIN l /\ S \in SUBSET DOMAIN l
    OBVIOUS
  <1>3. row.amount \in Int
    BY DEF Rows
  <1> HIDE DEF m, i
  <1>4. {k \in DOMAIN m : m[k].tx = n /\ m[k].amount > 0}
            = IF row.tx = n /\ row.amount > 0 THEN G \cup {i} ELSE G
    BY <1>1
  <1>5. {k \in DOMAIN m : m[k].tx = n /\ m[k].amount < 0}
            = IF row.tx = n /\ row.amount < 0 THEN S \cup {i} ELSE S
    BY <1>1
  <1>6. /\ GrantedOn(m, n) = IF row.tx = n /\ row.amount > 0 THEN AmountOver(m, G \cup {i})
                             ELSE AmountOver(m, G)
        /\ SpentOn(m, n) = - IF row.tx = n /\ row.amount < 0 THEN AmountOver(m, S \cup {i})
                             ELSE AmountOver(m, S)
    BY <1>4, <1>5 DEF GrantedOn, SpentOn
  <1>7. GrantedOn(l, n) = AmountOver(l, G) /\ SpentOn(l, n) = -AmountOver(l, S)
    BY DEF GrantedOn, SpentOn
  <1> HIDE DEF G, S
  <1>8. /\ AmountOver(m, G) = AmountOver(l, G) /\ AmountOver(m, S) = AmountOver(l, S)
        /\ AmountOver(m, G \cup {i}) = AmountOver(l, G) + row.amount
        /\ AmountOver(m, S \cup {i}) = AmountOver(l, S) + row.amount
        /\ AmountOver(l, G) \in Int /\ AmountOver(l, S) \in Int
    BY <1>2, RowAdds, LedgerRows DEF m, i
  <1>9. /\ GrantedOn(m, n) = GrantedOn(l, n) +
                  IF row.tx = n /\ row.amount > 0 THEN row.amount ELSE 0
        /\ SpentOn(m, n) = SpentOn(l, n) +
                  IF row.tx = n /\ row.amount < 0 THEN -row.amount ELSE 0
        /\ GrantedOn(l, n) \in Int /\ SpentOn(l, n) \in Int
    BY <1>3, <1>6, <1>7, <1>8
  <1>10. QED BY <1>9 DEF m

\* The rows m add to l what receipt n granted and spent, all dated at.
Adds(l, m, at, granted, spent, n) ==
    /\ m \in Seq(Rows) /\ DOMAIN l \subseteq DOMAIN m
    /\ \A k \in DOMAIN m : (m[k].tx = n /\ m[k].at = at) \/ (k \in DOMAIN l /\ m[k] = l[k])
    /\ \A i \in Nat : /\ GrantedOn(m, i) = GrantedOn(l, i) + IF i = n THEN granted ELSE 0
                      /\ SpentOn(m, i) = SpentOn(l, i) + IF i = n THEN spent ELSE 0

LEMMA GrantEntered ==
    ASSUME NEW l, NEW bal, Credits(l, bal), NEW c \in Customers, NEW at \in Int, NEW n \in Nat,
           NEW granted \in Nat \ {0}
    PROVE  /\ Credits(Append(l, LedgerRow(c, at, granted, n)), [bal EXCEPT ![c] = @ + granted])
           /\ Adds(l, Append(l, LedgerRow(c, at, granted, n)), at, granted, 0, n)
  <1> DEFINE row == LedgerRow(c, at, granted, n)
             m == Append(l, row)
  <1>1. /\ row \in Rows /\ row.customer = c /\ row.at = at /\ row.amount = granted /\ row.tx = n
    BY DEF LedgerRow, Rows
  <1> HIDE DEF row
  <1>2. l \in Seq(Rows) /\ bal[c] \in Nat
    BY DEF Credits
  <1>3. Credits(m, [bal EXCEPT ![c] = @ + granted])
    BY <1>1, <1>2, RowEntered
  <1>4. \A i \in Nat : /\ GrantedOn(m, i) = GrantedOn(l, i) + IF i = n THEN granted ELSE 0
                       /\ SpentOn(m, i) = SpentOn(l, i) + IF i = n THEN 0 ELSE 0
    <2> TAKE i \in Nat
    <2>1. /\ GrantedOn(l, i) \in Int /\ SpentOn(l, i) \in Int
          /\ GrantedOn(m, i) = GrantedOn(l, i) + IF row.tx = i /\ row.amount > 0 THEN row.amount ELSE 0
          /\ SpentOn(m, i) = SpentOn(l, i) + IF row.tx = i /\ row.amount < 0 THEN -row.amount ELSE 0
      BY <1>1, <1>2, RowCounted
    <2> HIDE DEF m
    <2>2. QED BY <1>1, <2>1
  <1>5. /\ m \in Seq(Rows) /\ DOMAIN l \subseteq DOMAIN m
        /\ \A k \in DOMAIN m : (m[k].tx = n /\ m[k].at = at) \/ (k \in DOMAIN l /\ m[k] = l[k])
    <2>1. /\ m \in Seq(Rows) /\ DOMAIN m = DOMAIN l \cup {Len(l) + 1}
          /\ \A k \in DOMAIN l : m[k] = l[k]
          /\ m[Len(l) + 1] = row
      BY <1>1, <1>2
    <2> HIDE DEF m
    <2>2. ASSUME NEW k \in DOMAIN m PROVE (m[k].tx = n /\ m[k].at = at) \/ (k \in DOMAIN l /\ m[k] = l[k])
      <3>1. CASE k \in DOMAIN l
        BY <2>1, <3>1
      <3>2. CASE k = Len(l) + 1
        BY <1>1, <2>1, <3>2
      <3>3. QED BY <2>1, <3>1, <3>2
    <2>3. QED BY <2>1, <2>2
  <1>6. Adds(l, m, at, granted, 0, n)
    BY <1>4, <1>5 DEF Adds
  <1>7. QED BY <1>3, <1>6 DEF row

LEMMA SpendEntered ==
    ASSUME NEW l, NEW bal, Credits(l, bal), NEW c \in Customers, NEW at \in Int, NEW n \in Nat,
           NEW spent \in Nat \ {0}, spent <= bal[c], \A k \in DOMAIN l : l[k].at <= at
    PROVE  /\ Credits(Append(l, LedgerRow(c, at, -spent, n)), [bal EXCEPT ![c] = @ - spent])
           /\ Adds(l, Append(l, LedgerRow(c, at, -spent, n)), at, 0, spent, n)
  <1> DEFINE row == LedgerRow(c, at, -spent, n)
             m == Append(l, row)
  <1>1. /\ row \in Rows /\ row.customer = c /\ row.at = at /\ row.amount = -spent /\ row.tx = n
    BY DEF LedgerRow, Rows
  <1> HIDE DEF row
  <1>2. l \in Seq(Rows) /\ bal[c] \in Nat /\ bal \in [Customers -> Nat]
    BY DEF Credits
  <1>3. Credits(m, [bal EXCEPT ![c] = @ - spent])
    <2>1. bal[row.customer] + row.amount >= 0 /\ \A k \in DOMAIN l : l[k].at <= row.at
      BY <1>1, <1>2
    <2>2. Credits(m, [bal EXCEPT ![row.customer] = @ + row.amount])
      BY <1>1, <2>1, RowEntered
    <2>3. [bal EXCEPT ![row.customer] = @ + row.amount] = [bal EXCEPT ![c] = @ - spent]
      BY <1>1, <1>2
    <2>4. QED BY <2>2, <2>3
  <1>4. \A i \in Nat : /\ GrantedOn(m, i) = GrantedOn(l, i) + IF i = n THEN 0 ELSE 0
                       /\ SpentOn(m, i) = SpentOn(l, i) + IF i = n THEN spent ELSE 0
    <2> TAKE i \in Nat
    <2>1. /\ GrantedOn(l, i) \in Int /\ SpentOn(l, i) \in Int
          /\ GrantedOn(m, i) = GrantedOn(l, i) + IF row.tx = i /\ row.amount > 0 THEN row.amount ELSE 0
          /\ SpentOn(m, i) = SpentOn(l, i) + IF row.tx = i /\ row.amount < 0 THEN -row.amount ELSE 0
      BY <1>1, <1>2, RowCounted
    <2> HIDE DEF m
    <2>2. QED BY <1>1, <2>1
  <1>5. /\ m \in Seq(Rows) /\ DOMAIN l \subseteq DOMAIN m
        /\ \A k \in DOMAIN m : (m[k].tx = n /\ m[k].at = at) \/ (k \in DOMAIN l /\ m[k] = l[k])
    <2>1. /\ m \in Seq(Rows) /\ DOMAIN m = DOMAIN l \cup {Len(l) + 1}
          /\ \A k \in DOMAIN l : m[k] = l[k]
          /\ m[Len(l) + 1] = row
      BY <1>1, <1>2
    <2> HIDE DEF m
    <2>2. ASSUME NEW k \in DOMAIN m PROVE (m[k].tx = n /\ m[k].at = at) \/ (k \in DOMAIN l /\ m[k] = l[k])
      <3>1. CASE k \in DOMAIN l
        BY <2>1, <3>1
      <3>2. CASE k = Len(l) + 1
        BY <1>1, <2>1, <3>2
      <3>3. QED BY <2>1, <3>1, <3>2
    <2>3. QED BY <2>1, <2>2
  <1>6. Adds(l, m, at, 0, spent, n)
    BY <1>4, <1>5 DEF Adds
  <1>7. QED BY <1>3, <1>6 DEF row

\* The rows of a receipt: what it grants and spends, as far as the balance goes.
LEMMA EntriesEntered ==
    ASSUME NEW l, NEW bal, Credits(l, bal), NEW c \in Customers \cup {Anonymous},
           NEW at \in Int, NEW n \in Nat, NEW granted \in Nat, NEW spent \in Nat,
           c = Anonymous => granted = 0 /\ spent = 0,
           c \in Customers => spent <= bal[c] + granted,
           spent > 0 => \A k \in DOMAIN l : l[k].at <= at
    PROVE  LET m == l \o Entries(c, at, granted, spent, n) IN
           /\ Credits(m, IF c = Anonymous THEN bal ELSE [bal EXCEPT ![c] = @ + granted - spent])
           /\ Adds(l, m, at, granted, spent, n)
  <1> DEFINE G == LedgerRow(c, at, granted, n)
             S == LedgerRow(c, at, -spent, n)
             new == IF c = Anonymous THEN bal ELSE [bal EXCEPT ![c] = @ + granted - spent]
             m == l \o Entries(c, at, granted, spent, n)
  <1>1. Anonymous \notin Customers /\ l \in Seq(Rows) /\ bal \in [Customers -> Nat]
    BY SalesAssumption DEF SalesAssumption, Credits
  <1>2. /\ l \o (<< >> \o << >>) = l /\ l \o (<<G>> \o << >>) = Append(l, G)
        /\ l \o (<< >> \o <<S>>) = Append(l, S) /\ l \o (<<G>> \o <<S>>) = Append(Append(l, G), S)
    <2> HIDE DEF G, S
    <2> DEFINE E == Rows \cup {G, S}
    <2>1. l \in Seq(E) /\ <<G>> \in Seq(E) /\ <<S>> \in Seq(E) /\ << >> \in Seq(E) /\ G \in E /\ S \in E
      BY <1>1
    <2>2. Append(l, G) \in Seq(E)
      BY <2>1
    <2> HIDE DEF E
    <2>3. /\ << >> \o << >> = << >> /\ <<G>> \o << >> = <<G>> /\ << >> \o <<S>> = <<S>> /\ l \o << >> = l
      BY <2>1, ConcatEmptySeq
    <2>4. l \o <<G>> = Append(l, G) /\ l \o <<S>> = Append(l, S)
          /\ Append(l, G) \o <<S>> = Append(Append(l, G), S)
      BY <2>1, <2>2, AppendIsConcat
    <2>5. l \o (<<G>> \o <<S>>) = (l \o <<G>>) \o <<S>>
      BY <2>1, ConcatAssociative
    <2>6. QED BY <2>3, <2>4, <2>5
  <1>3. CASE granted = 0 /\ spent = 0
    <2>1. m = l /\ new = bal
      BY <1>1, <1>2, <1>3 DEF Entries
    <2>2. \A i \in Nat : GrantedOn(l, i) \in Int /\ SpentOn(l, i) \in Int
      BY <1>1, LedgerCounts
    <2>3. Adds(l, l, at, 0, 0, n)
      BY <1>1, <2>2 DEF Adds
    <2>4. QED BY <1>3, <2>1, <2>3
  <1>4. CASE granted > 0 /\ spent = 0
    <2>1. c \in Customers /\ m = Append(l, G) /\ new = [bal EXCEPT ![c] = @ + granted]
      BY <1>1, <1>2, <1>4 DEF Entries
    <2>2. Credits(Append(l, G), [bal EXCEPT ![c] = @ + granted]) /\ Adds(l, Append(l, G), at, granted, 0, n)
      BY <1>4, <2>1, GrantEntered
    <2>3. QED BY <1>4, <2>1, <2>2
  <1>5. CASE granted = 0 /\ spent > 0
    <2>1. c \in Customers /\ m = Append(l, S) /\ new = [bal EXCEPT ![c] = @ - spent] /\ spent <= bal[c]
      <3>1. c \in Customers /\ bal[c] \in Nat /\ c # Anonymous
        BY <1>1, <1>5
      <3>2. new = [bal EXCEPT ![c] = @ - spent] /\ spent <= bal[c]
        <4>1. bal[c] + granted - spent = bal[c] - spent /\ spent <= bal[c]
          BY <1>5, <3>1
        <4>2. new = [bal EXCEPT ![c] = bal[c] + granted - spent]
          BY <3>1
        <4>3. QED BY <4>1, <4>2
      <3>3. m = Append(l, S)
        BY <1>2, <1>5 DEF Entries
      <3>4. QED BY <3>1, <3>2, <3>3
    <2>2. Credits(Append(l, S), [bal EXCEPT ![c] = @ - spent]) /\ Adds(l, Append(l, S), at, 0, spent, n)
      <3>1. c \in Customers /\ spent \in Nat \ {0} /\ spent <= bal[c] /\ \A k \in DOMAIN l : l[k].at <= at
        BY <1>5, <2>1
      <3> HIDE DEF m, new
      <3>2. QED BY <3>1, SpendEntered
    <2>3. QED BY <1>5, <2>1, <2>2
  <1>6. CASE granted > 0 /\ spent > 0
    <2> DEFINE k == Append(l, G)
               mid == [bal EXCEPT ![c] = @ + granted]
    <2>1. c \in Customers /\ m = Append(k, S) /\ new = [mid EXCEPT ![c] = @ - spent]
          /\ spent <= mid[c]
      <3>1. c \in Customers /\ bal[c] \in Nat /\ c # Anonymous
        BY <1>1, <1>6
      <3>2. mid[c] = bal[c] + granted /\ spent <= mid[c] /\ mid \in [Customers -> Int]
        BY <1>1, <3>1
      <3>3. new = [bal EXCEPT ![c] = @ + granted - spent]
        BY <3>1
      <3>4. new = [mid EXCEPT ![c] = @ - spent]
        <4>1. bal[c] + granted - spent = mid[c] - spent
          BY <3>1, <3>2
        <4>2. new = [bal EXCEPT ![c] = mid[c] - spent]
          BY <3>3, <4>1
        <4> DEFINE x == mid[c] - spent
        <4>3. [bal EXCEPT ![c] = x] = [mid EXCEPT ![c] = x]
          <5> HIDE DEF x
          <5>1. QED BY <1>1
        <4>4. QED BY <4>2, <4>3
      <3>5. m = Append(k, S)
        BY <1>2, <1>6 DEF Entries
      <3>6. QED BY <3>1, <3>2, <3>4, <3>5
    <2>2. Credits(k, mid) /\ Adds(l, k, at, granted, 0, n)
      <3>1. c \in Customers /\ granted \in Nat \ {0}
        BY <1>6, <2>1
      <3> HIDE DEF m, new
      <3>2. QED BY <3>1, GrantEntered
    <2>3. \A i \in DOMAIN k : k[i].at <= at
      BY <1>1, <1>6, <2>2 DEF Adds
    <2> HIDE DEF k, mid
    <2>4. Credits(m, new) /\ Adds(k, m, at, 0, spent, n)
      BY <1>6, <2>1, <2>2, <2>3, SpendEntered
    <2> HIDE DEF m, new
    <2>5. Adds(l, m, at, granted, spent, n)
      <3>1. \A i \in Nat : GrantedOn(l, i) \in Int /\ SpentOn(l, i) \in Int
        BY <1>1, LedgerCounts
      <3>2. /\ m \in Seq(Rows) /\ DOMAIN l \subseteq DOMAIN m
            /\ \A i \in DOMAIN m : (m[i].tx = n /\ m[i].at = at) \/ (i \in DOMAIN l /\ m[i] = l[i])
        BY <2>2, <2>4 DEF Adds
      <3>3. \A i \in Nat : /\ GrantedOn(m, i) = GrantedOn(l, i) + IF i = n THEN granted ELSE 0
                           /\ SpentOn(m, i) = SpentOn(l, i) + IF i = n THEN spent ELSE 0
        <4> TAKE i \in Nat
        <4>1. /\ GrantedOn(k, i) = GrantedOn(l, i) + IF i = n THEN granted ELSE 0
              /\ SpentOn(k, i) = SpentOn(l, i) + IF i = n THEN 0 ELSE 0
              /\ GrantedOn(m, i) = GrantedOn(k, i) + IF i = n THEN 0 ELSE 0
              /\ SpentOn(m, i) = SpentOn(k, i) + IF i = n THEN spent ELSE 0
          BY <2>2, <2>4 DEF Adds
        <4>2. GrantedOn(l, i) \in Int /\ SpentOn(l, i) \in Int
          BY <3>1
        <4>3. QED BY <4>1, <4>2
      <3>4. QED BY <3>2, <3>3 DEF Adds
    <2>6. QED BY <2>4, <2>5 DEF m, new
  <1>7. QED BY <1>3, <1>4, <1>5, <1>6

-----------------------------------------------------------------------------
(* What a sale is settled with.                                                *)

PriceSums(basket, S, g) ==
    g = [s \in SUBSET S |-> IF s = {} THEN 0
                            ELSE Price[basket[CHOOSE k \in s : TRUE]] + g[s \ {CHOOSE k \in s : TRUE}]]

LEMMA TotalType ==
    ASSUME NEW basket \in Baskets
    PROVE  Total(basket) \in Nat
  <1> DEFINE S == DOMAIN basket
             p == [k \in S |-> Price[basket[k]]]
  <1>1. basket \in Seq(Units) /\ Price \in [Units -> Nat]
    BY SalesAssumption DEF SalesAssumption, Units
  <1>2. IsFiniteSet(S) /\ \A k \in S : p[k] \in Nat
    <2>1. S = 1..Len(basket) /\ Len(basket) \in Nat
      BY <1>1
    <2>2. IsFiniteSet(1..Len(basket))
      BY <2>1, FS_Interval
    <2>3. \A k \in S : basket[k] \in Units
      BY <1>1
    <2>4. QED BY <1>1, <2>1, <2>2, <2>3
  <1>3. Total(basket) = (CHOOSE g : PriceSums(basket, S, g))[S]
    BY DEF Total, MapThenSumSet, MapThenFoldSet, PriceSums
  <1>4. ASSUME NEW s \in SUBSET S, s # {}
        PROVE  Price[basket[CHOOSE k \in s : TRUE]] = p[Picked(s)] /\ Picked(s) = CHOOSE k \in s : TRUE
    <2>1. Picked(s) \in s
      BY <1>4, PickedIsMember
    <2>2. QED BY <2>1 DEF Picked
  <1> HIDE DEF p
  <1>5. \A g : PriceSums(basket, S, g) <=> PartialSums(p, S, g)
    <2> TAKE g
    <2>1. \A s \in SUBSET S :
              (IF s = {} THEN 0
               ELSE Price[basket[CHOOSE k \in s : TRUE]] + g[s \ {CHOOSE k \in s : TRUE}])
              = (IF s = {} THEN 0 ELSE p[Picked(s)] + g[s \ {Picked(s)}])
      <3> TAKE s \in SUBSET S
      <3>1. CASE s = {}
        BY <3>1
      <3>2. CASE s # {}
        <4>1. Price[basket[CHOOSE k \in s : TRUE]] = p[Picked(s)] /\ Picked(s) = CHOOSE k \in s : TRUE
          BY <1>4, <3>2
        <4>2. QED BY <3>2, <4>1
      <3>3. QED BY <3>1, <3>2
    <2>2. QED BY <2>1, Zenon DEF PriceSums, PartialSums
  <1>6. (CHOOSE g : PriceSums(basket, S, g)) = (CHOOSE g : PartialSums(p, S, g))
    BY <1>5, Zenon
  <1>7. Total(basket) = SumFunctionOnSet(p, S)
    BY <1>3, <1>6, SumIsPartialSum
  <1>8. QED BY <1>2, <1>7, SumNonNegative

LEMMA MinBound ==
    ASSUME NEW a \in Int, NEW b \in Int
    PROVE  Min({a, b}) \in {a, b} /\ Min({a, b}) <= a /\ Min({a, b}) <= b
  <1>1. \E x \in {a, b} : \A y \in {a, b} : x <= y
    <2>1. CASE a <= b
      BY <2>1
    <2>2. CASE b <= a
      BY <2>2
    <2>3. QED BY <2>1, <2>2
  <1>2. Min({a, b}) \in {a, b} /\ \A y \in {a, b} : Min({a, b}) <= y
    BY <1>1 DEF Min
  <1>3. QED BY <1>2

\* A trade-in is paid out once: as an offset of the receipt or as a grant.
LEMMA PaidOutOnce ==
    ASSUME NEW c, NEW trade \in TradeIns(c), NEW total \in Nat
    PROVE  /\ Offset(total, trade) \in Nat /\ Offset(total, trade) <= total
           /\ Grant(trade) \in Nat /\ (c = Anonymous => Grant(trade) = 0)
           /\ Offset(total, trade) + Grant(trade) <= trade.value
  <1>1. /\ trade.value \in Nat /\ trade.payout \in {"none", "cash", "credit"}
        /\ (c = Anonymous => trade.payout # "credit")
    <2>1. CASE trade = NoTradeIn
      BY <2>1 DEF NoTradeIn
    <2>2. CASE trade \in [value : TradeValues,
                          payout : IF c = Anonymous THEN {"cash"} ELSE {"cash", "credit"}]
      <3>1. trade.value \in TradeValues /\ trade.payout \in IF c = Anonymous THEN {"cash"} ELSE {"cash", "credit"}
        BY <2>2
      <3>2. TradeValues \subseteq Nat
        BY SalesAssumption DEF SalesAssumption
      <3>3. QED BY <3>1, <3>2
    <2>3. QED BY <2>1, <2>2 DEF TradeIns
  <1>2. /\ Min({trade.value, total}) \in {trade.value, total}
        /\ Min({trade.value, total}) <= trade.value /\ Min({trade.value, total}) <= total
    <2>1. PICK v \in Nat : v = trade.value
      BY <1>1
    <2>2. Min({v, total}) \in {v, total} /\ Min({v, total}) <= v /\ Min({v, total}) <= total
      BY MinBound
    <2>3. QED BY <2>1, <2>2
  <1>3. QED BY <1>1, <1>2 DEF Offset, Grant

LEMMA RedeemBound ==
    ASSUME NEW held \in Nat, NEW due \in Nat
    PROVE  Redeem(held, due) \in Nat /\ Redeem(held, due) <= held /\ Redeem(held, due) <= due
  <1>1. /\ Min({held, due}) \in Nat /\ Min({held, due}) <= held /\ Min({held, due}) <= due
    <2>1. Min({held, due}) \in {held, due} /\ Min({held, due}) <= held /\ Min({held, due}) <= due
      BY MinBound
    <2>2. QED BY <2>1
  <1>2. PICK u \in Nat : u = Unit /\ u > 0
    BY SalesAssumption DEF SalesAssumption
  <1>3. \A r \in Nat : r % u \in Nat /\ r % u <= r
    BY <1>2
  <1>4. QED BY <1>1, <1>2, <1>3 DEF Redeem

LEMMA SpentBound ==
    ASSUME balance \in [Customers -> Nat], NEW c \in Customers \cup {Anonymous},
           NEW granted \in Nat, NEW due \in Nat, NEW chooses
    PROVE  /\ Spent(c, granted, due, chooses) \in Nat /\ Spent(c, granted, due, chooses) <= due
           /\ c = Anonymous => Spent(c, granted, due, chooses) = 0
           /\ c \in Customers => Spent(c, granted, due, chooses) <= balance[c] + granted
  <1>1. CASE c # Anonymous /\ due > 0 /\ balance[c] + granted > 0 /\ (granted > 0 \/ chooses)
    <2>1. Spent(c, granted, due, chooses) = Redeem(balance[c] + granted, due)
          /\ balance[c] + granted \in Nat
      BY <1>1 DEF Spent
    <2>2. QED BY <1>1, <2>1, RedeemBound
  <1>2. CASE ~(c # Anonymous /\ due > 0 /\ balance[c] + granted > 0 /\ (granted > 0 \/ chooses))
    <2>1. Spent(c, granted, due, chooses) = 0
      BY <1>2 DEF Spent
    <2>2. c \in Customers => balance[c] \in Nat
      OBVIOUS
    <2>3. QED BY <2>1, <2>2
  <1>3. QED BY <1>1, <1>2

\* A sale of which so much was granted and spent is settled.
SettledBy(r, granted, spent) ==
    /\ r.tender \in Nat /\ r.offset \in Nat
    /\ r.total = r.offset + r.tender + spent
    /\ r.offset + granted <= r.trade.value

LEMMA SaleSettled ==
    ASSUME NEW c, NEW trade \in TradeIns(c), NEW basket \in Baskets, NEW at, NEW spent \in Nat,
           spent <= Total(basket) - Offset(Total(basket), trade)
    PROVE  SettledBy(Sale(at, c, basket, trade, spent), Grant(trade), spent)
  <1>1. Total(basket) \in Nat
    BY TotalType
  <1> DEFINE total == Total(basket)
             offset == Offset(total, trade)
             sale == Sale(at, c, basket, trade, spent)
  <1>2. offset \in Nat /\ offset <= total /\ Grant(trade) \in Nat /\ offset + Grant(trade) <= trade.value
    BY <1>1, PaidOutOnce
  <1>3. sale.tender = total - offset - spent /\ sale.offset = offset /\ sale.total = total
        /\ sale.trade = trade
    BY DEF Sale
  <1> HIDE DEF total, offset, sale
  <1>4. total \in Nat
    BY <1>1 DEF total
  <1>5. spent <= total - offset
    BY DEF total, offset
  <1>6. SettledBy(sale, Grant(trade), spent)
    BY <1>2, <1>3, <1>4, <1>5 DEF SettledBy
  <1>7. QED BY <1>6 DEF sale

-----------------------------------------------------------------------------
(* Later sales are not dated earlier, however coarse the dates are.            *)

LEMMA CoarseMonotone ==
    ASSUME NEW t \in Int, NEW u \in Int, t <= u
    PROVE  Coarse(t) <= Coarse(u)
  <1>1. PICK p \in Nat : p = Precision /\ p > 0
    BY SalesAssumption DEF SalesAssumption
  <1>2. PICK f \in Int : f = Midnight(FineDay)
    BY MidnightInt, DaysNat
  <1>3. CASE u >= f
    BY <1>2, <1>3, CoarseBefore DEF Coarse
  <1>4. CASE u < f
    <2> DEFINE a == t \div p
               b == u \div p
    <2>1. a \in Int /\ b \in Int /\ t - (t % p) = p * a /\ u - (u % p) = p * b
          /\ p * a <= t /\ u < p * (b + 1)
      BY <1>1
    <2> HIDE DEF a, b
    <2>2. a <= b
      <3>1. p * a < p * (b + 1)
        BY <1>1, <2>1
      <3>2. QED BY <1>1, <2>1, <3>1
    <2>3. p * a <= p * b
      BY <1>1, <2>1, <2>2
    <2>4. QED BY <1>1, <1>2, <1>4, <2>1, <2>3 DEF Coarse
  <1>5. QED BY <1>2, <1>3, <1>4

LEMMA StampMonotone ==
    ASSUME NEW d \in Int, NEW s \in Int, NEW e \in Int, NEW t \in Int,
           Midnight(d) + s <= Midnight(e) + t
    PROVE  Stamp(d, s) <= Stamp(e, t)
  <1>1. Midnight(d) + s \in Int /\ Midnight(e) + t \in Int /\ Midnight(OpenDay) \in Int
    BY MidnightInt, DaysNat
  <1>2. Coarse(Midnight(d) + s) <= Coarse(Midnight(e) + t)
    BY <1>1, CoarseMonotone
  <1>3. Coarse(Midnight(d) + s) \in Int /\ Coarse(Midnight(e) + t) \in Int
    BY <1>1, CoarseBefore
  <1>4. QED BY <1>1, <1>2, <1>3 DEF Stamp

-----------------------------------------------------------------------------
(* The invariant of the ledger, and the steps that keep it.                    *)

\* No credit is dated later than this.
Latest == Stamp(day, IF pass = "software" THEN clock ELSE Seconds - 1)

LedgerInv ==
    /\ Credits(ledger, balance)
    /\ \A k \in DOMAIN ledger : ledger[k].at <= Latest /\ ledger[k].tx <= Len(receipts)
    /\ \A n \in DOMAIN receipts : receipts[n].kind = "sale" =>
           SettledBy(receipts[n], GrantedOn(ledger, n), SpentOn(ledger, n))

LEMMA LedgerInit == Init => LedgerInv
  <1> SUFFICES ASSUME Init PROVE LedgerInv
    OBVIOUS
  <1>1. ledger = << >> /\ DOMAIN ledger = {} /\ Len(ledger) = 0 /\ ledger \in Seq(Rows)
        /\ receipts = << >> /\ DOMAIN receipts = {}
    BY DEF Init
  <1>2. \A c \in Customers, n \in 0..0 : Held(ledger, c, n) = 0
    <2> SUFFICES ASSUME NEW c \in Customers PROVE Held(ledger, c, 0) = 0
      OBVIOUS
    <2>1. {k \in 1..0 : ledger[k].customer = c} = {}
      OBVIOUS
    <2>2. QED BY <2>1, SumOfNone DEF Held, AmountOver
  <1>3. balance \in [Customers -> Nat] /\ \A c \in Customers : balance[c] = 0
    BY DEF Init
  <1>4. Credits(ledger, balance)
    BY <1>1, <1>2, <1>3 DEF Credits
  <1>5. QED BY <1>1, <1>4 DEF LedgerInv

\* One receipt more, or a sale and its return.
Grown(rs, r, qs) ==
    \/ qs = Append(rs, r)
    \/ \E q : qs = Append(Append(rs, r), q) /\ q.kind # "sale"

LEMMA ReceiptsGrow ==
    ASSUME NEW rs, NEW S, rs \in Seq(S), NEW r, NEW qs, Grown(rs, r, qs)
    PROVE  /\ Len(rs) \in Nat /\ Len(qs) >= Len(rs) + 1 /\ Len(qs) \in Nat
           /\ DOMAIN rs = 1..Len(rs)
           /\ \A n \in DOMAIN qs : \/ n \in DOMAIN rs /\ qs[n] = rs[n]
                                   \/ n = Len(rs) + 1 /\ qs[n] = r
                                   \/ qs[n].kind # "sale"
  <1>1. CASE qs = Append(rs, r)
    <2>1. qs \in Seq(S \cup {r})
      BY <1>1, OneMore
    <2>2. Len(qs) = Len(rs) + 1
      BY <1>1
    <2>3. QED BY <1>1, <2>1, <2>2, OneMore
  <1>2. CASE \E q : qs = Append(Append(rs, r), q) /\ q.kind # "sale"
    <2>1. PICK q : qs = Append(Append(rs, r), q) /\ q.kind # "sale"
      BY <1>2
    <2> DEFINE ps == Append(rs, r)
    <2>2. ps \in Seq(S \cup {r}) /\ DOMAIN ps = DOMAIN rs \cup {Len(rs) + 1} /\ Len(ps) = Len(rs) + 1
          /\ (\A n \in DOMAIN rs : ps[n] = rs[n]) /\ ps[Len(rs) + 1] = r
          /\ DOMAIN rs = 1..Len(rs) /\ Len(rs) \in Nat
      BY OneMore
    <2> HIDE DEF ps
    <2>3. DOMAIN qs = DOMAIN ps \cup {Len(ps) + 1} /\ (\A n \in DOMAIN ps : qs[n] = ps[n])
          /\ qs[Len(ps) + 1] = q /\ Len(qs) = Len(ps) + 1
      <3>1. qs = Append(ps, q)
        BY <2>1 DEF ps
      <3>2. QED BY <2>2, <3>1, OneMore
    <2>4. QED BY <2>1, <2>2, <2>3
  <1>3. QED BY <1>1, <1>2 DEF Grown

\* A sale to c with what it grants and spends, in either pass.
LEMMA SaleKeepsLedger ==
    ASSUME SalesInv, LedgerInv, NEW S, receipts \in Seq(S),
           NEW s \in 0..(Seconds - 1), pass = "software" => clock <= s,
           NEW c \in Customers \cup {Anonymous}, NEW granted \in Nat, NEW spent \in Nat,
           c = Anonymous => granted = 0 /\ spent = 0,
           c \in Customers => spent <= balance[c] + granted,
           spent > 0 => pass = "software",
           NEW sale, SettledBy(sale, granted, spent),
           Credit(c, Stamp(day, s), granted, spent),
           Grown(receipts, sale, receipts'),
           clock' = s, day' = day, pass' = pass
    PROVE  LedgerInv'
  <1> DEFINE at == Stamp(day, s)
             n == Len(receipts) + 1
  <1>1. day \in Int /\ s \in Int /\ Seconds \in Int /\ clock \in Int /\ clock <= Seconds - 1 /\ s <= Seconds - 1
    BY DaysNat DEF SalesInv
  <1>2. at \in Int /\ Latest \in Int /\ Latest' \in Int
    <2>1. Seconds - 1 \in Int
      BY <1>1
    <2>2. at \in Int /\ Stamp(day, clock) \in Int /\ Stamp(day, Seconds - 1) \in Int
      BY <1>1, <2>1, StampInt
    <2>3. Latest' = Stamp(day, IF pass = "software" THEN s ELSE Seconds - 1)
      BY DEF Latest
    <2>4. QED BY <2>2, <2>3 DEF Latest
  <1>3. at <= Latest' /\ Latest <= Latest' /\ (pass = "software" => Latest <= at)
    <2>1. Midnight(day) \in Int
      BY <1>1, MidnightInt
    <2>2. /\ Stamp(day, s) <= Stamp(day, s) /\ Stamp(day, s) <= Stamp(day, Seconds - 1)
          /\ pass = "software" => Stamp(day, clock) <= Stamp(day, s)
          /\ Stamp(day, Seconds - 1) <= Stamp(day, Seconds - 1)
      BY <1>1, <2>1, StampMonotone
    <2>3. QED BY <2>2 DEF Latest
  <1>4. /\ Len(receipts) \in Nat /\ n \in Nat /\ Len(receipts') >= n /\ Len(receipts') \in Nat
        /\ DOMAIN receipts = 1..Len(receipts)
        /\ \A i \in DOMAIN receipts' : \/ i \in DOMAIN receipts /\ receipts'[i] = receipts[i]
                                       \/ i = n /\ receipts'[i] = sale
                                       \/ receipts'[i].kind # "sale"
    BY ReceiptsGrow
  <1>5. \A k \in DOMAIN ledger : ledger[k].at <= Latest /\ ledger[k].at \in Int
        /\ ledger[k].tx <= Len(receipts) /\ ledger[k].tx \in Nat
    <2> SUFFICES ASSUME NEW k \in DOMAIN ledger
                 PROVE  ledger[k].at <= Latest /\ ledger[k].at \in Int
                        /\ ledger[k].tx <= Len(receipts) /\ ledger[k].tx \in Nat
      OBVIOUS
    <2>1. ledger[k] \in Rows
      BY DEF LedgerInv, Credits
    <2>2. QED BY <2>1 DEF LedgerInv, Rows
  <1> HIDE DEF at, n
  <1>6. /\ Credits(ledger', balance') /\ Adds(ledger, ledger', at, granted, spent, n)
    <2>1. /\ ledger' = ledger \o Entries(c, at, granted, spent, n)
          /\ balance' = IF c = Anonymous THEN balance ELSE [balance EXCEPT ![c] = @ + granted - spent]
      BY DEF Credit, at, n
    <2>2. spent > 0 => \A k \in DOMAIN ledger : ledger[k].at <= at
      BY <1>2, <1>3, <1>5
    <2>3. Credits(ledger, balance)
      BY DEF LedgerInv
    <2>4. QED BY <1>2, <1>4, <2>1, <2>2, <2>3, EntriesEntered
  <1>7. \A k \in DOMAIN ledger' : ledger'[k].at <= Latest' /\ ledger'[k].tx <= Len(receipts')
    <2> SUFFICES ASSUME NEW k \in DOMAIN ledger'
                 PROVE  ledger'[k].at <= Latest' /\ ledger'[k].tx <= Len(receipts')
      OBVIOUS
    <2>1. CASE ledger'[k].tx = n /\ ledger'[k].at = at
      BY <1>3, <1>4, <2>1
    <2>2. CASE k \in DOMAIN ledger /\ ledger'[k] = ledger[k]
      BY <1>2, <1>3, <1>4, <1>5, <2>2 DEF n
    <2>3. QED BY <1>6, <2>1, <2>2 DEF Adds
  <1>8. ASSUME NEW i \in DOMAIN receipts', receipts'[i].kind = "sale"
        PROVE  SettledBy(receipts'[i], GrantedOn(ledger', i), SpentOn(ledger', i))
    <2>1. CASE i \in DOMAIN receipts /\ receipts'[i] = receipts[i]
      <3>1. i \in Nat /\ i # n
        BY <1>4, <2>1 DEF n
      <3>2. GrantedOn(ledger, i) \in Int /\ SpentOn(ledger, i) \in Int
        BY <3>1, LedgerCounts DEF LedgerInv, Credits
      <3>3. GrantedOn(ledger', i) = GrantedOn(ledger, i) /\ SpentOn(ledger', i) = SpentOn(ledger, i)
        BY <1>6, <3>1, <3>2 DEF Adds
      <3>4. QED BY <1>8, <2>1, <3>3 DEF LedgerInv
    <2>2. CASE i = n /\ receipts'[i] = sale
      <3>1. GrantedOn(ledger, n) = 0 /\ SpentOn(ledger, n) = 0
        <4>1. \A k \in DOMAIN ledger : ledger[k].tx # n
          BY <1>4, <1>5 DEF n
        <4>2. {k \in DOMAIN ledger : ledger[k].tx = n /\ ledger[k].amount > 0} = {}
              /\ {k \in DOMAIN ledger : ledger[k].tx = n /\ ledger[k].amount < 0} = {}
          BY <4>1
        <4>3. AmountOver(ledger, {}) = 0
          BY SumOfNone DEF AmountOver
        <4>4. GrantedOn(ledger, n) = AmountOver(ledger, {}) /\ SpentOn(ledger, n) = -AmountOver(ledger, {})
          BY <4>2 DEF GrantedOn, SpentOn
        <4>5. QED BY <4>3, <4>4
      <3>2. GrantedOn(ledger', n) = granted /\ SpentOn(ledger', n) = spent
        <4>1. GrantedOn(ledger', n) = GrantedOn(ledger, n) + granted
              /\ SpentOn(ledger', n) = SpentOn(ledger, n) + spent
          BY <1>4, <1>6 DEF Adds
        <4>2. QED BY <3>1, <4>1
      <3>3. QED BY <2>2, <3>2
    <2>3. QED BY <1>4, <1>8, <2>1, <2>2
  <1>9. QED BY <1>6, <1>7, <1>8 DEF LedgerInv

\* What follows a sale: the receipt, and a return of it.
LEMMA SaleAndReturn ==
    ASSUME Book(receipts, targets), NEW sale, NEW n, Aftermath(sale, n)
    PROVE  Grown(receipts, sale, receipts')
  <1>1. PICK S : receipts \in Seq(S)
    BY DEF Book
  <1>2. CASE receipts' = Append(receipts, sale)
    BY <1>2 DEF Grown
  <1>3. CASE \E lag \in 1..MaxLag, k \in DOMAIN sale.lines :
               receipts' = receipts \o
                     IF Returnable(sale, lag)
                     THEN <<sale, Refund("return", n, sale, sale.lines[k],
                                         ReturnStamp(sale.at, lag), sale.source)>>
                     ELSE <<sale>>
    <2>1. PICK lag \in 1..MaxLag, k \in DOMAIN sale.lines :
               receipts' = receipts \o
                     IF Returnable(sale, lag)
                     THEN <<sale, Refund("return", n, sale, sale.lines[k],
                                         ReturnStamp(sale.at, lag), sale.source)>>
                     ELSE <<sale>>
      BY <1>3
    <2> DEFINE refund == Refund("return", n, sale, sale.lines[k],
                                ReturnStamp(sale.at, lag), sale.source)
    <2>2. refund.kind # "sale"
      BY DEF Refund
    <2>3. receipts' = receipts \o <<sale, refund>> \/ receipts' = receipts \o <<sale>>
      BY <2>1
    <2> HIDE DEF refund
    <2>4. receipts \o <<sale>> = Append(receipts, sale)
      BY <1>1, OneMore
    <2>5. receipts \o <<sale, refund>> = Append(Append(receipts, sale), refund)
      BY <1>1, TwoMore
    <2>6. QED BY <2>2, <2>3, <2>4, <2>5 DEF Grown
  <1>4. QED BY <1>2, <1>3 DEF Aftermath

LEMMA SoftwareKeepsLedger ==
    ASSUME SalesInv, LedgerInv, SoftwareSale
    PROVE  LedgerInv'
  <1> DEFINE Sold(s, c, basket, trade, chooses, taken) ==
          LET at == Stamp(day, s)
              due == Total(basket) - Offset(Total(basket), trade)
              spent == Spent(c, Grant(trade), due, chooses)
          IN  /\ clock' = s
              /\ Credit(c, at, Grant(trade), spent)
              /\ Stock(UnitsOf(basket) \cup taken)
              /\ Aftermath(Sale(at, c, basket, trade, spent), Len(receipts) + 1)
  <1>a. \E s \in Drawn, c \in Customers \cup {Anonymous} :
        \E basket \in {b \in Baskets : UnitsOf(b) \subseteq Software},
           trade \in TradeIns(c), chooses \in BOOLEAN :
        \E taken \in TakenIn(trade, Software) : Sold(s, c, basket, trade, chooses, taken)
    BY Zenon DEF SoftwareSale
  <1> HIDE DEF Sold
  <1>b. PICK s \in Drawn, c \in Customers \cup {Anonymous} :
        \E basket \in Baskets, trade \in TradeIns(c), chooses \in BOOLEAN :
        \E taken \in TakenIn(trade, Software) : Sold(s, c, basket, trade, chooses, taken)
    BY <1>a
  <1>c. PICK basket \in Baskets, trade \in TradeIns(c), chooses \in BOOLEAN :
        \E taken \in TakenIn(trade, Software) : Sold(s, c, basket, trade, chooses, taken)
    BY <1>b
  <1>d. PICK taken : Sold(s, c, basket, trade, chooses, taken)
    BY <1>c
  <1> DEFINE due == Total(basket) - Offset(Total(basket), trade)
             spent == Spent(c, Grant(trade), due, chooses)
             sale == Sale(Stamp(day, s), c, basket, trade, spent)
  <1>1. /\ clock' = s /\ Credit(c, Stamp(day, s), Grant(trade), spent)
        /\ Aftermath(sale, Len(receipts) + 1)
    BY <1>d DEF Sold
  <1>2. Total(basket) \in Nat
    BY TotalType
  <1>3. /\ Offset(Total(basket), trade) \in Nat /\ Offset(Total(basket), trade) <= Total(basket)
        /\ Grant(trade) \in Nat /\ (c = Anonymous => Grant(trade) = 0)
    BY <1>2, PaidOutOnce
  <1>4. due \in Nat
    BY <1>2, <1>3
  <1>5. balance \in [Customers -> Nat]
    BY DEF LedgerInv, Credits
  <1> HIDE DEF due
  <1>6. /\ spent \in Nat /\ spent <= due /\ (c = Anonymous => spent = 0)
        /\ c \in Customers => spent <= balance[c] + Grant(trade)
    BY <1>3, <1>4, <1>5, SpentBound
  <1> HIDE DEF spent
  <1>7. SettledBy(sale, Grant(trade), spent)
    BY <1>6, SaleSettled DEF due
  <1> HIDE DEF sale
  <1>8. PICK S : receipts \in Seq(S)
    BY DEF SalesInv, Book
  <1>9. Grown(receipts, sale, receipts')
    BY <1>1, SaleAndReturn DEF SalesInv
  <1>10. /\ s \in 0..(Seconds - 1) /\ clock <= s
         /\ pass = "software" /\ day' = day /\ pass' = pass
    <2>1. day' = day /\ pass' = pass /\ pass = "software"
      BY DEF SoftwareSale
    <2>2. QED BY <2>1, DaysNat DEF Drawn, SalesInv
  <1>11. QED BY <1>1, <1>3, <1>6, <1>7, <1>8, <1>9, <1>10, SaleKeepsLedger

LEMMA HardwareKeepsLedger ==
    ASSUME SalesInv, LedgerInv, HardwareSale
    PROVE  LedgerInv'
  <1>1. PICK s \in Drawn, c \in Customers \cup {Anonymous} :
        \E basket \in Baskets, trade \in TradeIns(c) :
          /\ clock' = s
          /\ Credit(c, Stamp(day, s), Grant(trade), 0)
          /\ receipts' = Append(receipts, Sale(Stamp(day, s), c, basket, trade, 0))
    BY DEF HardwareSale, TradeIns
  <1>2. PICK basket \in Baskets, trade \in TradeIns(c) :
          /\ clock' = s
          /\ Credit(c, Stamp(day, s), Grant(trade), 0)
          /\ receipts' = Append(receipts, Sale(Stamp(day, s), c, basket, trade, 0))
    BY <1>1
  <1> DEFINE sale == Sale(Stamp(day, s), c, basket, trade, 0)
  <1>3. Total(basket) \in Nat
    BY TotalType
  <1>4. /\ Offset(Total(basket), trade) \in Nat /\ Offset(Total(basket), trade) <= Total(basket)
        /\ Grant(trade) \in Nat /\ (c = Anonymous => Grant(trade) = 0)
    BY <1>3, PaidOutOnce
  <1>5. SettledBy(sale, Grant(trade), 0)
    <2>1. 0 <= Total(basket) - Offset(Total(basket), trade)
      BY <1>3, <1>4
    <2>2. QED BY <2>1, SaleSettled
  <1>6. receipts' = Append(receipts, sale)
    BY <1>2
  <1> HIDE DEF sale
  <1>7. PICK S : receipts \in Seq(S)
    BY DEF SalesInv, Book
  <1>8. /\ s \in 0..(Seconds - 1) /\ pass # "software" /\ day' = day /\ pass' = pass
    <2>1. day' = day /\ pass' = pass /\ pass # "software"
      BY DEF HardwareSale
    <2>2. QED BY <2>1, DaysNat DEF Drawn, SalesInv
  <1>9. c \in Customers => 0 <= balance[c] + Grant(trade)
    BY <1>4 DEF LedgerInv, Credits
  <1>10. Grown(receipts, sale, receipts')
    BY <1>6 DEF Grown
  <1>11. QED BY <1>2, <1>4, <1>5, <1>7, <1>8, <1>9, <1>10, SaleKeepsLedger

\* A keyed refund leaves the ledger alone.
LEMMA KeyedKeepsLedger ==
    ASSUME SalesInv, LedgerInv, KeyedRefund
    PROVE  LedgerInv'
  <1>1. /\ UNCHANGED <<day, pass, clock, ledger, balance>>
        /\ \E q : receipts' = Append(receipts, q) /\ q.kind # "sale"
    BY DEF KeyedRefund, Refund
  <1>2. PICK q : receipts' = Append(receipts, q) /\ q.kind # "sale"
    BY <1>1
  <1>3. PICK S : receipts \in Seq(S)
    BY DEF SalesInv, Book
  <1>4. /\ Len(receipts) \in Nat /\ Len(receipts') \in Nat /\ Len(receipts') >= Len(receipts) + 1
        /\ \A n \in DOMAIN receipts' : \/ n \in DOMAIN receipts /\ receipts'[n] = receipts[n]
                                       \/ receipts'[n].kind # "sale"
    <2>1. Grown(receipts, q, receipts')
      BY <1>2 DEF Grown
    <2>2. QED BY <1>2, <1>3, <2>1, ReceiptsGrow
  <1>5. Latest' = Latest
    BY <1>1 DEF Latest
  <1>6. \A k \in DOMAIN ledger : ledger[k].tx \in Nat
    <2>1. \A k \in DOMAIN ledger : ledger[k] \in Rows
      BY DEF LedgerInv, Credits
    <2>2. QED BY <2>1 DEF Rows
  <1>7. QED BY <1>1, <1>4, <1>5, <1>6 DEF LedgerInv

\* The next pass, and the next day, date nothing earlier.
LEMMA EndPassKeepsLedger ==
    ASSUME SalesInv, LedgerInv, EndPass
    PROVE  LedgerInv'
  <1>1. UNCHANGED <<receipts, ledger, balance>> /\ clock' = 0
    BY DEF EndPass
  <1>2. /\ day \in Int /\ Seconds \in Int /\ clock \in Int /\ clock <= Seconds - 1 /\ day' \in Int
        /\ Seconds > 0 /\ Seconds - 1 \in Int
    <2>1. day' \in {day, day + 1}
      BY DEF EndPass
    <2>2. QED BY <2>1, DaysNat DEF SalesInv
  <1>3. Midnight(day) \in Int /\ Midnight(day') \in Int
    BY <1>2, MidnightInt
  <1>4. Latest \in Int /\ Latest' \in Int
    <2>0. 0 \in Int
      OBVIOUS
    <2>1. Stamp(day, clock) \in Int /\ Stamp(day, Seconds - 1) \in Int /\ Stamp(day', 0) \in Int
          /\ Stamp(day', Seconds - 1) \in Int
      <3>1. Stamp(day, clock) \in Int /\ Stamp(day, Seconds - 1) \in Int
        BY <1>2, StampInt
      <3>2. Stamp(day', 0) \in Int
        BY <1>2, <2>0, StampInt
      <3>3. Stamp(day', Seconds - 1) \in Int
        BY <1>2, StampInt
      <3>4. QED BY <3>1, <3>2, <3>3
    <2>2. Latest' = Stamp(day', IF pass' = "software" THEN 0 ELSE Seconds - 1)
      BY <1>1 DEF Latest
    <2>3. QED BY <2>1, <2>2 DEF Latest
  <1>5. Latest <= Latest'
    <2>1. Stamp(day, clock) <= Stamp(day, Seconds - 1)
      BY <1>2, <1>3, StampMonotone
    <2>2. Stamp(day, Seconds - 1) <= Stamp(day, Seconds - 1)
      BY <1>2, <1>3, StampMonotone
    <2>3. CASE pass' # "software"
      <3>1. day' = day
        BY <2>3 DEF EndPass
      <3>2. Latest' = Stamp(day, Seconds - 1)
        BY <2>3, <3>1 DEF Latest
      <3>3. QED BY <2>1, <2>2, <3>2 DEF Latest
    <2>4. CASE pass' = "software"
      <3>1. pass = "fraud" /\ day' = day + 1
        BY <2>4 DEF EndPass
      <3>2. Midnight(day) + (Seconds - 1) <= Midnight(day + 1) + 0
        <4>1. Midnight(day + 1) = Midnight(day) + Seconds
          BY <1>2 DEF Midnight
        <4>2. QED BY <1>2, <1>3, <4>1
      <3>3. Stamp(day, Seconds - 1) <= Stamp(day + 1, 0)
        BY <1>2, <3>2, StampMonotone
      <3>4. Latest = Stamp(day, Seconds - 1) /\ Latest' = Stamp(day + 1, 0)
        BY <1>1, <2>4, <3>1 DEF Latest
      <3>5. QED BY <3>3, <3>4
    <2>5. QED BY <2>3, <2>4
  <1>6. \A k \in DOMAIN ledger : ledger[k].at \in Int
    <2>1. \A k \in DOMAIN ledger : ledger[k] \in Rows
      BY DEF LedgerInv, Credits
    <2>2. QED BY <2>1 DEF Rows
  <1>7. \A k \in DOMAIN ledger : ledger[k].at <= Latest'
    BY <1>4, <1>5, <1>6 DEF LedgerInv
  <1>8. QED BY <1>1, <1>7 DEF LedgerInv

LEMMA LedgerInvariance == Spec => []LedgerInv
  <1>1. SalesInv /\ LedgerInv /\ [Next]_vars => LedgerInv'
    <2> SUFFICES ASSUME SalesInv, LedgerInv, [Next]_vars
                 PROVE  LedgerInv'
      OBVIOUS
    <2>1. CASE Next
      BY <2>1, SoftwareKeepsLedger, HardwareKeepsLedger, KeyedKeepsLedger, EndPassKeepsLedger DEF Next
    <2>2. CASE UNCHANGED vars
      BY <2>2 DEF vars, LedgerInv, Latest
    <2>3. QED BY <2>1, <2>2
  <1>2. QED BY LedgerInit, SalesInvariance, <1>1, PTL DEF Spec

\* "SUM(payments) = total - trade_in_offset still holds exactly" (emitTransaction,
\* emitHardwareTransaction): tender, offset and the credit spent on the ledger make
\* up every receipt, and a trade-in is not paid out twice.
THEOREM ReceiptsSettle == Spec => []Settled
  <1>1. LedgerInv => Settled
    <2> SUFFICES ASSUME LedgerInv, NEW n \in Sales
                 PROVE  LET r == receipts[n] IN
                        /\ r.tender >= 0 /\ r.offset >= 0
                        /\ r.total = r.offset + r.tender + Redeemed(n)
                        /\ r.offset + Granted(n) <= r.trade.value
      BY DEF Settled
    <2>1. Granted(n) = GrantedOn(ledger, n)
      <3> DEFINE G == {k \in DOMAIN ledger : ledger[k].tx = n /\ ledger[k].amount > 0}
      <3>1. MapThenSumSet(LAMBDA k : ledger[k].amount, G) = AmountOver(ledger, G)
        <4>1. G \in SUBSET DOMAIN ledger
          OBVIOUS
        <4> HIDE DEF G
        <4>2. QED BY <4>1, AmountsSummed
      <3>2. QED BY <3>1 DEF Granted, GrantedOn
    <2>2. Redeemed(n) = SpentOn(ledger, n)
      <3> DEFINE G == {k \in DOMAIN ledger : ledger[k].tx = n /\ ledger[k].amount < 0}
      <3>1. MapThenSumSet(LAMBDA k : ledger[k].amount, G) = AmountOver(ledger, G)
        <4>1. G \in SUBSET DOMAIN ledger
          OBVIOUS
        <4> HIDE DEF G
        <4>2. QED BY <4>1, AmountsSummed
      <3>2. QED BY <3>1 DEF Redeemed, SpentOn
    <2>3. SettledBy(receipts[n], GrantedOn(ledger, n), SpentOn(ledger, n))
      BY DEF LedgerInv, Sales
    <2>4. QED BY <2>1, <2>2, <2>3 DEF SettledBy
  <1>2. QED BY LedgerInvariance, <1>1, PTL

\* Rows dated up to row k hold, of its customer, the rows up to the last that
\* spends, and grants besides.
LEMMA DatedPrefix ==
    ASSUME NEW l, NEW bal, Credits(l, bal), NEW k \in DOMAIN l
    PROVE  AmountOver(l, {j \in DOMAIN l : /\ l[j].customer = l[k].customer
                                           /\ \/ l[j].at < l[k].at
                                              \/ l[j].at = l[k].at /\ j <= k}) >= 0
  <1> DEFINE c == l[k].customer
             P == {j \in DOMAIN l : /\ l[j].customer = l[k].customer
                                    /\ \/ l[j].at < l[k].at
                                       \/ l[j].at = l[k].at /\ j <= k}
             N == {j \in P : l[j].amount < 0}
  <1>1. /\ l \in Seq(Rows) /\ DOMAIN l = 1..Len(l) /\ Len(l) \in Nat
        /\ \A j \in DOMAIN l : l[j] \in Rows /\ l[j].at \in Int /\ l[j].amount \in Int
        /\ c \in Customers
    <2>1. l \in Seq(Rows)
      BY DEF Credits
    <2>2. \A j \in DOMAIN l : l[j] \in Rows
      BY <2>1
    <2>3. QED BY <2>1, <2>2 DEF Rows
  <1>2. P \in SUBSET DOMAIN l /\ N \subseteq P
    OBVIOUS
  <1>3. \E m \in 0..Len(l) : /\ {j \in 1..m : l[j].customer = c} \subseteq P
                             /\ \A j \in P : j > m => l[j].amount >= 0
    <2>1. CASE N = {}
      <3>1. {j \in 1..0 : l[j].customer = c} = {}
        OBVIOUS
      <3>2. \A j \in P : l[j].amount >= 0
        BY <1>1, <2>1
      <3>3. QED BY <1>1, <3>1, <3>2
    <2>2. CASE N # {}
      <3>1. N \subseteq 0..Len(l) /\ Len(l) \in Nat
        BY <1>1
      <3>2. PICK m \in N : \A j \in N : j <= m
        <4> HIDE DEF N
        <4>1. QED BY <2>2, <3>1, GreatestOfNaturals
      <3>3. m \in DOMAIN l /\ l[m].amount < 0 /\ l[m].customer = c
            /\ (l[m].at < l[k].at \/ (l[m].at = l[k].at /\ m <= k))
        <4>1. m \in P /\ l[m].amount < 0
          OBVIOUS
        <4>2. QED BY <4>1
      <3>4. ASSUME NEW j \in 1..m, l[j].customer = c PROVE j \in P
        <4>1. j \in DOMAIN l
          BY <1>1, <3>3
        <4>2. j = m \/ l[j].at <= l[m].at
          <5>1. j \in Int /\ m \in Int /\ j <= m
            BY <1>1, <3>3
          <5>2. j < m => l[j].at <= l[m].at
            BY <3>3, <4>1 DEF Credits
          <5>3. QED BY <5>1, <5>2
        <4>3. l[j].at \in Int /\ l[m].at \in Int /\ l[k].at \in Int /\ j \in Int /\ m \in Int /\ k \in Int
          BY <1>1, <3>3, <4>1
        <4>4. CASE j = m
          BY <4>4
        <4>5. CASE j # m
          <5>1. l[j].at < l[k].at \/ (l[j].at = l[k].at /\ j <= k)
            BY <3>3, <4>2, <4>3, <4>5
          <5>2. QED BY <3>4, <4>1, <5>1
        <4>6. QED BY <4>4, <4>5
      <3>5. \A j \in P : j > m => l[j].amount >= 0
        <4> SUFFICES ASSUME NEW j \in P, j > m PROVE l[j].amount >= 0
          OBVIOUS
        <4>1. j \notin N
          BY <1>1, <3>2, <3>3
        <4>2. QED BY <1>1, <4>1
      <3>6. m \in 0..Len(l)
        BY <1>1, <3>3
      <3>7. QED BY <3>4, <3>5, <3>6
    <2>3. QED BY <2>1, <2>2
  <1>4. PICK m \in 0..Len(l) : /\ {j \in 1..m : l[j].customer = c} \subseteq P
                               /\ \A j \in P : j > m => l[j].amount >= 0
    BY <1>3
  <1> DEFINE T == {j \in 1..m : l[j].customer = c}
  <1>5. \A j \in P \ T : l[j].amount >= 0
    BY <1>1, <1>4
  <1>6. T \in SUBSET P /\ P \ T \in SUBSET DOMAIN l
    BY <1>2, <1>4
  <1>7. AmountOver(l, T) >= 0
    <2>1. Held(l, c, m) >= 0
      BY <1>1 DEF Credits
    <2>2. QED BY <2>1 DEF Held
  <1> HIDE DEF P, T, N
  <1>8. /\ IsFiniteSet(P) /\ (\A j \in P : Amounts(l)[j] \in Int) /\ AmountOver(l, T) \in Int
        /\ IsFiniteSet(P \ T) /\ (\A j \in P \ T : Amounts(l)[j] \in Nat)
        /\ AmountOver(l, P \ T) \in Int
    <2>1. IsFiniteSet(P) /\ (\A j \in P : Amounts(l)[j] \in Int)
      BY <1>1, <1>2, LedgerRows
    <2>2. T \in SUBSET DOMAIN l
      BY <1>2, <1>6
    <2>3. AmountOver(l, T) \in Int
      BY <1>1, <2>2, LedgerRows
    <2>4. IsFiniteSet(P \ T) /\ (\A j \in P \ T : Amounts(l)[j] \in Int /\ Amounts(l)[j] = l[j].amount)
          /\ AmountOver(l, P \ T) \in Int
      BY <1>1, <1>6, LedgerRows
    <2>5. QED BY <1>5, <2>1, <2>3, <2>4
  <1>9. AmountOver(l, P) = AmountOver(l, T) + AmountOver(l, P \ T)
    BY <1>6, <1>8, SumUnion DEF AmountOver
  <1>10. AmountOver(l, P \ T) \in Nat
    BY <1>8, SumNonNegative DEF AmountOver
  <1>11. AmountOver(l, P) >= 0
    BY <1>7, <1>8, <1>9, <1>10
  <1>12. QED BY <1>11 DEF P

\* creditState.redeem spends only what the shop had granted by that date, although
\* the hardware pass grants after the software pass of the same day has been
\* generated and early dates are coarse: only software sales spend, in the order of
\* the dates, and every row before such a sale is dated no later than it.
THEOREM CreditIsGrantedFirst == Spec => []CreditNeverOverdrawn
  <1>1. LedgerInv => CreditNeverOverdrawn
    <2> SUFFICES ASSUME LedgerInv, NEW k \in DOMAIN ledger
                 PROVE  MapThenSumSet(LAMBDA j : ledger[j].amount,
                            {j \in DOMAIN ledger :
                                /\ ledger[j].customer = ledger[k].customer
                                /\ \/ ledger[j].at < ledger[k].at
                                   \/ ledger[j].at = ledger[k].at /\ j <= k}) >= 0
      BY DEF CreditNeverOverdrawn
    <2> DEFINE P == {j \in DOMAIN ledger :
                        /\ ledger[j].customer = ledger[k].customer
                        /\ \/ ledger[j].at < ledger[k].at
                           \/ ledger[j].at = ledger[k].at /\ j <= k}
    <2>1. AmountOver(ledger, P) >= 0
      BY DatedPrefix DEF LedgerInv
    <2>2. P \in SUBSET DOMAIN ledger
      OBVIOUS
    <2> HIDE DEF P
    <2>3. MapThenSumSet(LAMBDA j : ledger[j].amount, P) = AmountOver(ledger, P)
      BY <2>2, AmountsSummed
    <2>4. QED BY <2>1, <2>3 DEF P
  <1>2. QED BY LedgerInvariance, <1>1, PTL

\* The balance creditState redeems from is the sum of the ledger rows emitted.
THEOREM LedgerIsBalance == Spec => []BalanceIsLedger
  <1>1. LedgerInv => BalanceIsLedger
    <2> SUFFICES ASSUME LedgerInv, NEW c \in Customers
                 PROVE  balance[c] = MapThenSumSet(LAMBDA k : ledger[k].amount,
                                                   {k \in DOMAIN ledger : ledger[k].customer = c})
      BY DEF BalanceIsLedger
    <2> DEFINE P == {k \in DOMAIN ledger : ledger[k].customer = c}
    <2>1. balance[c] = AmountOver(ledger, P)
      <3>1. ledger \in Seq(Rows)
        BY DEF LedgerInv, Credits
      <3>2. P = {k \in 1..Len(ledger) : ledger[k].customer = c}
        BY <3>1
      <3>3. balance[c] = Held(ledger, c, Len(ledger))
        BY DEF LedgerInv, Credits
      <3>4. QED BY <3>2, <3>3 DEF Held
    <2>2. P \in SUBSET DOMAIN ledger
      OBVIOUS
    <2> HIDE DEF P
    <2>3. MapThenSumSet(LAMBDA k : ledger[k].amount, P) = AmountOver(ledger, P)
      BY <2>2, AmountsSummed
    <2>4. QED BY <2>1, <2>3 DEF P
  <1>2. QED BY LedgerInvariance, <1>1, PTL
===============================================================================
