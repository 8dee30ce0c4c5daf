SPECIFICATION Spec
CONSTANTS
    Customers = {c1}
    Anonymous = nobody
    Software = {"game"}
    Hardware = {"console"}
    Accessories = {"pad"}
    Price <- MCPrice
    Baskets <- ConsoleDeals
    TradeValues = {3}
    Unit = 1
    Seconds = 2
    Precision = 2
    FineDay = 1
    OpenDay = 0
    CloseDay = 1
    ClosureDay = 2
    EraDay = 9
    MaxLag = 1
    FraudShop = FALSE
    FraudStart = 9
    FraudEnd = 9
    FraudLagMin = 0
    FraudLagMax = 1
    FraudMax = 3
    MaxReceipts = 4
CHECK_DEADLOCK FALSE
INVARIANTS
    Settled
    CreditNeverOverdrawn
    StockRowOnce
