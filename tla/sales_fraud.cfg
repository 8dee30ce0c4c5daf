SPECIFICATION Spec
CONSTANTS
    Customers = {}
    Anonymous = nobody
    Software = {"game"}
    Hardware = {"console"}
    Accessories = {"pad"}
    Price <- MCPrice
    Baskets <- OneGame
    TradeValues = {3}
    Unit = 1
    Seconds = 2
    Precision = 4
    FineDay = 2
    OpenDay = 0
    CloseDay = 5
    ClosureDay = 6
    EraDay = 9
    MaxLag = 2
    FraudShop = TRUE
    FraudStart = 2
    FraudEnd = 4
    FraudLagMin = 1
    FraudLagMax = 3
    FraudMax = 3
    MaxReceipts = 4
CHECK_DEADLOCK FALSE
INVARIANTS
    RefundedOnce
    KeyedIsStale
    RefundAfterSale
