SPECIFICATION Spec
CONSTANTS
    Customers = {}
    Anonymous = nobody
    Software = {"game"}
    Hardware = {"console"}
    Accessories = {"pad"}
    Price <- MCPrice
    Baskets <- OneGame
    TradeValues = {1}
    Unit = 1
    Seconds = 2
    Precision = 1
    FineDay = 0
    OpenDay = 0
    CloseDay = 1
    ClosureDay = 3
    EraDay = 9
    MaxLag = 2
    FraudShop = FALSE
    FraudStart = 9
    FraudEnd = 9
    FraudLagMin = 0
    FraudLagMax = 1
    FraudMax = 3
    MaxReceipts = 2
CHECK_DEADLOCK FALSE
INVARIANTS
    WithinTradingDays
