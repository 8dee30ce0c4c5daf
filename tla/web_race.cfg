SPECIFICATION Spec
CONSTANTS
    NumSales = 6
    NumShops = 3
    ShopOf <- SixShopOf
    CustomerOf <- SixCustomerOf
    NoCustomer = 0
    Refunds = {2}
    Reviewers = {1, 2}
    K = 2
    MaxWorkers = 3
    AccountHolders <- ThreeHolders
    Reviewed = {1, 3, 4, 5}
    Thread <- ThreeThreads
    Ballot <- ThreeBallots
    Visits <- ThreeDays
    Batch = 2
    Stride = 10
    MaxRuns = 3
INVARIANTS
    PoolBuiltOnce
CHECK_DEADLOCK FALSE
