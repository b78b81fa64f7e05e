\* The order thread: singles, batches, amends and lost calls on both exchanges.
CONSTANTS
    okx1 = okx1  okx2 = okx2  bn1 = bn1  x1 = x1  b1 = b1
    NoOrder = NoOrder  NoAccount = NoAccount
    Orders = {o1, o2}
    Accounts <- BothAccounts
    OkxAccounts = {okx1}
    Symbols = {x1, b1}
    SymbolsOf <- BothSymbols
    Templates <- BuyTemplates
    AmendValues <- Amends
    BatchSize = 1
    PnlValues = {0}
    ReportsFlat = {bn1}
    PollMayFail = FALSE
    MaxOrderValue = 5
    MaxOrderQuantity = 5
    MaxOpenOrders = 2
    MaxPositionValue = 3
    MaxTotalExposure = 4
    DailyLossLimit = 2
SPECIFICATION Spec
INVARIANTS CountersBalance ReportsTruthful PassedIsAnswered
SYMMETRY OrderSymmetry
