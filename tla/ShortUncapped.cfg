\* A short position loses its sign on the way to the risk manager.
CONSTANTS
    okx1 = okx1  okx2 = okx2  bn1 = bn1  x1 = x1  b1 = b1
    NoOrder = NoOrder  NoAccount = NoAccount
    Orders = {o1, o2}
    Accounts <- OneOkx
    OkxAccounts = {okx1}
    Symbols = {x1}
    SymbolsOf <- OkxSymbol
    Templates <- ShortTemplates
    AmendValues <- NoAmends
    BatchSize = 1
    PnlValues = {0}
    ReportsFlat = {}
    PollMayFail = FALSE
    MaxOrderValue = 5
    MaxOrderQuantity = 5
    MaxOpenOrders = 2
    MaxPositionValue = 3
    MaxTotalExposure = 4
    DailyLossLimit = 2
SPECIFICATION Spec
PROPERTY SymbolCapWhenCurrent
