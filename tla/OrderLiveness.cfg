\* Answers arrive and the risk view catches up: one Binance account, polls succeed.
CONSTANTS
    okx1 = okx1  okx2 = okx2  bn1 = bn1  x1 = x1  b1 = b1
    NoOrder = NoOrder  NoAccount = NoAccount
    Orders = {o1, o2}
    Accounts <- OneBinance
    OkxAccounts = {}
    Symbols = {b1}
    SymbolsOf <- BinanceSymbol
    Templates <- BinanceTemplates
    AmendValues <- NoAmends
    BatchSize = 1
    PnlValues <- Pnls
    ReportsFlat = {bn1}
    PollMayFail = FALSE
    MaxOrderValue = 5
    MaxOrderQuantity = 5
    MaxOpenOrders = 2
    MaxPositionValue = 3
    MaxTotalExposure = 4
    DailyLossLimit = 2
SPECIFICATION Spec
PROPERTIES EventuallyAnswered ViewCatchesUp
