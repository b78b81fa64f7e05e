\* The risk view: failing and half-applied polls on both exchanges.
CONSTANTS
    okx1 = okx1  okx2 = okx2  bn1 = bn1  x1 = x1  b1 = b1
    NoOrder = NoOrder  NoAccount = NoAccount
    Orders = {o1, o2}
    Accounts <- BothAccounts
    OkxAccounts = {okx1}
    Symbols = {x1, b1}
    SymbolsOf <- BothSymbols
    Templates <- ViewTemplates
    AmendValues <- NoAmends
    BatchSize = 1
    PnlValues = {0}
    ReportsFlat = {bn1}
    PollMayFail = TRUE
    MaxOrderValue = 5
    MaxOrderQuantity = 5
    MaxOpenOrders = 2
    MaxPositionValue = 2
    MaxTotalExposure = 3
    DailyLossLimit = 2
SPECIFICATION Spec
INVARIANTS RiskViewSound
PROPERTIES TotalCapUpToUnseen LongCapUpToUnseen
SYMMETRY OrderSymmetry
