\* One strategy and the server, one order on OKX and one on Binance, with one
\* restart of the server; and the scheduled tasks of the strategy.
CONSTANTS
    x1 = x1  b1 = b1
    Orders = {x1, b1}
    OnBinance <- OnlyBinance
    NoOrder = NoOrder
    RequestBound = 2
    ReportHwm = 2
    MaxPosition = 1
    MaxCrashes = 1
    Tasks = {1, 2}
    Interval = 1
    MaxNow = 1
    MaxDepth = 2
SPECIFICATION MCSpec
INVARIANTS
    ShownIsTrue LiveIsPending SubmittedExplained RefreshedViewFresh
    NotTooOften
PROPERTIES LifeSpec SubmittedSettles CollectedIsCalled
CHECK_DEADLOCK FALSE
