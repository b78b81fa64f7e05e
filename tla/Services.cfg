CONSTANTS
    Accounts = {"a", "b"}
    Traders = {"s"}
    Creds = {"c", "d"}
    MaxRequests = 4
    Asks <- AllAsks
    BinanceSymbols = {"btc"}
    UrlStream <- InUrl
    QueueRoom = 2
    MaxPushes = 2
    Room = 2
    MaxHanded = 3
    Second = 2
    Minute = 2
    PerSecond = 2
    PerMinute = 3
    MaxDrawdown = 40
    Equities <- FewEquities
    MaxClock = 9
    MaxDays = 2
    MaxPolls = 3
SPECIFICATION MCSpec
INVARIANTS OwnAccount AccountsAgree OkxCarriesWanted BinanceCarriesWanted FeedUnbroken TapeKept
    RiskMemoryTrue
CHECK_DEADLOCK FALSE
