CONSTANTS
    Conns = {1, 2, 3, 4}
    Streams = {"main", "kline", "trades", "depth"}
    Main = "main"
    Counted = {"main", "kline"}
    Depth = {"depth"}
    Strategies = {"s1", "s2"}
    MaxUsers = 3
    MaxFaults = 3
    Venues = {"okx", "binance"}
    MaxBars = 3
    MaxTime = 4
    PerBar = 2
    MaxMinute = 4
    Chunk = 3
    MaxFailures = 2
    Focuses = {"sockets", "main", "kline", "trades", "depth", "ring", "candles"}
SPECIFICATION MCSpec
INVARIANTS StatusTrue WantedIsKept AtRestCarried RecentIsEnd InOrder
    RecorderBarsWhole HistoryTrue
PROPERTIES SocketFeedKept DisconnectReturns ShowsLastBars StoreHeals
CHECK_DEADLOCK FALSE
